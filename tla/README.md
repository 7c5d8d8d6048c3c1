# TLA+ models of libexositecoap

This directory holds TLA+ models of the Exosite CoAP client library in
`src/`. They are checked with TLC.

## The system

An application (`src/examples/subscribe.c`) owns an array of `exo_op` slots.
It stages operations with `exo_write`, `exo_read` and `exo_subscribe`, and
calls `exo_operate` in a loop. Each call to `exo_operate` (`src/src/exosite.c`)
does three things in order:

1. **Activation gate.** If the device is `Initialized` or `BadCik` and slot 0
   is free, it stages an Activate in slot 0.
2. **`exo_process_waiting_datagrams`.** It reads every waiting datagram and
   hands it to the first slot that accepts it:
   - a Pending slot accepts a datagram with the same message id;
   - a Subscribed slot accepts a datagram with the same token.

   The slot then copies the payload, sets its state, may set `device_state`,
   and may capture and store a CIK. A CON that no slot accepts is answered with
   an RST, and the loop ends.
3. **`exo_process_active_ops`.** It walks the slots:
   - a New slot builds and sends its request and becomes Pending with a 4 s
     deadline;
   - a Pending or Subscribed slot past its deadline fails, or re-registers if
     it is a subscription;
   - a SubAck or SubAckNew slot sends the ACK of a notification.

The caller collects Success and Error slots with `exo_op_done`.

The platform layer (`src/pal/*`) gives a non-blocking UDP socket, a clock and
a CIK store. The other end of the socket is the Exosite platform, which is not
code of this repository.

## Modules

| module | models |
|---|---|
| `ExoEngine` | The engine, the slot API, the caller and the POSIX CIK store. The state is `device_state`, `cik[]`, the cik file (`nvm`: absent, `Torn`, or a CIK), `message_id_counter`, the caller's slots, where `exo_operate` is (`pc`, `idx`), the message id left in `exo_process_active_ops`' local buffer (`pduMid`), and the two directions of the socket. |
| `ExoSystem` | `ExoEngine` composed with its environment: the network (loss, reordering, optional duplication, bounded capacity), the platform's CoAP server, operator re-enables and device restarts. It also holds the fairness and all engine properties. |
| `MC_ExoSystem` | Model values and small sets for TLC: two slots, one user slot, one token, one or two CIKs. |
| `OpLifecycle` | The abstract specification: the life of each slot (Free, Queued, Sent, Live, Success, Error) and of the device (`device_state` and its CIK), as spec 3 and 4.4 describe it, without the network. `ExoSystem` is checked to implement it. |
| `PalClock` | One read or write slot's deadline against a platform's `exopal_get_time`, in the code's absolute arithmetic. The platform (`pal`) is chosen at Init. The state is:<br>- the time since boot (`secs`, `msecs`);<br>- for POSIX, the wall-clock `offset` and the number of `steps` taken;<br>- the slot's `state`, `type` and uint64 `timeout`;<br>- a history variable `armedAt`, holding the real time at which the deadline was set.<br>`GetTime` is `(secs*UsPerSec + msecs*UsPerMs) % 2^Width` on the GT202 (line 329, with the 32-bit width scaled down). On POSIX it is the elapsed time plus the wall-clock offset (`gettimeofday`, line 219). `StepClock` sets the POSIX wall clock back or forward. `SendRequest`, `CheckTimeout` and `PollIdle` are the branches of `exo_process_active_ops` for that slot. `Answer` and `Collect` are the response and `exo_op_done`. |
| `ObserveSeq` | The decoding of the Observe option in the notification branch, as a `RECURSIVE` operator, checked against the big-endian reference value (`FoldLeft`). |

### How the engine model maps to the code

One poll is a sequence of steps:
- `OperateBegin` is the gate;
- each `RecvMatched` or `RecvUnmatched` step handles one received datagram;
- `RecvNone` means no datagram is waiting;
- each `ActiveStep` handles one slot.

So the platform and the network act only between polls (`pc = "idle"`). This
is sound because the engine touches the socket only inside its receive and
send calls. A datagram that arrives during a poll is simply received by the
next one.

`RecvMatched` dispatches to the branch of the matching loop:
`OnWriteResponse`, `OnReadResponse` (the Read branch and the Pending branch of
Subscribe), `OnNotification` or `OnActivateResponse`.

`ActiveStep` is one of four cases:
- `SendRequest` covers the New case. The message id is consumed even when the
  send fails.
- `ExpireOp` covers the deadline switch, including its empty default for
  Activate.
- `AckNotification` covers the ACK case.
- `SkipOp` covers the remaining slots.

Deadlines are relative (`timer`, counted down by `Tick`). `NotArmed` is the
zeroed timeout of `exo_op_init`, which is always in the past.

`pduMid` is the message id held in the uninitialized local `buf[]`:
- `Garbage` until a PDU is built in this call;
- the id of the last PDU built after that.

An ACK built from `Garbage` may carry any id. This is the nondeterminism that
reading uninitialized stack memory allows.

`exo_init` is `ExoInit(sock)`:
- `RetrieveCik` is the result of the POSIX `exopal_retrieve_cik`: 1 for an absent file, 2 for a file shorter than 40 bytes, 0 for a stored CIK;
- `sock` is the outcome of `exopal_udp_sock`.

`StoreCik` is the POSIX `exopal_store_cik`. `fopen("cik", "w")` truncates the
file at once. The 40 bytes then wait in the stdio buffer of a `FILE` that is
never flushed or closed. So the file stays empty (`Torn`) until the process
exits normally, which `subscribe.c` never does. `Restart` (a kill or power
loss) keeps the file and clears everything in RAM. Datagrams already on the
network survive a restart. `exo_init` may seed the message-id counter with any
value, the previous boot's included.

Data is abstracted:
- a payload is its size class (`empty`, `fits`, `large`, or a 40-byte `cik`);
- a value's version is a number `obs` on the message and `seen` in the slot;
- aliases and URIs are left out.

## Runs

At most 12 runs are kept. Every cfg except `obs_*.cfg` checks `MC_ExoSystem`.

| run | expect | what it shows |
|---|---|---|
| `rw_safety` | pass | `TypeOK` and `LifecycleRefined` hold for reads and writes under unbounded loss, send failure, payloads of every class, one re-enable and one device restart. `TypeOK` keeps every variable in range: the message-id counter is reduced modulo `MidMod` (the 16-bit wrap), and timers stay within their deadlines. `LifecycleRefined` says every step is a step of `OpLifecycle`. It cannot tell which request an answer was sent for: the abstract `Reply` accepts any answer of a Sent slot. |
| `sub_safety` | pass | `LifecycleRefined` holds for a subscription with notifications, RSTs, retransmissions and unbounded loss. The re-registration from Sent or Live, and the return to Live after `exo_op_done`, are steps of the abstract lifecycle. |
| `rw_live` | pass | `OpsEventuallyFinish`: every staged read or write ends. This holds under unbounded loss, duplication and 5.xx answers, with only the polling loop and the clock fair. |
| `sub_live` | pass | `LatestValueDelivered`: the caller eventually sees the platform's last value. This holds with two losses, a fair platform and a fair network. |
| `obs_fresh` | pass | `NewValueNeverMissed`: for Observe values of up to 3 bytes, a different value is never taken for a refresh. The loop shifts by 0, 8, 16 bits, so a 3-byte value is stored as `b0<<24 \| b1<<16 \| b2` rather than its big-endian value. That is harmless, because `obs_seq` is only compared for equality. With 4-byte values (not allowed by RFC 7641) two values do collide. |
| `activation` | violation | `ActivationCompletes`: one lost activation datagram leaves slot 0 Pending forever, because Activate has no expiry case. |
| `ack_mid` | violation | `AckMatchesNotification`: the ACK of a notification carries the id in the local buffer, not the notification's id. |
| `seq_regress` | violation | `ValueNeverRegresses`: a notification is taken as the response of a re-registering subscription because it carries the same message id. The older real response then overwrites it. |
| `reenable` | violation | `ReactivationCompletes`: after the message-id counter wraps, a 4.01 for a read ends a pending activation as "already activated". The device keeps its revoked CIK forever. |
| `stale_answer` | violation | `AnswerFromThisBoot`: a read is answered, and the device restarts while the answer is still on the network. `exo_init` reseeds the message-id counter and gets the same value, as `srand(time(NULL))` does within one second. The activation the gate then sends reuses the read's id. Activation answers are matched by message id alone, so the old read's answer completes it. `Restart` marks the datagrams in flight with a history field `stale`, and the server's answers inherit the mark. The property forbids a receive step that matches a stale datagram to a slot. |
| `clock_deadline` | violation | `DeadlineHonoured`: a write without an answer stays Pending long past its deadline. The code shows this on both platforms.<br>- **GT202** (`Pals = {"gt202"}`): the write is sent 1.5 scaled seconds before `exopal_get_time` wraps. Its uint64 deadline `now + 4000000` is at or above 2^Width, so the wrapped clock never reaches it, and the write stays Pending forever.<br>- **POSIX** (`Pals = {"posix"}`): the wall clock is set back 8 after the write is sent, so the deadline moves 8 further away.<br>With both platforms TLC reports the shorter, POSIX trace. The control (`Width = 10`, `MaxSteps = 0`: no wrap and no step within the bound) passes with 7,274 states, so the clock alone is the cause. Forward steps are harmless here: they only expire a request early, which is what spec 8 allows. |
| `torn_cik` | violation | `InitRecovers`: the device activates, stores its CIK, and restarts. The cik file is then empty, `exopal_retrieve_cik` returns 2, and every `exo_init` fails with `EXO_FATAL_ERROR_PAL`, however often the caller retries. |

`PROJECT.json` lists the findings, with source lines.

Each property of a passing run has a mutant: a variant of one mapped
definition that a plausible bug would produce, which TLC must catch. The
mutants are:
- the message-id counter not wrapped;
- expiry applied to finished slots (caught by the refinement);
- an unbounded retry of a read or write past its deadline (the retry the
  `TODO` at `exosite.c:478` asks for), caught by `OpsEventuallyFinish`;
- no re-subscription on expiry;
- the Observe loop starting one byte late.

### Refinement

`LifecycleRefined` is `OpLifecycle`'s `Spec`, instantiated in `ExoSystem`
with a refinement mapping:
- `phase[s]` is `PhaseOf(ops[s].state)`;
- `kind[s]` is `ops[s].type`;
- `device` is `devState`;
- `key` is `cik`.

Every step of the composed system must be a step of the abstract lifecycle,
or leave the mapped state unchanged. Steps that leave it unchanged include a
failed send, an empty read payload, a tick, and anything the network or
platform does. In particular:
- a finished slot moves only through `exo_op_done` or a restart (spec 8 (ii));
- a request is sent only by a device past `exo_init`;
- a subscription re-registers only from Sent or Live;
- the activation slot goes from Sent straight back to Free;
- the CIK changes only in `exo_init`, a captured activation, or a restart.

### Bounds

- Slot 0 is the activation slot and slot 1 is the caller's.
- One token makes every request of a slot match by token as well as by id.
- `MidMod = 3` lets the message-id counter wrap after three requests. This is
  the 16-bit wrap of the code brought within reach.
- `MaxSeq` is 0 to 2 versions of the observed value.
- `MaxInFlight` is 1 or 2 datagrams per direction. A datagram sent into a
  full direction is dropped, like any other loss.
- The deadlines `ReqTimeout = 1` and `ObsTimeout = 2` keep the ordering of the
  code: the 4 s request deadline is shorter than the 120 s re-subscription.
- `Booted` starts from an activated device that has staged its first
  operation, as `subscribe.c` does. Without it, the run starts before
  `exo_init`.
- In `PalClock`, `Width = 5` makes the GT202 clock wrap every 8 scaled seconds,
  and `MaxSecs = 10` lets one wrap happen. The second has 2 milliseconds of
  2 microseconds. The deadline `ReqTimeoutUs = 6` is shorter than the period,
  as 4 s is shorter than 4295 s. Sends at every instant are explored, so
  sends made both just before and well before the wrap are covered.
  For POSIX, the wall clock starts at `WallAtBoot = 40`. It may be stepped
  once (`MaxSteps = 1`) by `StepUs = 8` either way. That is more than the
  deadline, as an NTP or operator correction of minutes is more than 4 s.

With these bounds, the safety counterexamples appear within 20 steps. The liveness ones appear within about 120 steps. The
passing runs reach between 129 and about 7.3 million distinct states. The two
safety runs take about 2 and 3 minutes, because checking the refinement
costs more; the others take seconds.

### Fairness

`PolledSpec` assumes:
- weak fairness of the engine's steps (the application keeps calling
  `exo_operate`);
- strong fairness of `Clock`, and of an `exo_init` whose socket opens. A failed
  `getaddrinfo` or `connect` is transient, and the caller is assumed to retry
  `exo_init`. `subscribe.c` itself does not retry.

`LiveSpec` adds strong fairness of the following, because they are enabled
only between polls:
- reception of a waiting datagram;
- the platform answering a request;
- the platform consuming an ACK or RST;
- the caller's `exo_op_done`;
- the caller's next request.

Loss, send failure, duplication, restarts and re-enables have no fairness.

`Timely` (used by `sub_live` and `reenable`) stops the clock while a round
trip of a Pending slot is on the network. It stands for a platform that
answers within the 4 s deadline. Without it, a deadline can race every
response forever.

Liveness runs bound loss with `MaxLoss`. A network that loses every datagram
defeats any protocol.

## Not modelled

- **The CoAP codec.** Only `coap.h` is in the repository. Invalid datagrams,
  which the engine drops, are not generated.
- **String building** in the request builders.
- **The `exo_do_activate` stub** and the unused `exo_util_is_ascii_hex`.
- **The unit test**, which checks only `2+2 == 4`.

- **The rest of the GT202 platform layer.** Its CIK store goes through the MQX
  flashx driver, which is not in the repository, so what a short flash write
  leaves behind cannot be derived from source. Only its clock is modelled
  (`PalClock`). That module keeps one slot and the request deadline. The
  120 s re-subscription deadline wraps in the same way but is not modelled.
- **The template platform layer.** It is stubs that all return errors.
- **Clock steps in the engine model.** `ExoSystem` counts deadlines down, so
  its clock never goes back. Steps and wraps are modelled in `PalClock` only,
  for a single read or write slot.
- **The empty-payload read** (`exosite.c:322-323`). `OnReadResponse` models
  it: the value pointer is cleared and the slot stays Pending. The run that
  showed it against spec 4.4 was retired, because the number of runs is capped.
  `PROJECT.json` keeps it as a hazard.
- **Which request of one boot an answer belongs to.** No property checks this.
  `OpLifecycle`'s `Reply` accepts any answer for a Sent slot. Across a restart
  the case is caught by `AnswerFromThisBoot`.
- **A normal process exit.** It would flush the CIK buffer. `subscribe.c`
  loops forever, so the process only ends by a signal or a power loss.
