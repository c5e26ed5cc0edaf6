# Verification of FirmwareUpgrade

`src/examples/FirmwareUpgrade` is a Linux program that upgrades the firmware of
a CHCNAV 7 Series GNSS module over a serial line. It checks the firmware
package, finds the baud rate of the module and changes it, and then carries the
file to the module piece by piece with a request/reply protocol. This directory
holds TLA+ models of that program, TLC configurations that check them on small
instances, and TLAPS proofs that their invariants, and the three refinements, hold
for every value of the constants.

Paths below are relative to `src/examples/FirmwareUpgrade`.

## The system

The program has one thread. Everything hard about it comes from the far end of
the line: the module and the line decide when bytes arrive, in which pieces,
which of them are damaged, and whether an old answer turns up late.

| Part | Code | State | Operations |
|---|---|---|---|
| upgrade loop | `SubPackageUpgradeProc`, UpgradeM7xx.c:305-716 | `s_UpgradeStatus`, `TimeCntr`, `UpgradeResult`, `TransportMaxLen` | one iteration per millisecond: timeout check, then the case of the status |
| reply filter | `UpgradeFrameCacheAndFilter`, UpgradeM7xx.c:110-191 | that of the frame handle | read, decode, match, resend or drop |
| request frames | `UpgradeFrameInit`, `UpgradeFrameEncode`, UpgradeProtocol.c:191-317 | `FrameSend`, the cached bytes `FrameStr`, the previous request | encode a request under the next frame number and remember the one before |
| frame decoder | `UpgradeFrameCacheAndDecode`, UpgradeProtocol.c:333-488 | `HeaderFind`, `RecvData`, `RecvDataLen`, `FrameRecv` | look for a header, a length, a body and a CRC, across reads |
| reply handlers | UpgradeEntry.c | none | judge a reply, extract the module's asks |
| baud rate fitting | `MatchModule`, `FitBaudrate`, UpgradeM7xx.c:729-861 | the port, the match buffer | try each rate, reconfigure the module, reopen the port |
| serial port | UartCommon.c | file descriptor, line settings | open, set, read, write, close |
| package check | `CheckUpdatePackage`, `CheckPackageM7xx`, UpgradeM7xx.c:875-994; md5.c | the file in memory, MD5 context | MD5 of every partition |
| program | main.c, `UpgradeM7xx`, UpgradeM7xx.c:1007-1066 | arguments, open files | the phases in order, the exit code |
| CRC | CRCGenerate.c | a constant table | `CRC32Generate` |
| debug output, progress | UpgradeCfg.h, UpgradeM7xx.c | none | |

How they interact: `main` calls `UpgradeM7xx`, which calls the package check,
then the fitting, opens the port and the package again, and runs the loop. The
loop builds requests with the encoder and gives them to the port; the filter
reads the port, drives the decoder, compares what it yields with the handle's
pending request, and may write the cached bytes of the pending request again.
The handle is the state that encoder, decoder and filter share.

What is hard, and what must hold of it:

- *Old answers.* A reply carries its request's command and one-byte frame
  number. A late or repeated reply must never be taken for the pending answer
  (`FreshReply`), and a data frame carries no address, so a confusion there would
  shift the image (`PiecesInPlace`, `DeliversInOrderOnce`).
- *Resends.* A reply to the previous request makes the filter write the pending
  request again. This must repair what was dropped
  (`CompletesDespiteStaleReplies`) without one stale reply begetting many
  (`NoBreeding`).
- *Timeouts.* There is no retransmission on silence. Every status must time out
  (`Termination`), and the verdict must be right although the switch runs on the
  status read before the timeout check (`SuccessMeansComplete`).
- *Bytes and reads.* Frames arrive damaged and in pieces. The decoder must keep
  within its buffer, lose nothing it need not lose, and never report what is not
  a frame (`CacheFits`, `Contiguous`, `NoStall`, `SeparateFramesReported`,
  `ReadsFrames`).
- *Sizes.* What the user asks for, what the module allows and what the frame
  adds must agree (`FramesFitDevice`), in numbers that cross the line in two byte
  orders and are compared signed and unsigned (`SendsWhatWasAsked`). All requests
  are laid out in one buffer (`ReadsBack`), and what the receiver acts on must lie
  under the CRC (`DamageSeen`).
- *Killed and run again.* The program keeps nothing; the module keeps half an old
  session, and the line may keep frames with the very numbers the new run counts
  from (`RunsStayFresh`, `OldTrafficGone`, `InstalledWhole`, `RetriesSucceed`).
- *What is checked, and what is sent.* The verdict on a package must be that of the
  partitions it names (`VerdictRight`), the module touched only after it
  (`TouchedOnlyAfterCheck`), and the MD5 right at every border of a block
  (`HoldsMessage`, `DigestRight`). The file is opened again to be sent, and not
  checked again: the properties say what holds then, and that is less.
- *Ways out.* There are a dozen; each must give back what is held (`HeldGivenBack`),
  the loop must name a failure after its cause (`FailureNamed`), and the exit code is all
  a script sees (`ExitTells`).

`PROJECT.json` lists these and the other hazards with the line where each bites.


## The modules

### UpgradeHandle, UpgradeProc, UpgradeSession: the upgrade loop

`UpgradeHandle` has the request half of `FRAME_HANDLE_T` as a record and its
functions as operators: `FrameInit` (`UpgradeFrameInit`), `FrameEncode` (the
next number, the previous request, the cached bytes of `UpgradeFrameEncode`),
`Matches`, `AnswersPrevious`, `IsResidual` (the comparisons of the filter), and
what the handlers of UpgradeEntry.c accept. A frame is a record: command,
number, whether its CRC holds, and of the payload the interval of the file a
request carries, or the numbers a reply asks for.

`UpgradeProc` is the loop with the line in both directions and the module.

| Variable | In the code |
|---|---|
| `status`, `result`, `timeCntr`, `limit` | `s_UpgradeStatus`, `UpgradeResult`, `TimeCntr`, `TransportMaxLen` |
| `args` | the fields of `CMD_ARGS_T` the loop reads |
| `handle` | `FrameHandle`, the request half |
| `phase`, `returned` | inside the loop, inside `sleep(2)`, or returned, and with what |
| `toHost` | what the module has sent and `read` has not yet returned |
| `toModule` | what has been written and the module has not yet taken |
| `gen`, and `gen` of a frame | ghost: which request it is, or answers |
| `line`, `mod`, `faults` | external: the last reply, the module, the faults so far |

One action of `Host` is one iteration of the `while` loop: the timeout check
(`CheckedStatus`, `CheckedResult`), the case of the status that was read
*before* the check, and the increment of `TimeCntr` (`GoTo`). `KeepWaiting` is
every case whose filter call did not return `PROTOCOL_FILTER_OK`. The reboot case
sleeps in the middle and is two actions (`RebootConfirmed`, `RebootFlushed`).
`ReadMatch` and `ReadOther` are `UpgradeFrameCacheAndFilter` with a read of
any number of frames; `Written` is the resend.

The module is modelled from what the host sends and what its handlers expect: it
answers a request, asks for the next piece, recognises the request it has seen
last by command and number and answers it again without acting on it. The line
loses, damages and repeats, sends frames that are no replies, and, with `-u`, the
residual reply of the radio described in the comment at UpgradeM7xx.c:148-158. Each
fault happens as often as `FaultLimit` says. The module asks for impossible pieces, but it never ends
a transfer early: the loop counts nothing itself and takes an ask for nothing as the end
(UpgradeM7xx.c:582), so `SuccessMeansComplete` is a statement about a module that ends
behind the last byte.

`UpgradeSession` is what the user is promised: pieces in order, without a gap, every
byte once, and OK only behind the last. `UpgradeProc` implements it (`Session`).

### FrameReading, FrameReader, FrameDecoder: from bytes to frames

`FrameDecoder` is `UpgradeFrameCacheAndDecode`: one action per turn of its loop,
with reads of any length up to `ReadMax`. `FindHeader`, `MissHeader`,
`TakeHeadByte`, `RejectLength`, `FrameDone`, `FrameDamaged` and `FramePart` are the
branches of the loop, `Return` the end of the call with what the filter does to
the cache. The CRC is a parameter of the module.

`FrameReading` states what one read makes of the frames in it, and `FrameReader`
is the specification of a reader that keeps to it. `FrameDecoder` implements
`FrameReader` (`ReadsFrames`), and `UpgradeProc` uses the same operators in
`ReadMatch` and `ReadOther`: this is what licenses whole frames there. The mapping is the ghost
`gone`, the number of frames that can no longer be reported: an undamaged one once the decoder is past its first byte for
good, a damaged one once it is past its last byte, because the rest of
a damaged frame may still look like a header. Its first byte decides for an undamaged one because the
decoder does not try a byte that breaks a header as the first of another (UpgradeProtocol.c:372): a
stray D5 in front of a frame costs the frame, whether or not it has been read to its end.

### UpgradeRetry: killed, and run again

`UpgradeRetry` extends `UpgradeProc` by `Kill`, at any point of the loop, and `Rerun`,
after a failure. Both are `FreshStart`: the host starts from its initial values,
with any transfer size, and the module stays as it is, its image and its pending
ask included. Between two runs lies `FitBaudrate`, and `FreshStart` uses two things
of it. It leaves the line empty, which `OldTrafficGone` of `BaudFit` shows; and the module has
taken its text commands since, so it does not recognise the last frame of the
old run as a repetition. An old frame may make one `FitBaudrate` fail (it holds NUL bytes,
which stop `strstr`); the run ends there, and the next begins.

### BaudFit, RateAgreement: the baud rate

`FitBaudrate` with `MatchModule` in it and UartCommon.c under it. The search and the
match after reopening are the same actions with `again` FALSE and TRUE. What
comes in is a sequence of tokens: the two halves of the answer to OFFMSG, so that
a read may cut it, text, text with a NUL byte, which stops `strstr`, and an
upgrade frame of a session that was killed. A token sent
at one rate and received at another becomes text, with or without NUL. `UartOptionSet` and
`UartWrite` have outcomes the code does not look at, and neither do the actions.
The comment "Open the blocking mode" (UpgradeM7xx.c:796, 835) does not describe
the call: mode 0 sets `O_NONBLOCK` (UartCommon.c:54-56), and `MatchModule` relies on
that. The environment of a behaviour (`env`) is chosen at its start: which faults, how
often, whether answers are timely, whether a session was killed before.

`RateAgreement` is what the caller is promised, without line and turns: the module
moves, if at all, to the wanted rate, and 0 means agreement unless the port could
not be set. `BaudFit` implements it (`ReachesAgreement`).

### CRCGenerate, FrameBytes: the bytes of the frames

`CRCGenerate` is `CRC32Generate` on sets of bits. The 256 entries of the table are
computed from the polynomial; they are those of the code.

Three assumptions are evaluated there. `BitsAssumption` says that a byte and its bits are the same
thing, and `TableAssumption` that no two entries of the table have one highest byte: both are
about 256 values, and TLC goes through all of them. `CheckValueAssumption` is the check value.

`FrameBytes` is the session of `UpgradeProc` on a perfect line, byte by byte: the
frame `UpgradeFrame2String` lays out in `FrameStr` over the one before, the data the loop
gives each builder, and what the reply handlers make of the bytes of a reply,
field by field. `asked` and `told` are ghosts: what a request was meant to carry, and
what the module wrote. The payload limits are small; bytes, fields and the CRC are
the real ones. `FrameAssumption` is what the code's constants satisfy: frames shorter than an
`unsigned short` counts, transfer sizes and `FILE_INFO_T` that fit a frame's data, a package that
begins with a `FILE_INFO_T`, and a module that answers in bytes, with a status of four bits.

### Md5, Md5Stream, PackageCheck: the package

`Md5` has `MD5Start`, `MD5Update` and `MD5Finish` as operators on the context, without the
compression function: `State` is the sequence of bytes it has been given. `Padded` is the
padding of RFC 1321, the reference. `Md5Stream` uses a context in every order of calls.
`PackageCheck` is `CheckPackageM7xx` with its two loops over one table and one context.

### Upgrade: the program

`Upgrade` is `main`, `GetCmdArgs`, `UpgradeM7xx` and `CheckUpdatePackage`, one action per call that can
fail, and the loops of `PackageCheck`. The two long calls are their abstract specifications:
`FitBaudrate` is `RateAgreement`, `SubPackageUpgradeProc` is `UpgradeSession`, each an instance whose
actions `Upgrade` takes. `held` is what is open or allocated, the descriptor included that `UartOpen`
forgets when `fcntl` fails (`UartNotOpened`, UartCommon.c:56-60). The package file may be
replaced at any time; an open file stays what it was. `ModuleFollows` and `ModuleReceives` go on
after a call has returned: what is on the line may still get to the module.

## The runs

| Run | Module, configuration | Shows |
|---|---|---|
| safety | MCUpgradeProc, Safety.cfg | the invariants of the loop and the refinement of `UpgradeSession`, one fault of every kind |
| stale | MCUpgradeProc, Stale.cfg | two repeated replies and a residual one never cost the upgrade |
| termination | MCUpgradeProc, Termination.cfg | the call returns, and its failures are named after their causes, one fault of every kind |
| reboot | MCUpgradeProc, Reboot.cfg | counterexample: success for `-r`, and no reboot |
| wait_retval | MCUpgradeProc, WaitRetval.cfg | counterexample: the filter says wait, and drops the answer |
| retry | MCUpgradeRetry, Retry.cfg | a kill, a lost frame and a repeated reply: old answers stay out, the image is one whole copy, and some run succeeds |
| decoder | MCFrameDecoder, Decoder.cfg | the decoder on every cut of three frames, one damaged |
| baud | MCBaudFit, Baud.cfg | the fitting with every fault once, after a killed session, and with a module that answers in time, which is found and moved; the refinement of `RateAgreement` |
| baud_option | MCBaudFit, BaudOption.cfg | counterexample: 0 is returned at the wrong rate |
| frames | MCFrameBytes, Frames.cfg | requests read back as meant, damage is seen, the module's numbers are read as it wrote them |
| md5 | MCMd5Stream, Md5.cfg | a message cut in every way is hashed as a whole |
| upgrade | MCUpgrade, Upgrade.cfg | the program: verdicts, exits and what their codes tell, what is given back, what is touched when |

Bounds, and why they are enough:

- *Modulus* 4 for 256. What matters is how many requests apart two frames with one
  number can be. A session of the runs goes around twice or more, and the theorem
  `AnswersAreFresh` holds from 3 on.
- *Overtime* 2, 3, 4 or 7 iterations for 25000. TimeCntr is only compared with it and
  counts on from 0 after every progress; 2 lets a timeout fall into the iteration
  that takes an answer, 7 leaves room for the resends. *termination* has 3: with 2 there is no
  iteration in which an answer can be rejected and the next check not find the time up,
  so PROTOCOL_FAILED would not be returned at all.
- *FileSize* 2100 and 1500 bytes with pieces of 1024 or 2048: one to three pieces, the
  last one short. Sizes are the real ones, so that the limits of 1024 + 16 and
  so on are compared as in the code; a module that declares 1024 is one the host
  must reject.
- *Faults*: one of each kind together, because every defence is against one
  fault in the presence of others; two repeated replies in *stale*, where they
  meet.
- *Decoder*: header 4, frame 5 to 7 bytes, reads up to 9, so that a read holds less
  than a header, or more than a frame. One of the first two frames has any byte
  changed to values that include header bytes and valid lengths, lost, or added,
  or is a byte of noise; the damage may also leave the frame whole.
- *BaudFit*: three rates, so that the module may be at the first, the middle or the
  last; four turns per match are enough for an answer in any, cut by
  them, or late. Buffers are in tokens: a read of two, a match buffer of
  five, so that the module's own text can fill it. The three
  environments are kept apart because all of them together are too large: a
  killed session meets loss, refusal and the module's own text, but no failing port.
- *Retry*: one kill, one loss and one repetition, two runs after a failure, two
  transfer sizes; each fault costs at most one run. *Overtime* 4, because `TimeCntr` is
  not reset on the way from the reboot to closing the radio.
- *Frames*: pieces of up to 8 bytes of a package of 14 that holds header bytes; the
  tables are {4, 8} and the least length 20, so that lengths below, at, between
  and above them all exist, and negative and byte-swapped ones. Frame numbers
  modulo 3 wrap in every session.
- *Md5*: bytes of two bits, words of two bytes, blocks of eight. A word then counts to 16,
  and a message of 40 bytes carries into the second word and shifts bits across.
- *Upgrade*: packages name none, one or both of two partitions, which are empty, just
  below or above the border between one padding block and two, or damaged; two rates and two
  sizes, one of them not the default; up to two options out of good, bad, unknown
  and final ones; a file of three pieces; one replacement.

Assumed of the data in *decoder*: `HeadersMarkFrames`, which `MCFrameDecoder` evaluates on its
streams. No header is found inside an undamaged frame or across its end, and no frame that checks
begins in a damaged one. A payload may hold the first byte of a header, as some of the frames of the run do, but
not the header: otherwise the rest of a good frame that was cut may swallow the frame behind it;
the filter's resends do not see that case, only the timeout does. The version
byte is not covered by the CRC, so a frame damaged there counts as good.
`SeparateFramesReported` needs none of this.

### Fairness

- `WF(Host)`: the loop is the one thread of the program; it polls with `usleep(1000)`
  and never blocks, because the port is non-blocking.
- `WF(Module)`, `WF(ModuleTakes)`, `WF(Arrive)`: a module that has a request takes it, and
  bytes on the line come in. Where this is not so the run has a fault for it (loss).
- `WF(Decode)`: the decoder's loop runs. Nothing says that bytes arrive.
- `PatientSpec` of `UpgradeRetry`: whoever runs the program runs it again after a failure.
  This is fairness of the user, and says what *retry* is about.
- `FairSpec` of `Upgrade`: the program takes its next step, and `FitBaudrate` returns, which is
  `FitReturns` (that the session does is `Termination`). Nothing makes module or disk move.
- Nothing makes the line misbehave, and nothing keeps it from it.
- `Timely`, where TRUE, says that an answer is never slower than the iterations of
  one timeout, 25 seconds or half a second; *stale*, *retry* and the property
  `FitsTimelyModule` need it because a late answer is a lost one.

`CHECK_DEADLOCK FALSE` wherever the call returns or a line may stay silent for ever;
only a context of MD5 can always be started again (Md5.cfg).

### What the counterexamples are

- *reboot*: the reboot case reads once, right after the request was sent, and falls
  through (UpgradeM7xx.c:599-627). The module refuses, the reply comes in after
  that, and the program reports success for `-r`.
- *wait_retval*: a frame that is no reply arrives in one read with the pending answer.
  The filter looks at the first good frame only, and its rest goes with
  `pRemainLen`. The comment at UpgradeM7xx.c:102 says that no matching response is
  available then. Nothing is sent again, so the call times out.
- *baud_option*: CONFIGCOM is refused or lost and `UartOptionSet` fails at the new
  rate. Port and module still agree, at the old rate, and `FitBaudrate` returns 0.
  `FittedMeansAgreed` is the property that does hold: success means success when
  the rate could be set.

## The proofs

TLC checks one instance of each model; the theorems are about all of them. What they
assume are the named assumptions on the constants, which TLC evaluates on every run.
Each invariant below was checked by TLC before it was proved, clause by clause.

| Module | Theorem | Property | Inductive invariant |
|---|---|---|---|
| UpgradeProcProofs | `TypeCorrect` | `TypeOK` | `TypeInv` |
| | `ResendsDoNotBreed` | `NoBreeding` | `Breeding` |
| | `AnswersAreFresh` | `FreshReply` | `FreshInv` |
| UpgradeProcDelivery | `BytesAreWhereTheyBelong`, `SuccessIsComplete`, `FramesFit` | `PiecesInPlace`, `SuccessMeansComplete`, `FramesFitDevice` | `DeliveryInv` |
| | `FailuresAreNamed` | `FailureNamed` | `Named`, `Caused` |
| | `ImplementsSession` | `DeliversInOrderOnce` | `FirstRun` |
| | `RunsStayFresh`, `RunsInstallWhole` | `FreshReply`, `InstalledWhole` of `UpgradeRetry` | those of one run |
| BaudFitProofs | `FittingTypeCorrect`, `SearchFindsModule`, `FittedSidesAgree`, `PortIsClosed`, `OldTrafficLeaves`, `ImplementsAgreement` | `TypeOK`, `FoundAtItsRate`, `FittedMeansAgreed`, `PortClosed`, `OldTrafficGone`, `ReachesAgreement` | `FitInv` |
| FrameDecoderProofs | `DecoderTypeCorrect`, `CacheAlwaysFits`, `CacheIsContiguous` | `TypeOK`, `CacheFits`, `Contiguous` | `CacheInv` |
| | `ReportsAreFrames`, `LoopRunsOut` | of the proofs alone | `ReportsInv` |
| | `SeparateFramesAreReported` | `SeparateFramesReported` | `SyncInv` |
| | `NoFrameIsStalled`, `DecoderReadsFrames`, where `HeadersMarkFrames` | `NoStall`, `ReadsFrames` | `GoneInv` |
| FrameBytesProofs | `FramesTypeCorrect`, `FramesReadBack`, `PiecesAreAsked`, `FlipsAreSeen` | `TypeOK`, `ReadsBack`, `SendsWhatWasAsked`, `DamageSeen` | `FrameInv` |
| | `DamageIsSeen` | of the proofs alone | `FrameInv` |
| Md5Proofs | `HashedWhole` | on the operators | `Holds` |
| Md5StreamProofs | `NothingIsLost`, `CutsDoNotShow` | `HoldsMessage`, `DigestRight` | `StreamInv` |
| UpgradeProofs | `HeldIsGivenBack`, `ExitCodeTells`, `VerdictIsRight`, `SuccessIsInstalled`, `UntouchedUntilChecked` | `HeldGivenBack`, `ExitTells`, `VerdictRight`, `SuccessMeansInstalled`, `TouchedOnlyAfterCheck` | `HeldAsNeeded`, `ExitInOrder`, `UpgradeInv` |

### The upgrade loop

That `timeCntr` never passes `Overtime + 1` is part of `TypeInv`: FAIL is entered with at
most that count and left by the iteration after it. It also bounds the length the host
announces, without which the type of a later request does not follow.

*A failure is named after its cause.* Which names there are is `Named`: the result is written
wherever the status becomes FAIL. That ENCODE_FAILED cannot occur is arithmetic: a piece that fits
the agreed length fits a frame, because the agreed length never exceeds the largest frame. That the
name is right is `Caused`. The loop fails in the iteration that judges an answer and returns
in the next, so what it has judged must still be there to speak of: the answer is to the pending
request (`FreshInv`), all answers to it say the same (`DeliveryInv`), and once it has been answered
the module has nothing new to answer (`NothingNew`), so that its last answer remains that one.
TIMEOUT is said of less: an answer rejected in the last iteration before the time is up comes
back as TIMEOUT too, because the check at UpgradeM7xx.c:341-346 runs once more before FAIL
returns. An answer in the iteration of the timeout advances the status and so takes back
the FAIL, while TIMEOUT stays in the result: a later failure writes its own name over it. Only an ask
for a piece leaves the status as it is (UpgradeM7xx.c:559-581), so FAIL stands, and the piece
just sent is followed by the return of TIMEOUT.

*Old answers.* `FreshReply` is not inductive: that a frame with the pending number is the
pending answer needs to know how old a frame can be. `FreshInv` says that

1. the number of every frame is that of its request, counted back from the
   pending one (`Numbered`),
2. the line keeps the order: what is nearer to the host belongs to the same or an
   earlier request, and what has not been taken by the module to the same or a
   later one than the last reply (`Ordered`),
3. nothing is more than `Lag` requests old (`Within`), where `Lag` is 1 while the
   loop waits for answers, 2 after the reboot request, whose answer is not
   waited for, and 0 after the flush's sleep has begun.

A new request is sent only when the pending answer has been taken; by 2
everything behind it is as young as it is (lemma `MatchTraffic`), so sending makes the
lag 1 again. Two requests apart, a number with at least three values still tells
them apart (`NextNumber`). There is one lemma per event on the line (`ReadTraffic`,
`MatchTraffic`, `NextRequestTraffic`, `ResendTraffic` and those for the module), and
the step proof cites the one that fits the action.

The assumption that does the work is that the line neither reorders nor delays
beyond the frames in front: a repeated frame is the last one sent, again. For a serial
cable that is the physics; for a radio link it is what the comment on residual
replies describes.

*Resends do not breed.* A resend follows a read that took a frame off the line, and the
module puts one on it for each it takes. `Breeding` counts: what is in flight is
within the faults so far and an `Allowance` of 0 before the first request, 2 where a
reboot request may still be followed by another with nothing taken, and 1 elsewhere.

*The image is the file.* Data frames carry no address, so everything rests on the module
taking each request once and in turn. `DeliveryInv` has two halves:

- `WireInv`: there is one content per request among the copies on the line and in the cache
  (`OneEach`), the module's last answer is to one of the last requests (`LastAnswer`), all
  answers to the pending request say the same (`Echoes`), and only a reboot request can be
  behind the pending one and unseen (`PassedOver`). This leans on `FreshInv`: the
  module recognises a copy by command and number alone.
- `ImageInv`: a data request the module has not seen carries what its last answer asked
  for, at the end of the image (`InTurn`, `Due`, `AnswerMeans`); the lengths that bound it
  were agreed before (`Lengths`); after the last piece no such request is left
  (`Complete`); and the pieces lie one behind the other (`Whole`).

*The refinement.* `ImplementsSession` maps the initial states and every step: a step of the
module that stores a piece is `Deliver`, one that ends the loop `Succeed` or `Fail`, and all
others are stutters. `FirstRun` says that granting an upgrade finds an empty image, so that
clearing it is a stutter too.

### Killed, and run again

No clause of `FreshInv` says how many requests a run has sent, and none of `DeliveryInv` that, at its start,
the image is empty, so all of them hold in a first state with an empty line, whatever
went before: `FreshStart` re-establishes them although it counts frame numbers from 0
again and the module keeps its image. `RunsInstallWhole` follows: what an earlier run
has left in the module is gone when the new one is granted its upgrade. The empty line
is the assumption, and `OldTrafficLeaves` its proof.

### The baud rate

An answer to OFFMSG proves that the module heard it at the rate it was sent at, but only if
the answer belongs to this match. `FitInv` says that it does: an answer in the buffers has
come in since the flush at the start of `MatchModule`, at the rate the port has had since,
and the module has not moved in between or has moved to the rate asked for
(`HeardAtItsRate`, `MovedAsAsked`). What a killed session left is in front of the first
answer (`LeftInFront`), so none of it is there once an answer has been taken
(`CleanAfterMatch`). `ImplementsAgreement` needs no more: every turn is `SetPort`,
`ModuleFollows`, `Agree`, `Disagree` or a stutter.

### The decoder

`CacheInv` ties the cache to the position where its header was found: RecvData is the stream
from there to the byte that is next. `ReportsAreFrames` goes beyond the runs, whose streams
hold one damage each: for any stream, garbage included, a reported frame is consecutive bytes
with header, length and CRC, and no byte is in two of them. It does not say that the frame was
sent: where noise looks like a frame down to its CRC, the decoder cannot know.
`LoopRunsOut` is the safety half of `DecodeReturns`: each turn uses up one of at most 2n + 1
for a read of n bytes; that a turn is taken is the fairness TLC checks it under.

What is reported is one thing, what is *not* lost another, and for that the proofs need to know where
frames lie. Two invariants say where the decoder will look next (`From`: the first byte of what it
has cached, or the next one to come):

- `SyncInv`: as long as all was well, `From` is the first byte of the next frame, and no
  read has gone beyond its end. Nothing is assumed of the payloads: a decoder in step does not
  look for headers.
- `GoneInv`: every frame counted in `gone` is over before `From`, and `From` has not passed the
  first byte of the frame that is next, if that one is undamaged. For this a decoder that has lost
  its place must find it again, and it can only go by headers; `HeadersMarkFrames` is a hypothesis of the theorems that use it,
  written in front of them. With it a header that is found is that of the next frame or
  lies in a damaged one (`HeaderPlace`), and a candidate that is given up began in a damaged
  one (`LostCandidate`).

`DecoderReadsFrames` maps every return of the decoder to `Report` or `Skip` of `FrameReader` and all
else to stutters: frames are reported in order and once, and one is lost only with one
before it. This is what `UpgradeProc` takes for granted of a read.

### The bytes of the frames

`FrameInv` says of the pending request that `Frame` has the head and the data that were meant
(`Carrying`) and a CRC that holds (`Waits`), that a length was announced and the agreed one is
within it (`Told`), and that a piece of the file is what was asked for last (`PieceAsked`). A request
is laid out over the one before (`EncodedCarries`), so the proof follows each byte through three `Put`s.
Numbers are written and read back in both byte orders (`Written`, `NumberBack`, `Halves`), with the
sign of the fourth byte (`NotNegative`).

*Damage.* The CRC is a recursive function of the bytes; that it exists and has the values it should
is proved with the least length at which it would not (`Least`, `CRCRuns`), instead of an
induction. `CRCTellsByte` goes the other way around the loop: the highest byte after a
turn is that of the entry taken, all entries differ there (`TableAssumption`), so the entry, and with it the
byte and the CRC before, can be told from the CRC after (`EntryTold`, `StateTold`, `ByteTold`). Two frames of
one length that differ in one byte under the CRC therefore end in different CRCs, however
long they are. `DamageIsSeen` says so of every other value of the byte; the run tries two, which
is what TLC gets through.

### MD5 and the package

`Holds(c, m)`: the context c has hashed whole blocks of the message m, has the rest in front of
its buffer and the length of m, modulo two words, in `Total`. `MD5Start` holds nothing
(`StartHolds`), `MD5Update` adds its data (`UpdateHolds`), and `MD5Finish` pads what is held
as RFC 1321 says, in one block or two (`FinishPads`). The arithmetic is the work: which block
the data complete, the carry between the words, the length in bits shifted across them, and
its digits (`LengthDigits`). Base, word and block are any that satisfy `Md5Assumption`; the
provers know no powers, so `PowersAssumption` states the four facts about `Base ^ k` that are
used. They hold of all numbers, and TLC evaluates them. `Bytes`, `Joined` and `Composed` name
a set, a concatenation and a division because the provers find instances of a lemma by such names.

`VerdictIsRight` takes the two loops of `CheckPackageM7xx` over any number of partitions
(`ChecksInOrder`: the partitions before the two indices have been compared, and a failure has a
culprit), and `HashedWhole` for each comparison. `PartitionsAssumption` is that a partition is
shorter than a word can count; the lengths are `uint32_t`.

### The program

What is held is a function of the call that is next (`HeldAsNeeded`), up to the exit, where a
descriptor may be left that no caller has had: `UartOpen` forgets it when `fcntl` fails, and both
ways on which that happens end at once with UART_FAILED. What has been done is
told by the verdicts collected (`CallsInOrder`): no firmware without a session, no session
without a fitted rate, no fitting without a package that passed. `ExitInOrder` relates them
to the exit code. It does not make the exit code say more than it does: FILE_FAILED is a module that is
untouched or one in the middle of its firmware, and only the result (`FILE_OPEN_FAILED`,
`FILE_READ_FAILED`), which a script does not see, tells which; UART_FAILED leaves open whether the module was spoken
to. `SendsWhatWasChecked` and `SendsAtItsRate` relate what is sent to the file and the line. Between the
check and the second `fopen` the file may be replaced, and then nobody has looked at what is sent: `TouchedOnlyAfterCheck` and
`SuccessMeansInstalled` promise the checked package only where nothing replaced it.
`RateAgreement` and `UpgradeSession`, whose steps `Upgrade` takes for its two long calls, are what
`ImplementsAgreement` and `ImplementsSession` prove of the loops themselves.

### Only model-checked

- Liveness: `Termination`, `CompletesDespiteStaleReplies`, `RetriesSucceed`, `DecodeReturns`,
  `FitReturns`, `FitsTimelyModule`, `Exits`. The proof system does not reason about ENABLED, on which
  fairness rests.
- That CRC32 has its published check value, and that the table has 256 highest bytes: computed by
  TLC on every run that uses the module.
- `HeadersMarkFrames` of the streams of `MCFrameDecoder`: they are built by a recursive operator,
  so a proof cannot look into them. TLC evaluates it.
- The three properties that the code does not have (*reboot*, *wait_retval*, *baud_option*).

All invariants, action properties and refinements of the passing runs are theorems.

## What is not modelled

- The status GET_UPDATE_STATUS and the default case of the switch: no assignment of
  `s_UpgradeStatus` leads there. Nothing calls `SendFullPackageFirmwareReplyHandle`, `UartBlockMode`, `CRC16ModbusGenerate` or `MD5`, and nothing
  encodes a frame with FRAME_ACTION_REPLY or FRAME_ACTION_SEND_NO_REPLY.
- Progress and debug output, the texts of GET_DEVICE_INFO, the time stamps: no control
  depends on them. The handler of GET_DEVICE_INFO copies the received structure
  onto itself (UpgradeEntry.c:378); its caller does not read it.
- The patch `-f` makes to `FILE_INFO_T`: the byte reaches the module as data.
- The MD5 compression function: a fact about data.
- Settings of `UartOptionSet` other than the rate: they are constants of the call.
- Packages whose partition table points outside the file: `PackageCheck` takes well-formed
  packages. `FIRMWARE_INFO_T.Size` is not read by the code, so it is not in the model.

## The plan

Done, in this order: `UpgradeHandle`, `UpgradeProc`, `UpgradeSession`, their runs and
the first two theorems; `FrameReading`, `FrameReader`, `FrameDecoder`; `BaudFit` with
`RateAgreement`; `Md5`, `Md5Stream`, `PackageCheck`; `Upgrade`; `UpgradeRetry` with its theorem;
`CRCGenerate`, `FrameBytes`.

The theorems, in this order: the types and the numbers of `UpgradeProc`; failures, resends,
delivery and the refinement of `UpgradeSession`; the runs of `UpgradeRetry`; `BaudFit` and the
refinement of `RateAgreement`; MD5; the program with its package; the decoder, first its cache, then
what it reports and the refinement of `FrameReader`; the bytes of the frames.

Left:

1. `HeadersMarkFrames` from the layout of a frame instead of as a hypothesis: which payloads hold no
   header, and which damages make no frame, for the CRC of `CRCGenerate` in place of the
   parameter of `FrameDecoder`.
2. `DamageIsSeen` for two damaged bytes, which is a fact about the polynomial.
3. Packages whose partition table points outside the file.
