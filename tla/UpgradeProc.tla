---------------------------- MODULE UpgradeProc ----------------------------
(***************************************************************************)
(* SubPackageUpgradeProc (UpgradeM7xx.c): the request/reply loop that      *)
(* carries a firmware file to a GNSS module over a serial line, with       *)
(* UpgradeFrameCacheAndFilter, which decides what each received frame      *)
(* means, the line in both directions, and the module at the far end.      *)
(*                                                                         *)
(* One host action is one iteration of the loop: the timeout check, the    *)
(* switch on the status read BEFORE that check, and the increment of       *)
(* TimeCntr.  The reboot case sleeps two seconds in the middle of its      *)
(* iteration, so it is two actions.                                        *)
(*                                                                         *)
(* The module and the line are external: the module does what the host's   *)
(* requests and reply handlers take it to do, and recognises a request it  *)
(* gets twice by its command and frame number, without which the host's    *)
(* resends could not work.                                                 *)
(***************************************************************************)
EXTENDS UpgradeHandle, FrameReading

CONSTANTS
  Overtime,         \* UPDATE_OVERTIME, in iterations of the loop (25000)
  FileSize,         \* bytes in the firmware file
  TransferSizes,    \* values of the -t argument that are tried
  ModuleMaxLens,    \* frame lengths a module may declare
  FaultLimit,       \* how many times each kind of fault may happen
  Timely            \* TRUE: an answer on its way arrives before TimeCntr moves on

FileInfoLen == 12   \* sizeof(FILE_INFO_T)

FaultKinds == {"lost", "corrupt", "duplicate", "foreign", "residual",
               "refusal", "wild", "ioError"}

ASSUME OvertimeAssumption == Overtime \in Nat /\ Overtime >= 2
ASSUME FileSizeAssumption == FileSize \in Nat /\ FileSize > FileInfoLen
ASSUME TransferSizesAssumption == TransferSizes \subseteq TransferSizeTable
ASSUME ModuleMaxLensAssumption == ModuleMaxLens \subseteq Nat
ASSUME FaultLimitAssumption == FaultLimit \in [FaultKinds -> Nat]
ASSUME TimelyAssumption == Timely \in BOOLEAN

VARIABLES
  args,       \* the CMD_ARGS_T fields the loop reads
  status,     \* s_UpgradeStatus
  result,     \* UpgradeResult
  timeCntr,   \* TimeCntr
  limit,      \* TransportMaxLen
  handle,     \* FRAME_HANDLE_T
  gen,        \* ghost: the number of requests encoded so far
  phase,      \* "run", "sleep" (inside sleep(2) of the reboot case) or "done"
  returned,   \* the value SubPackageUpgradeProc returned, "NONE" before
  toModule,   \* requests written to the line and not yet taken by the module
  toHost,     \* frames on their way to the host, or in its receive buffer
  line,       \* the last reply put on the line towards the host
  mod,        \* the module
  faults      \* how many faults of each kind have happened

control == <<args, status, result, timeCntr, limit, phase, returned>>
requests == <<handle, gen>>
environment == <<line, mod, faults>>
vars == <<args, status, result, timeCntr, limit, handle, gen, phase, returned,
          toModule, toHost, line, mod, faults>>

AwaitStatuses == {"OPEN_RADIO", "GET_DEVICE_MAX_FRAME_LEN", "SEND_MAX_FRAME_LEN",
                  "GET_DEVICE_INFO", "REQUEST_UPGRADE", "SET_FAST_UPDATE_MODE",
                  "GET_DEVICE_STATUS", "SEND_FIRMWARE", "CLOSE_RADIO"}
Statuses == AwaitStatuses \cup {"IDLE", "REQUEST_REBOOT", "FAIL", "SUCCESS"}
Results == {"OK", "TIMEOUT", "PROTOCOL_FAILED", "FILE_READ_FAILED",
            "ENCODE_FAILED", "STATE_FAILED", "INTERNAL_FAILED"}

NoReply == [crc |-> FALSE, reply |-> FALSE, cmd |-> "NONE", num |-> 0, gen |-> 0,
            ok |-> FALSE, at |-> 0, size |-> 0]

Init ==
  /\ args \in [AutoReset : BOOLEAN, FastUpdate : BOOLEAN,
               RemoteDeviceUpdate : BOOLEAN, TransferSize : TransferSizes]
  /\ status = "IDLE"
  /\ result = "INTERNAL_FAILED"
  /\ timeCntr = 0
  /\ limit = 0
  /\ handle = FrameInit
  /\ gen = 0
  /\ phase = "run"
  /\ returned = "NONE"
  /\ toModule = << >>
  /\ toHost = << >>
  /\ line = NoReply
  /\ mod \in [maxLen : ModuleMaxLens, sendMax : {FieldLen}, last : {NoReply},
              want : {[at |-> 0, size |-> 0]}, image : {<< >>}, rebooted : {FALSE}]
  /\ faults = [k \in FaultKinds |-> 0]
-----------------------------------------------------------------------------
(***************************************************************************)
(* The start of an iteration.  The switch runs on the status read before   *)
(* the timeout check, so the case it selects may overwrite FAIL.           *)
(***************************************************************************)
(* Mutant of TimedOut: off by one. *)
TimedOutLate == timeCntr > Overtime

TimedOut == timeCntr >= Overtime

CheckedStatus == IF TimedOut THEN "FAIL" ELSE status

CheckedResult == IF TimedOut THEN "TIMEOUT" ELSE result

Running(st) == phase = "run" /\ status = st

(***************************************************************************)
(* UpgradeFrameCacheAndFilter.  One read takes the first n frames that     *)
(* have arrived, and what it makes of them is in FrameReading.             *)
(***************************************************************************)
ReadMatch(i) ==                       \* PROTOCOL_FILTER_OK
  /\ FirstGood(toHost, i)
  /\ Matches(handle, toHost[i])
  /\ \E n \in i..Len(toHost) : toHost' = Unread(toHost, n)

(* Mutant of ReadOther: silence triggers a resend too. *)
ReadOtherOrSilence(n, resent) == toHost' = Unread(toHost, n) /\ resent

ReadOther(n, resent) ==               \* PROTOCOL_WAIT_CONFIRM or PROTOCOL_FILTER_ERR
  /\ toHost' = Unread(toHost, n)
  /\ \/ NothingGood(toHost, n) /\ ~resent
     \/ \E i \in 1..n :
          /\ FirstGood(toHost, i)
          /\ ~Matches(handle, toHost[i])
          /\ resent = TriggersResend(handle, toHost[i])

(* Mutant of Written: the request is encoded anew, with the next number. *)
WrittenEncodedAnew(resent) ==
  IF resent THEN Append(toModule, FrameEncode(handle, handle.str.cmd, handle.str.at,
                                              handle.str.size, handle.str.gen).str)
            ELSE toModule

(* What the host has written when the filter is done: the cached bytes of the
   pending request once more, if it chose to resend. *)
Written(resent) == IF resent THEN Append(toModule, handle.str) ELSE toModule

(* UpgradeFrameDataEncode, then SendUpgradeFrame. *)
Send(cmd, at, size, resent) ==
  /\ gen' = gen + 1
  /\ handle' = FrameEncode(handle, cmd, at, size, gen + 1)
  /\ toModule' = Append(Written(resent), handle'.str)

(* Mutant of GoTo: the iteration skips the increment of TimeCntr. *)
GoToWithoutCount(st, time) ==
  /\ status' = st
  /\ result' = CheckedResult
  /\ timeCntr' = time
  /\ UNCHANGED <<args, phase, returned>>

GoTo(st, time) ==
  /\ status' = st
  /\ result' = CheckedResult
  /\ timeCntr' = time + 1
  /\ UNCHANGED <<args, phase, returned>>

Advance(st, cmd, at, size) ==         \* the common end of an accepted reply
  /\ Send(cmd, at, size, FALSE)
  /\ GoTo(st, 0)

(* Mutant of FailWith: the first failure is kept. *)
FailWithFirst(code) ==
  /\ status' = "FAIL"
  /\ result' = IF result = "INTERNAL_FAILED" THEN code ELSE result
  /\ timeCntr' = timeCntr + 1
  /\ UNCHANGED <<args, limit, phase, returned, handle, gen, toModule>>

FailWith(code) ==
  /\ status' = "FAIL"
  /\ result' = code
  /\ timeCntr' = timeCntr + 1
  /\ UNCHANGED <<args, limit, phase, returned, handle, gen, toModule>>
-----------------------------------------------------------------------------
(* The cases of the switch. *)

Idle ==
  /\ Running("IDLE")
  /\ IF args.RemoteDeviceUpdate
       THEN /\ Send("SET_RADIO_UPDATE_TRANSFER_MODE", 0, 0, FALSE)
            /\ GoTo("OPEN_RADIO", timeCntr)
       ELSE /\ Send("GET_DEVICE_MAX_FRAME_LEN", 0, 0, FALSE)
            /\ GoTo("GET_DEVICE_MAX_FRAME_LEN", timeCntr)
  /\ UNCHANGED <<limit, toHost, environment>>

(* What the case of a status makes of a reply that matches its request. *)
Accepts(st, f) ==
  /\ st = "GET_DEVICE_MAX_FRAME_LEN" =>
       GetFrameMaxLenReply(f) /\ f.size - FieldLen \in TransferSizeTable
  /\ st = "SEND_FIRMWARE" => SendSubPackageFirmwareReply(f, limit)
  /\ st \notin {"GET_DEVICE_MAX_FRAME_LEN", "SEND_FIRMWARE"} => StatusReply(f)

ReplyRejected ==
  /\ phase = "run"
  /\ status \in AwaitStatuses \cup {"REQUEST_REBOOT"}
  /\ \E i \in DOMAIN toHost :
       /\ ReadMatch(i)
       /\ ~Accepts(status, toHost[i])
  /\ FailWith("PROTOCOL_FAILED")
  /\ UNCHANGED environment

ReplyAccepted(st, i) ==
  /\ Running(st)
  /\ ReadMatch(i)
  /\ Accepts(st, toHost[i])

RadioOpened ==
  /\ \E i \in DOMAIN toHost : ReplyAccepted("OPEN_RADIO", i)
  /\ Advance("GET_DEVICE_MAX_FRAME_LEN", "GET_DEVICE_MAX_FRAME_LEN", 0, 0)
  /\ UNCHANGED <<limit, environment>>

TransportLen(maxLen) ==
  IF args.TransferSize <= maxLen - FieldLen THEN args.TransferSize + FieldLen
                                            ELSE maxLen

MaxFrameLenReceived ==
  /\ \E i \in DOMAIN toHost :
       /\ ReplyAccepted("GET_DEVICE_MAX_FRAME_LEN", i)
       /\ limit' = TransportLen(toHost[i].size)
  /\ Advance("SEND_MAX_FRAME_LEN", "SET_SEND_MAX_FRAME_LEN", 0, limit')
  /\ UNCHANGED environment

SendMaxFrameLenConfirmed ==
  /\ \E i \in DOMAIN toHost : ReplyAccepted("SEND_MAX_FRAME_LEN", i)
  /\ Advance("GET_DEVICE_INFO", "GET_DEVICE_INFO", 0, 0)
  /\ UNCHANGED <<limit, environment>>

(* Mutant of DeviceInfoReceived: the upgrade is not requested anew. *)
DeviceInfoReceivedResumes ==
  /\ \E i \in DOMAIN toHost : ReplyAccepted("GET_DEVICE_INFO", i)
  /\ Advance("GET_DEVICE_STATUS", "GET_DEVICE_STATUS", 0, 0)
  /\ UNCHANGED <<limit, environment>>

DeviceInfoReceived ==
  /\ \E i \in DOMAIN toHost : ReplyAccepted("GET_DEVICE_INFO", i)
  /\ Advance("REQUEST_UPGRADE", "REQUEST_UPGRADE", 0, FileInfoLen)
  /\ UNCHANGED <<limit, environment>>

UpgradeAllowed ==
  /\ \E i \in DOMAIN toHost : ReplyAccepted("REQUEST_UPGRADE", i)
  /\ IF args.FastUpdate
       THEN Advance("SET_FAST_UPDATE_MODE", "SET_FAST_UPDATE_MODE", 0, 0)
       ELSE Advance("GET_DEVICE_STATUS", "GET_DEVICE_STATUS", 0, 0)
  /\ UNCHANGED <<limit, environment>>

FastUpdateModeSet ==
  /\ \E i \in DOMAIN toHost : ReplyAccepted("SET_FAST_UPDATE_MODE", i)
  /\ Advance("GET_DEVICE_STATUS", "GET_DEVICE_STATUS", 0, 0)
  /\ UNCHANGED <<limit, environment>>

DeviceUpdating ==
  /\ \E i \in DOMAIN toHost : ReplyAccepted("GET_DEVICE_STATUS", i)
  /\ Advance("SEND_FIRMWARE", "SEND_FIRMWARE", 0, 0)
  /\ UNCHANGED <<limit, environment>>

(* Mutant of AsksForData: a request for a short piece ends the transfer. *)
AsksForFullPiece(f) == f.at # 0 /\ f.size = limit - FieldLen

AsksForData(f) == f.at # 0 /\ f.size # 0

InFile(at, size) == at + size <= FileSize

(* The next piece of the file; the status is not written, so a timeout in
   this iteration stands although the piece is sent. *)
SendPiece ==
  /\ \E i \in DOMAIN toHost :
       LET f == toHost[i] IN
       /\ ReplyAccepted("SEND_FIRMWARE", i)
       /\ AsksForData(f)
       /\ InFile(f.at, f.size)
       /\ IF TooLong(f.size) THEN FailWith("ENCODE_FAILED")
          ELSE Advance(CheckedStatus, "SEND_FIRMWARE", f.at, f.size) /\ UNCHANGED limit
  /\ UNCHANGED environment

(* fread came back short: past the end of the file, or an I/O error. *)
FileReadFailed ==
  /\ \E i \in DOMAIN toHost :
       LET f == toHost[i] IN
       \/ /\ ReplyAccepted("SEND_FIRMWARE", i)
          /\ AsksForData(f)
          /\ ~InFile(f.at, f.size)
          /\ UNCHANGED faults
       \/ /\ \/ ReplyAccepted("GET_DEVICE_INFO", i)
             \/ ReplyAccepted("SEND_FIRMWARE", i) /\ AsksForData(f)
          /\ faults["ioError"] < FaultLimit["ioError"]
          /\ faults' = [faults EXCEPT !["ioError"] = @ + 1]
  /\ FailWith("FILE_READ_FAILED")
  /\ UNCHANGED <<line, mod>>

FirmwareSent ==
  /\ \E i \in DOMAIN toHost :
       /\ ReplyAccepted("SEND_FIRMWARE", i)
       /\ ~AsksForData(toHost[i])
  /\ IF args.AutoReset
       THEN Advance("REQUEST_REBOOT", "REQUEST_REBOOT", 0, 0)
       ELSE GoTo("SUCCESS", 0) /\ UNCHANGED <<handle, gen, toModule>>
  /\ UNCHANGED <<limit, environment>>

(* The end of the reboot case, reached whether or not the reply was there. *)
LeaveReboot(resent) ==
  IF args.RemoteDeviceUpdate
    THEN /\ Send("SET_RADIO_UPDATE_TRANSFER_MODE", 0, 0, resent)
         /\ status' = "CLOSE_RADIO"
    ELSE /\ toModule' = Written(resent)
         /\ status' = "SUCCESS"
         /\ UNCHANGED <<handle, gen>>

RebootConfirmed ==                    \* up to sleep(2)
  /\ \E i \in DOMAIN toHost : ReplyAccepted("REQUEST_REBOOT", i)
  /\ phase' = "sleep"
  /\ status' = CheckedStatus
  /\ result' = CheckedResult
  /\ UNCHANGED <<args, timeCntr, limit, returned, requests, toModule, environment>>

(* tcflush(TCIOFLUSH) drops what has been received, then the iteration goes on.
   After two seconds nothing waits to be transmitted any more. *)
RebootFlushed ==
  /\ phase = "sleep"
  /\ phase' = "run"
  /\ \E n \in 0..Len(toHost) : toHost' = Unread(toHost, n)
  /\ LeaveReboot(FALSE)
  /\ timeCntr' = timeCntr + 1
  /\ UNCHANGED <<args, result, limit, returned, environment>>

RebootUnanswered ==
  /\ Running("REQUEST_REBOOT")
  /\ \E n \in 0..Len(toHost), resent \in BOOLEAN :
       /\ ReadOther(n, resent)
       /\ LeaveReboot(resent)
  /\ result' = CheckedResult
  /\ timeCntr' = timeCntr + 1
  /\ UNCHANGED <<args, limit, phase, returned, environment>>

RadioClosed ==
  /\ \E i \in DOMAIN toHost : ReplyAccepted("CLOSE_RADIO", i)
  /\ GoTo("SUCCESS", timeCntr)
  /\ UNCHANGED <<limit, requests, toModule, environment>>

KeepWaiting ==
  /\ phase = "run"
  /\ status \in AwaitStatuses
  /\ \E n \in 0..Len(toHost), resent \in BOOLEAN :
       /\ ReadOther(n, resent)
       /\ toModule' = Written(resent)
       /\ Timely /\ n = 0 => toHost = << >> /\ toModule = << >>
  /\ GoTo(CheckedStatus, timeCntr)
  /\ UNCHANGED <<limit, requests, environment>>

Return(value) ==
  /\ phase' = "done"
  /\ returned' = value
  /\ status' = "IDLE"
  /\ result' = CheckedResult
  /\ UNCHANGED <<args, timeCntr, limit, requests, toModule, toHost, environment>>

ReturnFail ==
  /\ Running("FAIL")
  /\ Return(IF CheckedResult = "OK" THEN "STATE_FAILED" ELSE CheckedResult)

ReturnSuccess == Running("SUCCESS") /\ Return("OK")

Host ==
  \/ Idle \/ ReplyRejected \/ RadioOpened \/ MaxFrameLenReceived
  \/ SendMaxFrameLenConfirmed \/ DeviceInfoReceived \/ UpgradeAllowed
  \/ FastUpdateModeSet \/ DeviceUpdating \/ SendPiece \/ FileReadFailed
  \/ FirmwareSent \/ RebootConfirmed \/ RebootFlushed \/ RebootUnanswered
  \/ RadioClosed \/ KeepWaiting \/ ReturnFail \/ ReturnSuccess
-----------------------------------------------------------------------------
(* The module: external. *)

Fault(k) ==
  /\ faults[k] < FaultLimit[k]
  /\ faults' = [faults EXCEPT ![k] = @ + 1]

ReplyTo(r, ok, ask) ==
  [crc |-> TRUE, reply |-> TRUE, cmd |-> r.cmd, num |-> r.num, gen |-> r.gen,
   ok |-> ok, at |-> ask.at, size |-> ask.size]

PutOnLine(f) ==
  /\ line' = f
  /\ toHost' = Append(toHost, f)

SeenBefore(r) == r.cmd = mod.last.cmd /\ r.num = mod.last.num

(* A data frame carries no address: the module puts its bytes where it
   asked for them.  A granted upgrade starts over. *)
Stores(r) == r.cmd = "SEND_FIRMWARE" /\ mod.want.size > 0

ImageAfter(r) ==
  IF r.cmd = "REQUEST_UPGRADE" THEN << >>
  ELSE IF Stores(r) THEN Append(mod.image, [place |-> mod.want.at, at |-> r.at, size |-> r.size])
  ELSE mod.image

NextPlace(r) == IF Stores(r) THEN mod.want.at + r.size ELSE FileInfoLen

PieceSize(at) == IF mod.sendMax - FieldLen <= FileSize - at THEN mod.sendMax - FieldLen
                                                            ELSE FileSize - at

NextAsk(r) ==
  CASE r.cmd = "GET_DEVICE_MAX_FRAME_LEN" -> [at |-> 0, size |-> mod.maxLen]
    [] r.cmd = "SEND_FIRMWARE" /\ NextPlace(r) < FileSize ->
         [at |-> NextPlace(r), size |-> PieceSize(NextPlace(r))]
    [] OTHER -> [at |-> 0, size |-> 0]

(* Asks no file or no frame can satisfy: past the end, or one byte too long. *)
WildAsks == {[at |-> FileSize, size |-> 1],
             [at |-> FileInfoLen, size |-> mod.sendMax - FieldLen + 1]}

Answer(r, ok, ask) ==
  /\ toModule' = Tail(toModule)
  /\ PutOnLine(ReplyTo(r, ok, ask))
  /\ mod' = [mod EXCEPT
               !.last = ReplyTo(r, ok, ask),
               !.want = IF r.cmd \in {"REQUEST_UPGRADE", "SEND_FIRMWARE"} THEN ask ELSE @,
               !.image = IF ok THEN ImageAfter(r) ELSE @,
               !.sendMax = IF ok /\ r.cmd = "SET_SEND_MAX_FRAME_LEN" THEN r.size ELSE @,
               !.rebooted = @ \/ (ok /\ r.cmd = "REQUEST_REBOOT")]

ModuleAnswers ==
  /\ toModule # << >>
  /\ ~SeenBefore(Head(toModule))
  /\ \/ Answer(Head(toModule), TRUE, NextAsk(Head(toModule))) /\ UNCHANGED faults
     \/ Answer(Head(toModule), FALSE, [at |-> 0, size |-> 0]) /\ Fault("refusal")
     \/ /\ Head(toModule).cmd = "SEND_FIRMWARE"
        /\ \E ask \in WildAsks : Answer(Head(toModule), TRUE, ask)
        /\ Fault("wild")
  /\ UNCHANGED <<control, requests>>

ModuleAnswersAgain ==
  /\ toModule # << >>
  /\ SeenBefore(Head(toModule))
  /\ toModule' = Tail(toModule)
  /\ PutOnLine(ReplyTo(Head(toModule), mod.last.ok,
                       [at |-> mod.last.at, size |-> mod.last.size]))
  /\ UNCHANGED <<control, requests, mod, faults>>

Module == ModuleAnswers \/ ModuleAnswersAgain

(* The line: external. *)

LoseRequest ==          \* or the module gets it damaged, or write() cut it short
  /\ toModule # << >>
  /\ Fault("lost")
  /\ toModule' = Tail(toModule)
  /\ UNCHANGED <<control, requests, toHost, line, mod>>

CorruptReply ==         \* a lost reply is one that arrives damaged
  /\ Fault("corrupt")
  /\ \E i \in DOMAIN toHost :
       toHost[i].crc /\ toHost' = [toHost EXCEPT ![i].crc = FALSE]
  /\ UNCHANGED <<control, requests, toModule, line, mod>>

DuplicateReply ==
  /\ line.cmd # "NONE"
  /\ Fault("duplicate")
  /\ toHost' = Append(toHost, line)
  /\ UNCHANGED <<control, requests, toModule, line, mod>>

Foreign == [crc |-> TRUE, reply |-> FALSE, cmd |-> "NONE", num |-> 0,
            gen |-> line.gen, ok |-> FALSE, at |-> 0, size |-> 0]

ForeignFrame ==         \* a good frame that is not a reply
  /\ Fault("foreign")
  /\ toHost' = Append(toHost, Foreign)
  /\ UNCHANGED <<control, requests, toModule, line, mod>>

(* The local radio, on its way into transparent mode, answers the first
   request meant for the module behind it: with the request's frame number
   and its own command.  It may or may not pass the request on.  Once a
   request has got through, the radio is transparent. *)
ResidualReply ==
  /\ args.RemoteDeviceUpdate
  /\ mod.last.cmd = "SET_RADIO_UPDATE_TRANSFER_MODE"
  /\ toModule # << >>
  /\ Head(toModule).cmd = "GET_DEVICE_MAX_FRAME_LEN"
  /\ Fault("residual")
  /\ PutOnLine([ReplyTo(Head(toModule), TRUE, [at |-> 0, size |-> 0])
                  EXCEPT !.cmd = "SET_RADIO_UPDATE_TRANSFER_MODE"])
  /\ toModule' \in {toModule, Tail(toModule)}
  /\ UNCHANGED <<control, requests, mod>>

Line == LoseRequest \/ CorruptReply \/ DuplicateReply \/ ForeignFrame \/ ResidualReply

Next == Host \/ Module \/ Line

Spec == Init /\ [][Next]_vars

(* The loop is the only thread of the program and never blocks for good; the
   module takes what has been sent to it.  Nothing makes the line misbehave. *)
FairSpec == Spec /\ WF_vars(Host) /\ WF_vars(Module)
-----------------------------------------------------------------------------
(* Every variable stays within its declared range; TimeCntr never runs more
   than one iteration past UPDATE_OVERTIME, because the iteration that sees
   the timeout, or the one after it, leaves the loop. *)
Piece == [place : Nat, at : Nat, size : Nat]

TypeOK ==
  /\ args \in [AutoReset : BOOLEAN, FastUpdate : BOOLEAN,
               RemoteDeviceUpdate : BOOLEAN, TransferSize : TransferSizes]
  /\ status \in Statuses
  /\ result \in Results
  /\ timeCntr \in 0..(Overtime + 1)
  /\ limit \in Nat
  /\ handle \in Handle
  /\ gen \in Nat
  /\ phase \in {"run", "sleep", "done"}
  /\ returned \in Results \cup {"NONE"}
  /\ toModule \in Seq(Request)
  /\ toHost \in Seq(Reply)
  /\ line \in Reply
  /\ mod \in [maxLen : Nat, sendMax : Nat, last : Reply,
              want : [at : Nat, size : Nat], image : Seq(Piece), rebooted : BOOLEAN]
  /\ faults \in [FaultKinds -> Nat]

(* A reply that the filter would take as the answer to the pending request is
   an answer to that request: not a late or repeated answer to an earlier one
   whose frame number has come round again (UpgradeM7xx.c:127-134). *)
FreshReply ==
  \A i \in DOMAIN toHost :
    toHost[i].crc /\ Matches(handle, toHost[i]) => toHost[i].gen = gen

(* The frames of the firmware carry no address, so the module can only put
   them where it last asked for data; whatever is lost, repeated or resent,
   the bytes it puts at an address are the bytes of the file at that address
   (UpgradeM7xx.c:559-581 with the resends of 136-170). *)
PiecesInPlace ==
  \A k \in DOMAIN mod.image : mod.image[k].at = mod.image[k].place

(* The resends do not breed: every frame on the line is the one request being
   answered, or is owed to a repeated, residual or foreign frame, or to the
   reboot request that is not waited for (UpgradeM7xx.c:599-627). *)
InFlight == Len(toModule) + Len(toHost)

Extra == faults["duplicate"] + faults["residual"] + faults["foreign"]

NoBreeding ==
  InFlight <= 1 + Extra + (IF args.AutoReset /\ args.RemoteDeviceUpdate THEN 1 ELSE 0)

(* The host reports success only when the module has put the whole file. *)
ImageEnd ==
  IF mod.image = << >> THEN FileInfoLen
  ELSE mod.image[Len(mod.image)].place + mod.image[Len(mod.image)].size

SuccessMeansComplete == returned = "OK" => ImageEnd = FileSize

(* No data frame is longer than the module said it can take, and none is
   longer than the length the host announced for the transfer
   (UpgradeM7xx.c:415-424, UpgradeEntry.c:539). *)
FramesFitDevice ==
  \A i \in DOMAIN toModule :
    toModule[i].cmd = "SEND_FIRMWARE" =>
      toModule[i].size + FieldLen <= limit /\ limit <= mod.maxLen

(* A failed call is named after what failed it.  Only the module's answer to
   the very request that is pending, and none that is late, repeated, residual
   or foreign, makes it PROTOCOL_FAILED, and only if that answer is one the
   handlers reject; FILE_READ_FAILED is an answer they take and a read that
   came back short.  TIMEOUT is returned when the time is up, and that includes
   an answer rejected or a read failed in the last iteration, whose result the
   next iteration overwrites; a timeout that a late answer has overtaken is
   returned later only if that answer asked for a piece, and never in place of
   the failure that follows.  The value UpgradeResult starts with,
   ENCODE_FAILED and STATE_FAILED are not returned (UpgradeM7xx.c:305, 341-346,
   371-374, 562-577, 673-681). *)
PendingAnswered == mod.last.cmd = handle.sendCmd /\ mod.last.num = handle.sendNum

PendingTaken == PendingAnswered /\ Accepts(handle.sendCmd, mod.last)

FailureNamed ==
  /\ returned \in {"NONE", "OK", "TIMEOUT", "PROTOCOL_FAILED", "FILE_READ_FAILED"}
  /\ returned = "PROTOCOL_FAILED" => PendingAnswered /\ ~PendingTaken
  /\ returned = "FILE_READ_FAILED" =>
       PendingTaken /\ (faults["ioError"] > 0 \/ ~InFile(mod.last.at, mod.last.size))
  /\ returned = "TIMEOUT" =>
       timeCntr >= Overtime \/ (timeCntr = 1 /\ handle.sendCmd = "SEND_FIRMWARE")

(* The session that module and host go through is one of UpgradeSession. *)
Session == INSTANCE UpgradeSession WITH
  First <- FileInfoLen,
  image <- [k \in DOMAIN mod.image |-> [at |-> mod.image[k].at, size |-> mod.image[k].size]],
  outcome <- IF returned \in {"NONE", "OK"} THEN returned ELSE "FAILED"

(* Whatever the line does, the firmware arrives in order, without gaps and
   without a byte twice, and the verdict OK comes after the last byte and is
   followed by none (UpgradeM7xx.c:543-598, 673-688). *)
DeliversInOrderOnce == Session!Spec

(* The call returns: each status either is left or times out. *)
Termination == <>(phase = "done")

(* Repeated replies and residual radio replies alone never cost the upgrade,
   provided the answers come in time: the resends of UpgradeM7xx.c:136-170
   make up for every request and every reply that a read drops.  With -r and
   -u only the delivery is sure: the radio is closed without waiting for the
   reboot reply (599-627), so a repeated reply to the last firmware request is
   two requests old, triggers no resend, and may take the radio's answer with
   it when both are read at once; the call then times out. *)
CompletesDespiteStaleReplies ==
  /\ <>(ImageEnd = FileSize)
  /\ ~(args.AutoReset /\ args.RemoteDeviceUpdate) => <>(returned = "OK")

(* The reading of "-r: reboot the module immediately after upgrade"
   (readme_en.md:56) together with the success code: when the host has
   reported success for -r, the module has rebooted or the request to do so
   is still on the line. *)
SuccessMeansRebooted ==
  returned = "OK" /\ args.AutoReset =>
    mod.rebooted \/ \E i \in DOMAIN toModule : toModule[i].cmd = "REQUEST_REBOOT"

(* "PROTOCOL_WAIT_CONFIRM: No complete matching response is available yet"
   (UpgradeM7xx.c:102): when the filter tells the loop to wait, no frame of
   what it read was the pending answer. *)
WaitMeansNoAnswer ==
  [][KeepWaiting =>
       \A i \in 1..(Len(toHost) - Len(toHost')) :
         ~(toHost[i].crc /\ Matches(handle, toHost[i]))]_vars
=============================================================================
