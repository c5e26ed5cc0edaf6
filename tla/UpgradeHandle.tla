--------------------------- MODULE UpgradeHandle ---------------------------
(***************************************************************************)
(* The request side of FRAME_HANDLE_T (UpgradeProtocol.h) as a value: what *)
(* UpgradeFrameInit and UpgradeFrameEncode write into it, how a received   *)
(* frame is classified against it by UpgradeFrameCacheAndFilter, and the   *)
(* verdicts of the reply handlers of UpgradeEntry.c.                       *)
(*                                                                         *)
(* A frame is a record.  The payload of a request is abstracted to the     *)
(* half-open interval [at, at + size) of the firmware file it carries; the *)
(* request SET_SEND_MAX_FRAME_LEN carries a length, which is its "size".   *)
(* The payload of a reply is abstracted to "ok" (ActionStatus, DataCount   *)
(* and the status byte are all as the handler wants them) and to the       *)
(* numbers a handler reads out of it, "at" and "size".                     *)
(*                                                                         *)
(* "gen" is a ghost: the ordinal of the request that a frame is, or        *)
(* answers.  Nothing in this module or in the host's guards reads it.      *)
(***************************************************************************)
EXTENDS Integers

CONSTANT Modulus    \* values of the frame number: 256, FrameNumb is an unsigned char

ASSUME ModulusAssumption == Modulus \in Nat /\ Modulus >= 3

Commands ==
  {"GET_DEVICE_MAX_FRAME_LEN", "SET_SEND_MAX_FRAME_LEN", "GET_DEVICE_INFO",
   "REQUEST_UPGRADE", "SET_FAST_UPDATE_MODE", "GET_DEVICE_STATUS",
   "SEND_FIRMWARE", "REQUEST_REBOOT", "SET_RADIO_UPDATE_TRANSFER_MODE"}

FrameNumbers == 0..(Modulus - 1)

FieldLen == 16              \* UPGRADE_PROTOCOL_FILED_LEN
DataMaxLen == 32 * 1024     \* UPGRADE_PROTOCOL_DATA_MAX_LEN
TransferSizeTable == {1024, 2048, 4096, 8192, 16384, 32768}

Request == [cmd : Commands \cup {"NONE"}, num : FrameNumbers, gen : Nat,
            at : Nat, size : Nat]

Reply == [crc : BOOLEAN, reply : BOOLEAN, cmd : Commands \cup {"NONE"},
          num : FrameNumbers, gen : Nat, ok : BOOLEAN, at : Nat, size : Nat]

NoFrame == [cmd |-> "NONE", num |-> 0, gen |-> 0, at |-> 0, size |-> 0]

Handle == [sendCmd : Commands \cup {"NONE"}, sendNum : FrameNumbers,
           prevValid : BOOLEAN, prevCmd : Commands \cup {"NONE"},
           prevNum : FrameNumbers, str : Request]

FrameInit == [sendCmd |-> "NONE", sendNum |-> 0, prevValid |-> FALSE,
              prevCmd |-> "NONE", prevNum |-> 0, str |-> NoFrame]

Cached(h) == h.str.cmd # "NONE"      \* FrameStr.Len > 0

TooLong(size) == size > DataMaxLen

(***************************************************************************)
(* A request takes the next frame number; the request it replaces becomes  *)
(* the history; the encoded bytes stay in FrameStr for a resend.           *)
(***************************************************************************)
FrameEncode(h, cmd, at, size, gen) ==
  LET num == (h.sendNum + 1) % Modulus
  IN  [sendCmd |-> cmd, sendNum |-> num,
       prevValid |-> Cached(h),
       prevCmd |-> IF Cached(h) THEN h.sendCmd ELSE "NONE",
       prevNum |-> IF Cached(h) THEN h.sendNum ELSE 0,
       str |-> [cmd |-> cmd, num |-> num, gen |-> gen, at |-> at, size |-> size]]

(* Mutant of Matches: the frame number is not compared. *)
MatchesAnyNumber(h, f) == f.reply /\ f.cmd = h.sendCmd

Matches(h, f) == f.reply /\ f.cmd = h.sendCmd /\ f.num = h.sendNum

AnswersPrevious(h, f) ==
  /\ f.reply /\ h.prevValid /\ Cached(h)
  /\ f.cmd = h.prevCmd /\ f.num = h.prevNum

IsResidual(h, f) ==
  /\ f.reply /\ h.prevValid /\ Cached(h)
  /\ f.num = h.sendNum /\ f.cmd = h.prevCmd /\ f.cmd # h.sendCmd

(* Mutant of TriggersResend: residual radio replies are only discarded. *)
TriggersResendOnPrevious(h, f) == AnswersPrevious(h, f)

TriggersResend(h, f) == AnswersPrevious(h, f) \/ IsResidual(h, f)

GetFrameMaxLenReply(f) ==
  /\ f.ok
  /\ f.size \in 1024..(DataMaxLen + FieldLen)

(* Mutant of SendSubPackageFirmwareReply: the size is not checked. *)
SendSubPackageFirmwareReplyAnySize(f, maxLen) == f.ok

SendSubPackageFirmwareReply(f, maxLen) ==
  /\ f.ok
  /\ f.size <= maxLen - FieldLen

StatusReply(f) == f.ok      \* the handlers that only check a status byte or a length
=============================================================================
