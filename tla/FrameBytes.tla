----------------------------- MODULE FrameBytes -----------------------------
(***************************************************************************)
(* The bytes of the session's frames: the requests UpgradeFrameDataEncode  *)
(* lays out in FrameStr, one over the other, and what the reply handlers   *)
(* of UpgradeEntry.c make of the bytes of a reply.                         *)
(*                                                                         *)
(* The session is that of UpgradeProc on a line that loses nothing: every  *)
(* request is answered once, and the first refusal ends it.  One action is *)
(* a reply and the request it leads to.  Lengths are scaled by the         *)
(* constants; bytes, fields and the CRC are those of the code.             *)
(*                                                                         *)
(* The NOT_INIT check of UpgradeFrameEncode cannot fail after              *)
(* UpgradeFrameInit and is left out, and so are the reply frames it can    *)
(* encode and two handlers, for requests this program never makes.         *)
(***************************************************************************)
EXTENDS CRCGenerate

CONSTANTS
  Modulus,      \* values of the frame number (256)
  DataMax,      \* UPGRADE_PROTOCOL_DATA_MAX_LEN (32768)
  LeastMax,     \* the least FrameMaxLen that is accepted (1024)
  Table,        \* s_TransferSizeTable
  Short,        \* values of an unsigned short (65536)
  File,         \* bytes of the firmware package
  FileInfoLen,  \* sizeof(FILE_INFO_T) (12)
  InfoLen,      \* sizeof(DEVICE_INFO_T) (192)
  Answers(_)    \* the ActionStatus and data a module may answer a command with

VARIABLES
  remote,     \* pCmdArgs->RemoteDeviceUpdate
  send,       \* FrameSend: FrameNumb, CmdID and DataCount
  str,        \* FrameStr: StrBuf and Len
  transport,  \* TransportMaxLen
  state,      \* "idle" before the first request, "waiting" for a reply, "FAIL", "SUCCESS"
  asked,      \* ghost: what the pending request was meant to carry
  told        \* ghost: the data of the last reply accepted, by command

vars == <<remote, send, str, transport, state, asked, told>>

CmdID ==
  [GET_DEVICE_INFO |-> 1, REQUEST_REBOOT |-> 2, SEND_FIRMWARE |-> 3, REQUEST_UPGRADE |-> 5,
   GET_DEVICE_STATUS |-> 10, GET_DEVICE_MAX_FRAME_LEN |-> 11, SET_SEND_MAX_FRAME_LEN |-> 12,
   SET_FAST_UPDATE_MODE |-> 13, SET_RADIO_UPDATE_TRANSFER_MODE |-> 15]

Commands == DOMAIN CmdID

FieldLen == 16

ASSUME FrameAssumption ==
  /\ Modulus \in 2..256
  /\ DataMax \in Nat /\ DataMax >= 4
  /\ Short \in (DataMax + 17)..65536
  /\ LeastMax \in Nat /\ Table \subseteq 1..DataMax
  /\ File \in Seq(Byte)
  /\ FileInfoLen \in 1..DataMax /\ FileInfoLen <= Len(File)
  /\ \A cmd \in Commands : \A a \in Answers(cmd) :
       a[1] \in 0..15 /\ a[2] \in Seq(Byte) /\ Len(a[2]) + FieldLen < Short

Header == <<213, 165>>                  \* D5 A5
HeadLen == 12
BufLen == DataMax + FieldLen            \* UPGRADE_PROTOCOL_TRANSMIT_MAX_LEN
ActionSend == 0
ActionReply == 1

Init ==                                 \* UpgradeFrameInit
  /\ remote \in BOOLEAN
  /\ send = [FrameNumb |-> 0, Cmd |-> "NONE", DataCount |-> 0]
  /\ str = [StrBuf |-> [k \in 1..BufLen |-> 0], Len |-> 0]
  /\ transport = 0
  /\ state = "idle"
  /\ asked = [cmd |-> "NONE", num |-> 0, data |-> << >>]
  /\ told = [c \in {"GET_DEVICE_MAX_FRAME_LEN", "SEND_FIRMWARE"} |-> << >>]

Put(buf, at, bytes) ==                  \* memcpy(buf + at, bytes, Len(bytes))
  [k \in DOMAIN buf |-> IF k - at \in DOMAIN bytes THEN bytes[k - at] ELSE buf[k]]

Field(cmd, status, action) ==
  <<action * 64 + status * 4,
    (CmdID[cmd] \div 65536) % 256, (CmdID[cmd] \div 256) % 256, CmdID[cmd] % 256>>

FrameHead(num, len, field) ==
  <<Header[1], Header[2], 0, num, len \div 256, len % 256, 0, 0,
    field[1], field[2], field[3], field[4]>>

(* Mutant of Covered: the frame number is left out of the CRC. *)
CoveredAfterNumber(frame) == SubSeq(frame, 5, Len(frame) - 4)

Covered(frame) == SubSeq(frame, 4, Len(frame) - 4)    \* without header, version and CRC

WithCRC(frame) == Put(frame, Len(frame) - 4, BigEndian(CRC32Generate(Covered(frame))))

Frame2String(buf, num, cmd, count) ==
  LET len == (count + FieldLen) % Short
      laid == Put(buf, 0, FrameHead(num, len, Field(cmd, 0, ActionSend)))
  IN  [StrBuf |-> Put(laid, 0, WithCRC(SubSeq(laid, 1, len))), Len |-> len]

(* Mutant of NextNumb: the number is kept in a wider type. *)
NextNumbUnwrapped(num) == num + 1

NextNumb(num) == (num + 1) % Modulus

(* Mutant of DataCount: it is only set when there are data. *)
DataCountKept(data) == IF data = << >> THEN send.DataCount ELSE Len(data) % Short

DataCount(data) == Len(data) % Short    \* the parameter is an unsigned short

TooLong(count) == count > DataMax

Encode(cmd, data) ==                    \* UpgradeFrameEncode, FRAME_ACTION_SEND
  IF TooLong(Len(data) % Short) THEN UNCHANGED <<send, str>>
  ELSE LET num == NextNumb(send.FrameNumb)
           count == DataCount(data)
           buf == Put(str.StrBuf, HeadLen, SubSeq(data, 1, Len(data) % Short))
       IN  /\ send' = [FrameNumb |-> num, Cmd |-> cmd, DataCount |-> count]
           /\ str' = Frame2String(buf, num, cmd, count)

NeedsData == {"SET_SEND_MAX_FRAME_LEN", "REQUEST_UPGRADE", "SET_RADIO_UPDATE_TRANSFER_MODE"}

Request(cmd, data) ==                   \* UpgradeFrameDataEncode, and the frame is sent
  /\ IF cmd \in NeedsData /\ data = << >> THEN UNCHANGED <<send, str>> ELSE Encode(cmd, data)
  /\ asked' = [cmd |-> cmd, num |-> NextNumb(asked.num), data |-> data]
  /\ state' = "waiting"

-----------------------------------------------------------------------------
(* A reply as it arrives, and what the decoder reads out of it. *)

ReplyFrame(status, data) ==
  WithCRC(FrameHead(send.FrameNumb, Len(data) + FieldLen, Field(send.Cmd, status, ActionReply))
          \o data \o <<0, 0, 0, 0>>)

FrameSearch(frame) ==
  SubSeq(frame, Len(frame) - 3, Len(frame)) = BigEndian(CRC32Generate(Covered(frame)))

String2Frame(frame) ==
  [num |-> frame[4], action |-> frame[9] \div 64, status |-> (frame[9] \div 4) % 16,
   cmd |-> frame[10] * 65536 + frame[11] * 256 + frame[12],
   data |-> SubSeq(frame, HeadLen + 1, Len(frame) - 4)]

Matches(f) ==                           \* UpgradeFrameCacheAndFilter lets f through
  f.action = ActionReply /\ f.cmd = CmdID[send.Cmd] /\ f.num = send.FrameNumb

Received(cmd) ==                        \* the replies that may arrive, cmd being asked
  IF state = "waiting" /\ send.Cmd = cmd
  THEN LET frames == {ReplyFrame(a[1], a[2]) : a \in Answers(cmd)}
       IN  {f \in {String2Frame(b) : b \in {r \in frames : FrameSearch(r)}} : Matches(f)}
  ELSE {}

Number(b) ==                            \* an int, little-endian
  b[1] + b[2] * 256 + b[3] * 65536 + (IF b[4] < 128 THEN b[4] ELSE b[4] - 256) * 16777216

AtMost(b, n) == b[4] < 128 /\ Number(b) <= n      \* as an unsigned int, for n >= 0

Carries(f, count) == f.status = 0 /\ Len(f.data) = count

GetFrameMaxLenReply(f) == Carries(f, 4) /\ Number(f.data) \in LeastMax..BufLen

GetDeviceInfoReply(f) == Carries(f, InfoLen)

StatusReply(f) == Carries(f, 1) /\ f.data[1] = 1  \* ..._SUCCESS, ..._ALLOW, ..._UPDATING

(* Mutant of SendSubPackageFirmwareReply: the frame's own bytes are not allowed for. *)
SendSubPackageFirmwareReplyWholeFrame(f) == Carries(f, 8) /\ AtMost(SubSeq(f.data, 5, 8), transport)

SendSubPackageFirmwareReply(f) ==
  Carries(f, 8) /\ AtMost(SubSeq(f.data, 5, 8), transport - FieldLen)

InTable(f) == Number(f.data) - FieldLen \in Table

Accepts(f) ==
  CASE send.Cmd = "GET_DEVICE_MAX_FRAME_LEN" -> GetFrameMaxLenReply(f) /\ InTable(f)
    [] send.Cmd = "GET_DEVICE_INFO" -> GetDeviceInfoReply(f)
    [] send.Cmd = "SEND_FIRMWARE" -> SendSubPackageFirmwareReply(f)
    [] OTHER -> StatusReply(f)

-----------------------------------------------------------------------------
Opening == transport = 0                \* GET_DEVICE_MAX_FRAME_LEN is still to come

RadioMode == <<IF Opening THEN 1 ELSE 0, 0>>

Start ==
  /\ state = "idle"
  /\ IF remote THEN Request("SET_RADIO_UPDATE_TRANSFER_MODE", RadioMode)
               ELSE Request("GET_DEVICE_MAX_FRAME_LEN", << >>)
  /\ UNCHANGED <<remote, transport, told>>

Refused ==                              \* UPGRADE_STATUS_FAIL
  /\ \E f \in Received(send.Cmd) : ~Accepts(f)
  /\ state' = "FAIL"
  /\ UNCHANGED <<remote, send, str, transport, asked, told>>

Taken(cmd, f) ==
  /\ Accepts(f)
  /\ told' = IF cmd \in DOMAIN told THEN [told EXCEPT ![cmd] = f.data] ELSE told
  /\ UNCHANGED remote

LittleEndian(n) ==
  <<n % 256, (n \div 256) % 256, (n \div 65536) % 256, (n \div 16777216) % 256>>

MaxFrameLenReceived ==
  \E f \in Received("GET_DEVICE_MAX_FRAME_LEN") :
    /\ Taken("GET_DEVICE_MAX_FRAME_LEN", f)
    /\ \E TransferSize \in Table :       \* an option of the command line
         transport' = Min({TransferSize + FieldLen, Number(f.data)})
    /\ Request("SET_SEND_MAX_FRAME_LEN", LittleEndian(transport'))

Following(cmd) ==                       \* the request after the reply to cmd
  CASE cmd = "SET_SEND_MAX_FRAME_LEN" -> {"GET_DEVICE_INFO"}
    [] cmd = "GET_DEVICE_INFO" -> {"REQUEST_UPGRADE"}
    [] cmd = "REQUEST_UPGRADE" -> {"SET_FAST_UPDATE_MODE", "GET_DEVICE_STATUS"}
    [] cmd = "SET_FAST_UPDATE_MODE" -> {"GET_DEVICE_STATUS"}
    [] cmd = "GET_DEVICE_STATUS" -> {"SEND_FIRMWARE"}
    [] cmd = "SET_RADIO_UPDATE_TRANSFER_MODE" /\ Opening -> {"GET_DEVICE_MAX_FRAME_LEN"}
    [] cmd = "REQUEST_REBOOT" /\ remote -> {"SET_RADIO_UPDATE_TRANSFER_MODE"}
    [] OTHER -> {}

Data(cmd) ==
  CASE cmd = "REQUEST_UPGRADE" -> SubSeq(File, 1, FileInfoLen)
    [] cmd = "SET_RADIO_UPDATE_TRANSFER_MODE" -> RadioMode
    [] OTHER -> << >>

Unanswered ==                           \* the reply to the reboot is not there yet
  /\ state = "waiting" /\ send.Cmd = "REQUEST_REBOOT"
  /\ UNCHANGED <<remote, told>>

TakenOrReboot == Unanswered \/ \E f \in Received(send.Cmd) : Taken(send.Cmd, f)

GoOn ==
  /\ \E cmd \in Following(send.Cmd) : Request(cmd, Data(cmd))
  /\ TakenOrReboot
  /\ UNCHANGED transport

Asked(f) ==                             \* neither RequestAddr nor RequestSize is 0
  /\ SubSeq(f.data, 1, 4) # <<0, 0, 0, 0>>
  /\ SubSeq(f.data, 5, 8) # <<0, 0, 0, 0>>

InFile(at, size) == at >= 0 /\ at + size <= Len(File)    \* ReadFirmwareData reads it all

SendPiece ==
  \E f \in Received("SEND_FIRMWARE") :
    /\ Taken("SEND_FIRMWARE", f)
    /\ Asked(f)
    /\ LET at == Number(f.data)
           size == Number(SubSeq(f.data, 5, 8))
       IN  InFile(at, size) /\ Request("SEND_FIRMWARE", SubSeq(File, at + 1, at + size))
    /\ UNCHANGED transport

FileReadFailed ==
  /\ \E f \in Received("SEND_FIRMWARE") :
       /\ Taken("SEND_FIRMWARE", f)
       /\ Asked(f)
       /\ ~InFile(Number(f.data), Number(SubSeq(f.data, 5, 8)))
  /\ state' = "FAIL"
  /\ UNCHANGED <<send, str, transport, asked>>

FirmwareSent ==
  /\ \E f \in Received("SEND_FIRMWARE") : Taken("SEND_FIRMWARE", f) /\ ~Asked(f)
  /\ \/ Request("REQUEST_REBOOT", << >>)
     \/ state' = "SUCCESS" /\ UNCHANGED <<send, str, asked>>
  /\ UNCHANGED transport

Finished ==                             \* UPGRADE_STATUS_SUCCESS after a reboot
  /\ send.Cmd \in {"REQUEST_REBOOT", "SET_RADIO_UPDATE_TRANSFER_MODE"}
  /\ ~Opening /\ Following(send.Cmd) = {}
  /\ TakenOrReboot
  /\ state' = "SUCCESS"
  /\ UNCHANGED <<send, str, transport, asked>>

Next == Start \/ Refused \/ MaxFrameLenReceived \/ GoOn \/ SendPiece \/ FileReadFailed
        \/ FirmwareSent \/ Finished

Spec == Init /\ [][Next]_vars

-----------------------------------------------------------------------------
Frame == SubSeq(str.StrBuf, 1, str.Len)

(* Every field keeps its width: frame numbers stay within a byte, and the
   frame laid out fits the buffer it is laid out in. *)
TypeOK ==
  /\ send \in [FrameNumb : 0..(Modulus - 1), Cmd : Commands \cup {"NONE"}, DataCount : 0..DataMax]
  /\ str.StrBuf \in Seq(Byte) /\ Len(str.StrBuf) = BufLen
  /\ str.Len \in 0..BufLen
  /\ transport \in 0..BufLen
  /\ remote \in BOOLEAN
  /\ state \in {"idle", "waiting", "FAIL", "SUCCESS"}

(* The frame that waits for its answer, decoded by a peer the way this code
   decodes, is the request that was meant: its number, its command and exactly
   its data, whatever requests were laid out in the same buffer before. *)
ReadsBack ==
  state = "waiting" =>
    /\ SubSeq(Frame, 1, 2) = Header
    /\ Frame[5] * 256 + Frame[6] = Len(Frame)
    /\ FrameSearch(Frame)
    /\ String2Frame(Frame) = [num |-> asked.num, action |-> ActionSend, status |-> 0,
                              cmd |-> CmdID[asked.cmd], data |-> asked.data]

(* No byte of a frame that its receiver acts on can change unnoticed: damage
   to the frame number, above all, would turn one answer into another.  (The
   header and the version are not covered by the CRC.) *)
DamageSeen ==
  state = "waiting" =>
    \A k \in 4..Len(Frame), flip \in {1, 128} :
      ~FrameSearch([Frame EXCEPT ![k] = (@ + flip) % 256])

(* From the module's bytes to the frame: the length it announced bounds every
   frame that carries a piece, and a piece is what it asked for, place and
   size read out of its bytes the way it wrote them. *)
SendsWhatWasAsked ==
  (state = "waiting" /\ asked.cmd = "SEND_FIRMWARE" /\ asked.data # << >>) =>
    /\ AtMost(LittleEndian(Len(Frame)), transport)
    /\ \E n \in 0..BufLen :
         LittleEndian(n) = told["GET_DEVICE_MAX_FRAME_LEN"] /\ Len(Frame) <= n
    /\ \E at \in 1..Len(File), size \in 1..DataMax :
         /\ LittleEndian(at) \o LittleEndian(size) = told["SEND_FIRMWARE"]
         /\ asked.data = SubSeq(File, at + 1, at + size)
=============================================================================
