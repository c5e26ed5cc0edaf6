------------------------- MODULE UpgradeProcProofs -------------------------
(***************************************************************************)
(* Proofs about UpgradeProc for every frame-number modulus, timeout, file  *)
(* size, set of arguments, module and number of faults.                    *)
(***************************************************************************)
EXTENDS UpgradeProc, SequenceTheorems, TLAPS

(* The frame number of the next request and of the one after it differ from
   the current one: the modulus is at least 3. *)
LEMMA NextNumber ==
  ASSUME NEW n \in FrameNumbers
  PROVE  /\ (n + 1) % Modulus \in FrameNumbers
         /\ (n + 1) % Modulus # n
         /\ (((n + 1) % Modulus) + 1) % Modulus # n
<1>1. ASSUME NEW k \in FrameNumbers
      PROVE  (k + 1) % Modulus = IF k = Modulus - 1 THEN 0 ELSE k + 1
  BY <1>1, ModulusAssumption, SMT DEF FrameNumbers
<1>2. QED
  BY <1>1, ModulusAssumption, SMT DEF FrameNumbers

LEMMA EncodeType ==
  ASSUME NEW h \in Handle, NEW cmd \in Commands, NEW at \in Nat, NEW size \in Nat,
         NEW g \in Nat
  PROVE  /\ FrameEncode(h, cmd, at, size, g) \in Handle
         /\ FrameEncode(h, cmd, at, size, g).str \in Request
<1> DEFINE num == (h.sendNum + 1) % Modulus
<1>1. h.sendNum \in FrameNumbers
  BY DEF Handle
<1>2. num \in FrameNumbers
  BY <1>1, NextNumber
<1>3. 0 \in FrameNumbers
  BY ModulusAssumption DEF FrameNumbers
<1> HIDE DEF num
<1>4. FrameEncode(h, cmd, at, size, g) =
        [sendCmd |-> cmd, sendNum |-> num, prevValid |-> Cached(h),
         prevCmd |-> IF Cached(h) THEN h.sendCmd ELSE "NONE",
         prevNum |-> IF Cached(h) THEN h.sendNum ELSE 0,
         str |-> [cmd |-> cmd, num |-> num, gen |-> g, at |-> at, size |-> size]]
  BY DEF FrameEncode, num
<1>5. Cached(h) \in BOOLEAN
  BY DEF Cached
<1>6. [cmd |-> cmd, num |-> num, gen |-> g, at |-> at, size |-> size] \in Request
  BY <1>2 DEF Request
<1>7. QED
  BY <1>1, <1>2, <1>3, <1>4, <1>5, <1>6 DEF Handle
-----------------------------------------------------------------------------
(* Type correctness.  TimeCntr is bounded because an iteration that finds the
   time over leaves every waiting status; a length is announced to the module
   only when it has room for the fields of a frame. *)
TimeInv ==
  /\ phase = "run" /\ status = "IDLE" => timeCntr = 0
  /\ phase # "done" /\ status = "REQUEST_REBOOT" => timeCntr = 1
  /\ phase = "sleep" => status = "REQUEST_REBOOT"
  /\ phase # "done" /\ status \notin {"FAIL", "SUCCESS"} => timeCntr <= Overtime

Announces(r) == r.cmd = "SET_SEND_MAX_FRAME_LEN" => r.size >= FieldLen

LengthInv ==
  /\ mod.sendMax >= FieldLen
  /\ Announces(handle.str)
  /\ \A i \in DOMAIN toModule : Announces(toModule[i])

TypeInv == TypeOK /\ TimeInv /\ LengthInv

LEMMA UnreadType ==
  ASSUME NEW S, NEW s \in Seq(S), NEW n \in 0..Len(s)
  PROVE  /\ SubSeq(s, n + 1, Len(s)) \in Seq(S)
         /\ Len(SubSeq(s, n + 1, Len(s))) = Len(s) - n
         /\ \A i \in 1..(Len(s) - n) : SubSeq(s, n + 1, Len(s))[i] = s[i + n]
<1>1. Len(s) \in Nat /\ \A i \in (n + 1)..Len(s) : s[i] \in S
  BY LenProperties, ElementOfSeq
<1>2. /\ SubSeq(s, n + 1, Len(s)) \in Seq(S)
      /\ Len(SubSeq(s, n + 1, Len(s))) =
           IF n + 1 <= Len(s) THEN Len(s) - (n + 1) + 1 ELSE 0
      /\ \A i \in 1..(Len(s) - (n + 1) + 1) :
           SubSeq(s, n + 1, Len(s))[i] = s[(n + 1) + i - 1]
  BY <1>1, SubSeqProperties
<1>3. QED
  BY <1>1, <1>2

LEMMA AppendType ==
  ASSUME NEW S, NEW s \in Seq(S), NEW x \in S
  PROVE  /\ Append(s, x) \in Seq(S)
         /\ Len(Append(s, x)) = Len(s) + 1
         /\ \A i \in 1..Len(s) : Append(s, x)[i] = s[i]
         /\ Append(s, x)[Len(s) + 1] = x
  BY AppendProperties

LEMMA TailType ==
  ASSUME NEW S, NEW s \in Seq(S), s # << >>
  PROVE  /\ Head(s) \in S
         /\ Head(s) = s[1]
         /\ Tail(s) \in Seq(S)
         /\ Len(s) > 0
         /\ Len(Tail(s)) = Len(s) - 1
         /\ \A i \in 1..(Len(s) - 1) : Tail(s)[i] = s[i + 1]
  BY HeadTailProperties, EmptySeq, LenProperties

(* What the parts of a host step do to the types. *)
LEMMA ReadType ==
  ASSUME TypeOK, NEW n \in 0..Len(toHost), toHost' = Unread(toHost, n)
  PROVE  toHost' \in Seq(Reply)
  BY UnreadType DEF TypeOK, Unread

LEMMA ReadMatchType ==
  ASSUME TypeOK, NEW i \in DOMAIN toHost, ReadMatch(i)
  PROVE  toHost[i] \in Reply /\ toHost' \in Seq(Reply)
<1>1. i \in 1..Len(toHost) /\ Len(toHost) \in Nat
  BY LenProperties DEF TypeOK
<1>2. PICK n \in i..Len(toHost) : toHost' = Unread(toHost, n)
  BY DEF ReadMatch
<1>3. n \in 0..Len(toHost)
  BY <1>1
<1>4. QED
  BY <1>1, <1>2, <1>3, ReadType, ElementOfSeq DEF TypeOK

LEMMA WrittenType ==
  ASSUME TypeOK, NEW resent \in BOOLEAN
  PROVE  Written(resent) \in Seq(Request)
  BY AppendType DEF Written, TypeOK, Handle

LEMMA SendType ==
  ASSUME TypeOK, LengthInv, NEW cmd \in Commands, NEW at \in Nat, NEW size \in Nat,
         NEW resent \in BOOLEAN, Send(cmd, at, size, resent),
         cmd = "SET_SEND_MAX_FRAME_LEN" => size >= FieldLen
  PROVE  /\ gen' \in Nat /\ gen' = gen + 1
         /\ handle' \in Handle
         /\ toModule' \in Seq(Request)
         /\ Announces(handle.str)'
         /\ (\A i \in DOMAIN toModule : Announces(toModule[i]))'
<1>1. gen' \in Nat /\ gen' = gen + 1
  BY DEF Send, TypeOK
<1>2. handle' \in Handle /\ handle'.str \in Request
  BY <1>1, EncodeType DEF Send, TypeOK
<1>3. handle'.str.cmd = cmd /\ handle'.str.size = size
  BY DEF Send, FrameEncode
<1>4. Announces(handle'.str)
  BY <1>3 DEF Announces
<1>5. Written(resent) \in Seq(Request)
  BY WrittenType
<1>6. \A i \in 1..Len(Written(resent)) : Announces(Written(resent)[i])
  <2>1. CASE resent
    <3>1. Written(resent) = Append(toModule, handle.str)
      BY <2>1 DEF Written
    <3>2. handle.str \in Request /\ toModule \in Seq(Request) /\ Len(toModule) \in Nat
      BY LenProperties DEF TypeOK, Handle
    <3>3. QED
      BY <3>1, <3>2, AppendType, LenProperties DEF LengthInv
  <2>2. CASE ~resent
    BY <2>2, LenProperties DEF Written, LengthInv, TypeOK
  <2>3. QED
    BY <2>1, <2>2
<1>7. toModule' = Append(Written(resent), handle'.str)
  BY DEF Send
<1>8. Len(Written(resent)) \in Nat /\ toModule' \in Seq(Request) /\ DOMAIN toModule' = 1..Len(toModule')
  BY <1>2, <1>5, <1>7, AppendType, LenProperties
<1>9. \A i \in DOMAIN toModule' : Announces(toModule'[i])
  BY <1>2, <1>4, <1>5, <1>6, <1>7, <1>8, AppendType
<1>10. QED
  BY <1>1, <1>2, <1>4, <1>8, <1>9 DEF Announces

LEMMA AdvanceType ==
  ASSUME TypeInv, phase = "run",
         NEW st \in Statuses \ {"IDLE"}, NEW cmd \in Commands,
         NEW at \in Nat, NEW size \in Nat,
         Advance(st, cmd, at, size),
         cmd = "SET_SEND_MAX_FRAME_LEN" => size >= FieldLen,
         limit' \in Nat, toHost' \in Seq(Reply), UNCHANGED environment
  PROVE  TypeInv'
<1>0. Send(cmd, at, size, FALSE) /\ GoTo(st, 0)
  BY DEF Advance
<1>1. /\ status' = st /\ result' = CheckedResult /\ timeCntr' = 1
      /\ UNCHANGED <<args, phase, returned>>
  BY <1>0 DEF GoTo
<1>2. /\ gen' \in Nat
      /\ handle' \in Handle
      /\ toModule' \in Seq(Request)
      /\ Announces(handle.str)'
      /\ (\A i \in DOMAIN toModule : Announces(toModule[i]))'
  BY <1>0, SendType DEF TypeInv
<1>3. CheckedResult \in Results
  BY DEF CheckedResult, TypeInv, TypeOK, Results
<1>4. TypeOK'
  BY <1>1, <1>2, <1>3, OvertimeAssumption DEF TypeInv, TypeOK, environment
<1>5. TimeInv'
  BY <1>1, OvertimeAssumption DEF TypeInv, TimeInv
<1>6. LengthInv'
  BY <1>2 DEF TypeInv, LengthInv, environment
<1>7. QED
  BY <1>4, <1>5, <1>6 DEF TypeInv

LEMMA FailType ==
  ASSUME TypeInv, phase = "run", status \notin {"FAIL", "SUCCESS"},
         NEW code \in Results, FailWith(code),
         toHost' \in Seq(Reply), UNCHANGED <<line, mod>>,
         faults' \in [FaultKinds -> Nat]
  PROVE  TypeInv'
<1>1. timeCntr' \in 0..(Overtime + 1)
  BY OvertimeAssumption DEF TypeInv, TypeOK, TimeInv, FailWith
<1>2. TypeOK'
  BY <1>1 DEF FailWith, TypeInv, TypeOK, Statuses
<1>3. TimeInv'
  BY DEF FailWith, TypeInv, TimeInv
<1>4. LengthInv'
  BY DEF FailWith, TypeInv, LengthInv
<1>5. QED
  BY <1>2, <1>3, <1>4 DEF TypeInv

(* Steps that send nothing of their own: they may leave status, time, phase
   and what is in flight changed, but not the handle. *)
LEMMA QuietType ==
  ASSUME TypeInv,
         UNCHANGED <<args, requests, line, mod>>,
         limit' \in Nat, status' \in Statuses, result' \in Results,
         timeCntr' \in 0..(Overtime + 1), phase' \in {"run", "sleep", "done"},
         returned' \in Results \cup {"NONE"}, faults' \in [FaultKinds -> Nat],
         toHost' \in Seq(Reply), NEW resent \in BOOLEAN, toModule' = Written(resent)
  PROVE  TypeOK' /\ LengthInv'
<1>1. toModule' \in Seq(Request)
  BY WrittenType DEF TypeInv
<1>2. TypeOK'
  BY <1>1 DEF TypeInv, TypeOK, requests
<1>3. handle.str \in Request /\ toModule \in Seq(Request) /\ Len(toModule) \in Nat
  BY LenProperties DEF TypeInv, TypeOK, Handle
<1>4. DOMAIN toModule' = 1..Len(toModule') /\ DOMAIN toModule = 1..Len(toModule)
  BY <1>1, <1>3, LenProperties
<1>5. \A i \in DOMAIN toModule' : Announces(toModule'[i])
  <2>1. CASE resent
    BY <1>3, <1>4, <2>1, AppendType DEF Written, TypeInv, LengthInv
  <2>2. CASE ~resent
    BY <2>2 DEF Written, TypeInv, LengthInv
  <2>3. QED
    BY <2>1, <2>2
<1>6. LengthInv'
  BY <1>5 DEF TypeInv, LengthInv, requests, Announces
<1>7. QED
  BY <1>2, <1>6

LEMMA AcceptedType ==
  ASSUME TypeInv, NEW st, NEW i \in DOMAIN toHost, ReplyAccepted(st, i)
  PROVE  /\ phase = "run" /\ status = st
         /\ toHost[i] \in Reply /\ toHost' \in Seq(Reply)
         /\ Accepts(st, toHost[i])
  BY ReadMatchType DEF TypeInv, ReplyAccepted, Running

LEMMA TransportLenBound ==
  ASSUME TypeInv, NEW f \in Reply, Accepts("GET_DEVICE_MAX_FRAME_LEN", f)
  PROVE  /\ TransportLen(f.size) \in Nat
         /\ FieldLen < TransportLen(f.size) /\ TransportLen(f.size) <= f.size
         /\ TransportLen(f.size) <= DataMaxLen + FieldLen
<1>1. /\ f.size \in Nat /\ f.size - FieldLen \in TransferSizeTable
      /\ f.size <= DataMaxLen + FieldLen
  BY DEF Reply, Accepts, GetFrameMaxLenReply
<1>2. args.TransferSize \in TransferSizeTable
  BY TransferSizesAssumption DEF TypeInv, TypeOK
<1>3. QED
  BY <1>1, <1>2 DEF TransportLen, TransferSizeTable, FieldLen, DataMaxLen

LEMMA HostType ==
  ASSUME TypeInv, Host
  PROVE  TypeInv'
<1> USE OvertimeAssumption
<1>0. /\ limit \in Nat /\ timeCntr \in 0..(Overtime + 1) /\ faults \in [FaultKinds -> Nat]
      /\ CheckedResult \in Results /\ result \in Results
      /\ status \in Statuses /\ CheckedStatus \in Statuses
      /\ toHost \in Seq(Reply) /\ toModule = Written(FALSE)
  BY DEF TypeInv, TypeOK, CheckedResult, CheckedStatus, Results, Statuses, Written
<1>1. CASE Idle
  <2>1. PICK cmd \in Commands, st \in {"OPEN_RADIO", "GET_DEVICE_MAX_FRAME_LEN"} :
          /\ Send(cmd, 0, 0, FALSE) /\ GoTo(st, timeCntr)
          /\ cmd # "SET_SEND_MAX_FRAME_LEN"
    BY <1>1 DEF Idle, Commands
  <2>2. timeCntr = 0
    BY <1>1 DEF Idle, Running, TypeInv, TimeInv
  <2>3. GoTo(st, 0)
    BY <2>1, <2>2
  <2>4. Advance(st, cmd, 0, 0)
    BY <2>1, <2>3 DEF Advance
  <2>5. /\ st \in Statuses \ {"IDLE"} /\ phase = "run"
        /\ limit' \in Nat /\ toHost' \in Seq(Reply) /\ UNCHANGED environment
    BY <1>0, <1>1, <2>1 DEF Idle, Running, Statuses, AwaitStatuses
  <2>6. QED
    BY <2>1, <2>4, <2>5, AdvanceType
<1>2. CASE ReplyRejected
  <2>1. PICK i \in DOMAIN toHost : ReadMatch(i)
    BY <1>2 DEF ReplyRejected
  <2>2. toHost' \in Seq(Reply)
    BY <2>1, ReadMatchType DEF TypeInv
  <2>3. /\ FailWith("PROTOCOL_FAILED") /\ UNCHANGED environment /\ phase = "run"
        /\ status \notin {"FAIL", "SUCCESS"}
    BY <1>2 DEF ReplyRejected, AwaitStatuses
  <2>4. QED
    BY <1>0, <2>2, <2>3, FailType DEF environment, Results
<1>3. CASE RadioOpened
  <2>1. PICK i \in DOMAIN toHost : ReplyAccepted("OPEN_RADIO", i)
    BY <1>3 DEF RadioOpened
  <2>2. phase = "run" /\ toHost' \in Seq(Reply)
    BY <2>1, AcceptedType
  <2>3. Advance("GET_DEVICE_MAX_FRAME_LEN", "GET_DEVICE_MAX_FRAME_LEN", 0, 0)
    BY <1>3 DEF RadioOpened
  <2>4. limit' \in Nat /\ UNCHANGED environment
    BY <1>0, <1>3 DEF RadioOpened
  <2>5. QED
    BY <2>2, <2>3, <2>4, AdvanceType DEF Statuses, AwaitStatuses, Commands
<1>4. CASE MaxFrameLenReceived
  <2>1. PICK i \in DOMAIN toHost : /\ ReplyAccepted("GET_DEVICE_MAX_FRAME_LEN", i)
                                   /\ limit' = TransportLen(toHost[i].size)
    BY <1>4 DEF MaxFrameLenReceived
  <2>2. /\ phase = "run" /\ toHost' \in Seq(Reply) /\ toHost[i] \in Reply
        /\ Accepts("GET_DEVICE_MAX_FRAME_LEN", toHost[i])
    BY <2>1, AcceptedType
  <2>3. limit' \in Nat /\ limit' >= FieldLen
    BY <2>1, <2>2, TransportLenBound DEF FieldLen
  <2>4. /\ Advance("SEND_MAX_FRAME_LEN", "SET_SEND_MAX_FRAME_LEN", 0, limit')
        /\ UNCHANGED environment
    BY <1>4 DEF MaxFrameLenReceived
  <2>5. QED
    BY <2>2, <2>3, <2>4, AdvanceType DEF Statuses, AwaitStatuses, Commands
<1>5. CASE SendMaxFrameLenConfirmed
  <2>1. PICK i \in DOMAIN toHost : ReplyAccepted("SEND_MAX_FRAME_LEN", i)
    BY <1>5 DEF SendMaxFrameLenConfirmed
  <2>2. phase = "run" /\ toHost' \in Seq(Reply)
    BY <2>1, AcceptedType
  <2>3. Advance("GET_DEVICE_INFO", "GET_DEVICE_INFO", 0, 0)
    BY <1>5 DEF SendMaxFrameLenConfirmed
  <2>4. limit' \in Nat /\ UNCHANGED environment
    BY <1>0, <1>5 DEF SendMaxFrameLenConfirmed
  <2>5. QED
    BY <2>2, <2>3, <2>4, AdvanceType DEF Statuses, AwaitStatuses, Commands
<1>6. CASE DeviceInfoReceived
  <2>1. PICK i \in DOMAIN toHost : ReplyAccepted("GET_DEVICE_INFO", i)
    BY <1>6 DEF DeviceInfoReceived
  <2>2. phase = "run" /\ toHost' \in Seq(Reply)
    BY <2>1, AcceptedType
  <2>3. Advance("REQUEST_UPGRADE", "REQUEST_UPGRADE", 0, FileInfoLen)
    BY <1>6 DEF DeviceInfoReceived
  <2>4. limit' \in Nat /\ UNCHANGED environment
    BY <1>0, <1>6 DEF DeviceInfoReceived
  <2>5. FileInfoLen \in Nat
    BY DEF FileInfoLen
  <2>6. QED
    BY <2>2, <2>3, <2>4, <2>5, AdvanceType DEF Statuses, AwaitStatuses, Commands
<1>7. CASE UpgradeAllowed
  <2>1. PICK i \in DOMAIN toHost : ReplyAccepted("REQUEST_UPGRADE", i)
    BY <1>7 DEF UpgradeAllowed
  <2>2. phase = "run" /\ toHost' \in Seq(Reply)
    BY <2>1, AcceptedType
  <2>3. PICK x \in {"SET_FAST_UPDATE_MODE", "GET_DEVICE_STATUS"} : Advance(x, x, 0, 0)
    BY <1>7 DEF UpgradeAllowed
  <2>4. limit' \in Nat /\ UNCHANGED environment
    BY <1>0, <1>7 DEF UpgradeAllowed
  <2>5. QED
    BY <2>2, <2>3, <2>4, AdvanceType DEF Statuses, AwaitStatuses, Commands
<1>8. CASE FastUpdateModeSet
  <2>1. PICK i \in DOMAIN toHost : ReplyAccepted("SET_FAST_UPDATE_MODE", i)
    BY <1>8 DEF FastUpdateModeSet
  <2>2. phase = "run" /\ toHost' \in Seq(Reply)
    BY <2>1, AcceptedType
  <2>3. Advance("GET_DEVICE_STATUS", "GET_DEVICE_STATUS", 0, 0)
    BY <1>8 DEF FastUpdateModeSet
  <2>4. limit' \in Nat /\ UNCHANGED environment
    BY <1>0, <1>8 DEF FastUpdateModeSet
  <2>5. QED
    BY <2>2, <2>3, <2>4, AdvanceType DEF Statuses, AwaitStatuses, Commands
<1>9. CASE DeviceUpdating
  <2>1. PICK i \in DOMAIN toHost : ReplyAccepted("GET_DEVICE_STATUS", i)
    BY <1>9 DEF DeviceUpdating
  <2>2. phase = "run" /\ toHost' \in Seq(Reply)
    BY <2>1, AcceptedType
  <2>3. Advance("SEND_FIRMWARE", "SEND_FIRMWARE", 0, 0)
    BY <1>9 DEF DeviceUpdating
  <2>4. limit' \in Nat /\ UNCHANGED environment
    BY <1>0, <1>9 DEF DeviceUpdating
  <2>5. QED
    BY <2>2, <2>3, <2>4, AdvanceType DEF Statuses, AwaitStatuses, Commands
<1>10. CASE SendPiece
  <2>1. PICK i \in DOMAIN toHost :
          /\ ReplyAccepted("SEND_FIRMWARE", i)
          /\ \/ FailWith("ENCODE_FAILED")
             \/ /\ Advance(CheckedStatus, "SEND_FIRMWARE", toHost[i].at, toHost[i].size)
                /\ UNCHANGED limit
    BY <1>10 DEF SendPiece
  <2>2. /\ phase = "run" /\ status = "SEND_FIRMWARE"
        /\ toHost' \in Seq(Reply) /\ toHost[i] \in Reply
    BY <2>1, AcceptedType
  <2>3. UNCHANGED environment
    BY <1>10 DEF SendPiece
  <2>4. CASE FailWith("ENCODE_FAILED")
    BY <1>0, <2>2, <2>3, <2>4, FailType DEF environment, Results
  <2>5. CASE Advance(CheckedStatus, "SEND_FIRMWARE", toHost[i].at, toHost[i].size)
             /\ UNCHANGED limit
    <3>1. CheckedStatus \in Statuses \ {"IDLE"}
      BY <1>0, <2>2 DEF CheckedStatus
    <3>2. toHost[i].at \in Nat /\ toHost[i].size \in Nat
      BY <2>2 DEF Reply
    <3>3. QED
      BY <1>0, <2>2, <2>3, <2>5, <3>1, <3>2, AdvanceType DEF Commands
  <2>6. QED
    BY <2>1, <2>4, <2>5
<1>11. CASE FileReadFailed
  <2>1. PICK i \in DOMAIN toHost, st \in {"GET_DEVICE_INFO", "SEND_FIRMWARE"} :
          /\ ReplyAccepted(st, i)
          /\ \/ UNCHANGED faults
             \/ faults' = [faults EXCEPT !["ioError"] = @ + 1]
    BY <1>11 DEF FileReadFailed
  <2>2. phase = "run" /\ status = st /\ toHost' \in Seq(Reply)
    BY <2>1, AcceptedType
  <2>3. faults' \in [FaultKinds -> Nat]
    BY <1>0, <2>1
  <2>4. FailWith("FILE_READ_FAILED") /\ UNCHANGED <<line, mod>>
    BY <1>11 DEF FileReadFailed
  <2>5. QED
    BY <2>2, <2>3, <2>4, FailType DEF Results
<1>12. CASE FirmwareSent
  <2>1. PICK i \in DOMAIN toHost : ReplyAccepted("SEND_FIRMWARE", i)
    BY <1>12 DEF FirmwareSent
  <2>2. phase = "run" /\ toHost' \in Seq(Reply)
    BY <2>1, AcceptedType
  <2>3. limit' \in Nat /\ UNCHANGED <<limit, environment>>
    BY <1>0, <1>12 DEF FirmwareSent
  <2>4. CASE Advance("REQUEST_REBOOT", "REQUEST_REBOOT", 0, 0)
    BY <2>2, <2>3, <2>4, AdvanceType DEF Statuses, AwaitStatuses, Commands
  <2>5. CASE GoTo("SUCCESS", 0) /\ UNCHANGED <<handle, gen, toModule>>
    <3>1. /\ status' = "SUCCESS" /\ result' = CheckedResult /\ timeCntr' = 1
          /\ UNCHANGED <<args, phase, returned>>
      BY <2>5 DEF GoTo
    <3>2. /\ status' \in Statuses /\ timeCntr' \in 0..(Overtime + 1)
          /\ phase' \in {"run", "sleep", "done"}
          /\ returned' \in Results \cup {"NONE"}
          /\ faults' \in [FaultKinds -> Nat] /\ result' \in Results
          /\ toModule' = Written(FALSE)
          /\ UNCHANGED <<args, requests, line, mod>>
      BY <1>0, <2>2, <2>3, <2>5, <3>1 DEF environment, requests, Statuses, TypeInv, TypeOK
    <3>3. TypeOK' /\ LengthInv'
      BY <2>2, <2>3, <3>2, QuietType
    <3>4. TimeInv'
      BY <2>2, <3>1 DEF TimeInv
    <3>5. QED
      BY <3>3, <3>4 DEF TypeInv
  <2>6. QED
    BY <1>12, <2>4, <2>5 DEF FirmwareSent
<1>13. CASE RebootConfirmed
  <2>1. PICK i \in DOMAIN toHost : ReplyAccepted("REQUEST_REBOOT", i)
    BY <1>13 DEF RebootConfirmed
  <2>2. phase = "run" /\ status = "REQUEST_REBOOT" /\ toHost' \in Seq(Reply)
    BY <2>1, AcceptedType
  <2>3. timeCntr = 1 /\ CheckedStatus = "REQUEST_REBOOT"
    BY <2>2 DEF TypeInv, TimeInv, CheckedStatus, TimedOut
  <2>4. TypeOK' /\ LengthInv'
    BY <1>0, <1>13, <2>2, QuietType
      DEF RebootConfirmed, environment, requests, TypeInv, TypeOK
  <2>5. TimeInv'
    BY <1>13, <2>2, <2>3 DEF RebootConfirmed, TimeInv, TypeInv
  <2>6. QED
    BY <2>4, <2>5 DEF TypeInv
<1>14. ASSUME NEW resent \in BOOLEAN, LeaveReboot(resent), toHost' \in Seq(Reply),
              status = "REQUEST_REBOOT", phase \in {"run", "sleep"}, phase' = "run",
              result' \in Results, timeCntr' = timeCntr + 1,
              UNCHANGED <<args, limit, returned, environment>>
       PROVE  TypeInv'
  <2>1. timeCntr = 1
    BY <1>14 DEF TypeInv, TimeInv
  <2>2. CASE args.RemoteDeviceUpdate
    <3>1. /\ Send("SET_RADIO_UPDATE_TRANSFER_MODE", 0, 0, resent)
          /\ status' = "CLOSE_RADIO"
      BY <1>14, <2>2 DEF LeaveReboot
    <3>2. "SET_RADIO_UPDATE_TRANSFER_MODE" \in Commands
      BY DEF Commands
    <3>3. /\ gen' \in Nat
          /\ handle' \in Handle
          /\ toModule' \in Seq(Request)
          /\ Announces(handle.str)'
          /\ (\A i \in DOMAIN toModule : Announces(toModule[i]))'
      BY <1>14, <3>1, <3>2, SendType DEF TypeInv
    <3>4. TypeOK'
      BY <1>14, <2>1, <3>1, <3>3 DEF TypeInv, TypeOK, environment, Statuses, AwaitStatuses
    <3>5. TimeInv'
      BY <1>14, <2>1, <3>1 DEF TimeInv
    <3>6. LengthInv'
      BY <1>14, <3>3 DEF TypeInv, LengthInv, environment
    <3>7. QED
      BY <3>4, <3>5, <3>6 DEF TypeInv
  <2>3. CASE ~args.RemoteDeviceUpdate
    <3>1. toModule' = Written(resent) /\ status' = "SUCCESS" /\ UNCHANGED <<handle, gen>>
      BY <1>14, <2>3 DEF LeaveReboot
    <3>2. /\ status' \in Statuses /\ timeCntr' \in 0..(Overtime + 1)
          /\ phase' \in {"run", "sleep", "done"} /\ returned' \in Results \cup {"NONE"}
          /\ faults' \in [FaultKinds -> Nat] /\ limit' \in Nat
          /\ UNCHANGED <<args, requests, line, mod>>
      BY <1>0, <1>14, <2>1, <3>1 DEF environment, requests, Statuses, TypeInv, TypeOK
    <3>3. TypeOK' /\ LengthInv'
      BY <1>14, <3>1, <3>2, QuietType
    <3>4. TimeInv'
      BY <1>14, <3>1 DEF TimeInv
    <3>5. QED
      BY <3>3, <3>4 DEF TypeInv
  <2>4. QED
    BY <2>2, <2>3
<1>15. CASE RebootFlushed
  <2>1. PICK n \in 0..Len(toHost) : toHost' = Unread(toHost, n)
    BY <1>15 DEF RebootFlushed
  <2>2. toHost' \in Seq(Reply)
    BY <2>1, ReadType DEF TypeInv
  <2>3. phase = "sleep" /\ status = "REQUEST_REBOOT"
    BY <1>15 DEF RebootFlushed, TypeInv, TimeInv
  <2>4. QED
    BY <1>0, <1>14, <1>15, <2>2, <2>3 DEF RebootFlushed
<1>16. CASE RebootUnanswered
  <2>1. PICK n \in 0..Len(toHost), resent \in BOOLEAN :
          ReadOther(n, resent) /\ LeaveReboot(resent)
    BY <1>16 DEF RebootUnanswered
  <2>2. toHost' \in Seq(Reply)
    BY <2>1, ReadType DEF TypeInv, ReadOther
  <2>3. phase = "run" /\ status = "REQUEST_REBOOT"
    BY <1>16 DEF RebootUnanswered, Running
  <2>4. QED
    BY <1>0, <1>14, <1>16, <2>1, <2>2, <2>3 DEF RebootUnanswered
<1>17. CASE RadioClosed
  <2>1. PICK i \in DOMAIN toHost : ReplyAccepted("CLOSE_RADIO", i)
    BY <1>17 DEF RadioClosed
  <2>2. phase = "run" /\ status = "CLOSE_RADIO" /\ toHost' \in Seq(Reply)
    BY <2>1, AcceptedType
  <2>3. timeCntr + 1 \in 0..(Overtime + 1)
    BY <1>0, <2>2 DEF TypeInv, TimeInv
  <2>4. /\ status' = "SUCCESS" /\ result' = CheckedResult /\ timeCntr' = timeCntr + 1
        /\ UNCHANGED <<args, phase, returned>>
    BY <1>17 DEF RadioClosed, GoTo
  <2>5. /\ status' \in Statuses /\ timeCntr' \in 0..(Overtime + 1)
        /\ phase' \in {"run", "sleep", "done"} /\ returned' \in Results \cup {"NONE"}
        /\ faults' \in [FaultKinds -> Nat] /\ limit' \in Nat /\ result' \in Results
        /\ toModule' = Written(FALSE)
        /\ UNCHANGED <<args, requests, line, mod>>
    BY <1>0, <1>17, <2>3, <2>4
      DEF RadioClosed, environment, requests, Statuses, TypeInv, TypeOK
  <2>6. TypeOK' /\ LengthInv'
    BY <2>2, <2>5, QuietType
  <2>7. TimeInv'
    BY <2>2, <2>4 DEF TimeInv
  <2>8. QED
    BY <2>6, <2>7 DEF TypeInv
<1>18. CASE KeepWaiting
  <2>1. PICK n \in 0..Len(toHost), resent \in BOOLEAN :
          ReadOther(n, resent) /\ toModule' = Written(resent)
    BY <1>18 DEF KeepWaiting
  <2>2. toHost' \in Seq(Reply)
    BY <2>1, ReadType DEF TypeInv, ReadOther
  <2>3. phase = "run" /\ status \in AwaitStatuses
    BY <1>18 DEF KeepWaiting
  <2>4. /\ status' = CheckedStatus /\ result' = CheckedResult /\ timeCntr' = timeCntr + 1
        /\ UNCHANGED <<args, phase, returned, limit, requests, environment>>
    BY <1>18 DEF KeepWaiting, GoTo
  <2>5. timeCntr <= Overtime /\ timeCntr + 1 \in 0..(Overtime + 1)
    BY <1>0, <2>3 DEF TypeInv, TimeInv, AwaitStatuses
  <2>6. TypeOK' /\ LengthInv'
    BY <1>0, <2>1, <2>2, <2>4, <2>5, QuietType DEF environment, TypeInv, TypeOK
  <2>7. TimeInv'
    BY <1>0, <2>3, <2>4, <2>5 DEF TimeInv, CheckedStatus, TimedOut, AwaitStatuses
  <2>8. QED
    BY <2>6, <2>7 DEF TypeInv
<1>19. ASSUME NEW value \in Results, Return(value)
       PROVE  TypeInv'
  <2>1. TypeOK' /\ LengthInv'
    BY <1>0, <1>19, QuietType DEF Return, environment, Statuses, TypeInv, TypeOK
  <2>2. TimeInv'
    BY <1>19 DEF Return, TimeInv
  <2>3. QED
    BY <2>1, <2>2 DEF TypeInv
<1>20. CASE ReturnFail
  BY <1>0, <1>19, <1>20 DEF ReturnFail, Results
<1>21. CASE ReturnSuccess
  BY <1>19, <1>21 DEF ReturnSuccess, Results
<1>22. QED
  BY <1>1, <1>2, <1>3, <1>4, <1>5, <1>6, <1>7, <1>8, <1>9, <1>10, <1>11, <1>12,
     <1>13, <1>15, <1>16, <1>17, <1>18, <1>20, <1>21 DEF Host

Ask == [at : Nat, size : Nat]

LEMMA ReplyToType ==
  ASSUME NEW r \in Request, NEW ok \in BOOLEAN, NEW ask \in Ask
  PROVE  ReplyTo(r, ok, ask) \in Reply
  BY DEF ReplyTo, Request, Reply, Ask

LEMMA PutOnLineType ==
  ASSUME TypeOK, NEW f \in Reply, PutOnLine(f)
  PROVE  line' \in Reply /\ toHost' \in Seq(Reply)
  BY AppendType DEF PutOnLine, TypeOK

(* Taking a request, or leaving it, keeps the types of what is queued. *)
LEMMA TakeType ==
  ASSUME TypeInv, toModule # << >>
  PROVE  /\ Head(toModule) \in Request /\ Announces(Head(toModule))
         /\ Tail(toModule) \in Seq(Request)
         /\ \A i \in DOMAIN Tail(toModule) : Announces(Tail(toModule)[i])
<1>1. /\ toModule \in Seq(Request) /\ Len(toModule) \in Nat
      /\ DOMAIN toModule = 1..Len(toModule)
  BY LenProperties DEF TypeInv, TypeOK
<1>2. /\ Head(toModule) \in Request /\ Head(toModule) = toModule[1]
      /\ Tail(toModule) \in Seq(Request) /\ Len(toModule) > 0
      /\ Len(Tail(toModule)) = Len(toModule) - 1
      /\ \A i \in 1..(Len(toModule) - 1) : Tail(toModule)[i] = toModule[i + 1]
  BY <1>1, TailType
<1>3. DOMAIN Tail(toModule) = 1..(Len(toModule) - 1)
  BY <1>2, LenProperties
<1>4. QED
  BY <1>1, <1>2, <1>3 DEF TypeInv, LengthInv

LEMMA ModuleStepType ==
  ASSUME TypeInv, toModule # << >>, toModule' = Tail(toModule),
         line' \in Reply, toHost' \in Seq(Reply),
         mod' \in [maxLen : Nat, sendMax : Nat, last : Reply, want : Ask,
                   image : Seq(Piece), rebooted : BOOLEAN],
         mod'.sendMax >= FieldLen,
         faults' \in [FaultKinds -> Nat], UNCHANGED <<control, requests>>
  PROVE  TypeInv'
<1>1. TypeOK'
  BY TakeType DEF TypeInv, TypeOK, control, requests, Ask
<1>2. TimeInv'
  BY DEF TypeInv, TimeInv, control, requests
<1>3. LengthInv'
  BY TakeType DEF TypeInv, LengthInv, Announces, requests
<1>4. QED
  BY <1>1, <1>2, <1>3 DEF TypeInv

LEMMA NextAskType ==
  ASSUME TypeInv, NEW r \in Request
  PROVE  NextAsk(r) \in Ask /\ ImageAfter(r) \in Seq(Piece)
<1>1. /\ mod.want.at \in Nat /\ mod.sendMax \in Nat /\ mod.sendMax >= FieldLen
      /\ mod.maxLen \in Nat /\ mod.image \in Seq(Piece) /\ r.size \in Nat /\ r.at \in Nat
  BY DEF TypeInv, TypeOK, LengthInv, Request
<1>2. NextPlace(r) \in Nat
  BY <1>1 DEF NextPlace, FileInfoLen
<1>3. ASSUME NextPlace(r) < FileSize
      PROVE  PieceSize(NextPlace(r)) \in Nat
  BY <1>1, <1>2, <1>3, FileSizeAssumption DEF PieceSize, FieldLen
<1>4. NextAsk(r) \in Ask
  <2>1. CASE r.cmd = "GET_DEVICE_MAX_FRAME_LEN"
    BY <1>1, <2>1 DEF NextAsk, Ask
  <2>2. CASE r.cmd = "SEND_FIRMWARE" /\ NextPlace(r) < FileSize
    BY <1>2, <1>3, <2>2 DEF NextAsk, Ask
  <2>3. CASE /\ r.cmd # "GET_DEVICE_MAX_FRAME_LEN"
             /\ ~(r.cmd = "SEND_FIRMWARE" /\ NextPlace(r) < FileSize)
    BY <2>3 DEF NextAsk, Ask
  <2>4. QED
    BY <2>1, <2>2, <2>3
<1>5. [place |-> mod.want.at, at |-> r.at, size |-> r.size] \in Piece
  BY <1>1 DEF Piece
<1>6. QED
  BY <1>1, <1>4, <1>5, AppendType DEF ImageAfter

LEMMA AnswerType ==
  ASSUME TypeInv, toModule # << >>, NEW ok \in BOOLEAN, NEW ask \in Ask,
         Answer(Head(toModule), ok, ask), UNCHANGED <<control, requests>>,
         faults' \in [FaultKinds -> Nat]
  PROVE  TypeInv'
<1> DEFINE r == Head(toModule)
<1>1. r \in Request /\ Announces(r)
  BY TakeType
<1>2. ReplyTo(r, ok, ask) \in Reply
  BY <1>1, ReplyToType
<1>3. toModule' = Tail(toModule) /\ PutOnLine(ReplyTo(r, ok, ask))
  BY DEF Answer
<1>4. line' \in Reply /\ toHost' \in Seq(Reply)
  BY <1>2, <1>3, PutOnLineType DEF TypeInv
<1>5. ImageAfter(r) \in Seq(Piece) /\ r.size \in Nat
  BY <1>1, NextAskType DEF Request
<1>6. /\ mod' \in [maxLen : Nat, sendMax : Nat, last : Reply, want : Ask,
                   image : Seq(Piece), rebooted : BOOLEAN]
      /\ mod'.sendMax >= FieldLen
  <2>1. mod \in [maxLen : Nat, sendMax : Nat, last : Reply, want : Ask,
                 image : Seq(Piece), rebooted : BOOLEAN]
        /\ mod.sendMax >= FieldLen
    BY DEF TypeInv, TypeOK, LengthInv, Ask
  <2>2. mod' = [mod EXCEPT
               !.last = ReplyTo(r, ok, ask),
               !.want = IF r.cmd \in {"REQUEST_UPGRADE", "SEND_FIRMWARE"} THEN ask ELSE @,
               !.image = IF ok THEN ImageAfter(r) ELSE @,
               !.sendMax = IF ok /\ r.cmd = "SET_SEND_MAX_FRAME_LEN" THEN r.size ELSE @,
               !.rebooted = @ \/ (ok /\ r.cmd = "REQUEST_REBOOT")]
    BY DEF Answer
  <2> HIDE DEF r
  <2>3. (mod.rebooted \/ (ok /\ r.cmd = "REQUEST_REBOOT")) \in BOOLEAN
    OBVIOUS
  <2>4. mod' \in [maxLen : Nat, sendMax : Nat, last : Reply, want : Ask,
                  image : Seq(Piece), rebooted : BOOLEAN]
    BY <1>2, <1>5, <2>1, <2>2, <2>3
  <2>5. mod'.sendMax >= FieldLen
    BY <1>1, <2>1, <2>2 DEF Announces
  <2>6. QED
    BY <2>4, <2>5
<1>7. QED
  BY <1>3, <1>4, <1>6, ModuleStepType

LEMMA FaultType ==
  ASSUME TypeInv, NEW k \in FaultKinds, Fault(k)
  PROVE  faults' \in [FaultKinds -> Nat]
  BY DEF Fault, TypeInv, TypeOK

LEMMA ModuleType ==
  ASSUME TypeInv, Module
  PROVE  TypeInv'
<1>1. CASE ModuleAnswers
  <2> DEFINE r == Head(toModule)
  <2>1. toModule # << >> /\ UNCHANGED <<control, requests>> /\ r \in Request
    BY <1>1, TakeType DEF ModuleAnswers
  <2>2. CASE Answer(r, TRUE, NextAsk(r)) /\ UNCHANGED faults
    <3>1. faults' \in [FaultKinds -> Nat]
      BY <2>2 DEF TypeInv, TypeOK
    <3>2. QED
      BY <2>1, <2>2, <3>1, NextAskType, AnswerType
  <2>3. CASE Answer(r, FALSE, [at |-> 0, size |-> 0]) /\ Fault("refusal")
    <3>1. faults' \in [FaultKinds -> Nat]
      BY <2>3, FaultType DEF FaultKinds
    <3>2. [at |-> 0, size |-> 0] \in Ask
      BY DEF Ask
    <3>3. QED
      BY <2>1, <2>3, <3>1, <3>2, AnswerType
  <2>4. CASE (\E ask \in WildAsks : Answer(r, TRUE, ask)) /\ Fault("wild")
    <3>1. faults' \in [FaultKinds -> Nat]
      BY <2>4, FaultType DEF FaultKinds
    <3>2. WildAsks \subseteq Ask
      BY FileSizeAssumption DEF WildAsks, Ask, TypeInv, LengthInv, TypeOK, FieldLen, FileInfoLen
    <3>3. QED
      BY <2>1, <2>4, <3>1, <3>2, AnswerType
  <2>5. QED
    BY <1>1, <2>2, <2>3, <2>4 DEF ModuleAnswers
<1>2. CASE ModuleAnswersAgain
  <2> DEFINE ask == [at |-> mod.last.at, size |-> mod.last.size]
  <2>1. toModule # << >> /\ toModule' = Tail(toModule)
        /\ PutOnLine(ReplyTo(Head(toModule), mod.last.ok, ask))
        /\ UNCHANGED <<control, requests, mod, faults>>
    BY <1>2 DEF ModuleAnswersAgain
  <2>2. mod.last.ok \in BOOLEAN /\ ask \in Ask /\ mod.last \in Reply
    BY DEF TypeInv, TypeOK, Reply, Ask
  <2>3. line' \in Reply /\ toHost' \in Seq(Reply)
    BY <2>1, <2>2, TakeType, ReplyToType, PutOnLineType DEF TypeInv
  <2>4. /\ mod' \in [maxLen : Nat, sendMax : Nat, last : Reply, want : Ask,
                     image : Seq(Piece), rebooted : BOOLEAN]
        /\ mod'.sendMax >= FieldLen /\ faults' \in [FaultKinds -> Nat]
    BY <2>1 DEF TypeInv, TypeOK, LengthInv, Ask
  <2>5. QED
    BY <2>1, <2>3, <2>4, ModuleStepType
<1>3. QED
  BY <1>1, <1>2 DEF Module

(* Steps of the line that touch only the queues, "line" and "faults". *)
LEMMA LineStepType ==
  ASSUME TypeInv, UNCHANGED <<control, requests, mod>>,
         toModule' = toModule \/ (toModule # << >> /\ toModule' = Tail(toModule)),
         toHost' \in Seq(Reply), line' \in Reply, faults' \in [FaultKinds -> Nat]
  PROVE  TypeInv'
<1>1. toModule' \in Seq(Request)
  BY TakeType DEF TypeInv, TypeOK
<1>2. TypeOK'
  BY <1>1 DEF TypeInv, TypeOK, control, requests
<1>3. TimeInv'
  BY DEF TypeInv, TimeInv, control, requests
<1>4. LengthInv'
  BY TakeType DEF TypeInv, LengthInv, Announces, requests
<1>5. QED
  BY <1>2, <1>3, <1>4 DEF TypeInv

LEMMA LineType ==
  ASSUME TypeInv, Line
  PROVE  TypeInv'
<1>0. toHost \in Seq(Reply) /\ line \in Reply
  BY DEF TypeInv, TypeOK
<1>1. CASE LoseRequest
  <2>1. faults' \in [FaultKinds -> Nat]
    BY <1>1, FaultType DEF LoseRequest, FaultKinds
  <2>2. QED
    BY <1>0, <1>1, <2>1, LineStepType DEF LoseRequest
<1>2. CASE CorruptReply
  <2>1. faults' \in [FaultKinds -> Nat]
    BY <1>2, FaultType DEF CorruptReply, FaultKinds
  <2>2. PICK i \in DOMAIN toHost : toHost' = [toHost EXCEPT ![i].crc = FALSE]
    BY <1>2 DEF CorruptReply
  <2>3. i \in 1..Len(toHost) /\ toHost[i] \in Reply
    BY <1>0, ElementOfSeq, LenProperties
  <2>4. [toHost[i] EXCEPT !.crc = FALSE] \in Reply
    BY <2>3 DEF Reply
  <2>5. toHost' = [toHost EXCEPT ![i] = [toHost[i] EXCEPT !.crc = FALSE]]
    BY <2>2
  <2>6. toHost' \in Seq(Reply)
    BY <1>0, <2>3, <2>4, <2>5, ExceptSeq
  <2>7. QED
    BY <1>0, <1>2, <2>1, <2>6, LineStepType DEF CorruptReply
<1>3. CASE DuplicateReply
  <2>1. faults' \in [FaultKinds -> Nat]
    BY <1>3, FaultType DEF DuplicateReply, FaultKinds
  <2>2. toHost' \in Seq(Reply)
    BY <1>0, <1>3, AppendType DEF DuplicateReply
  <2>3. QED
    BY <1>0, <1>3, <2>1, <2>2, LineStepType DEF DuplicateReply
<1>4. CASE ForeignFrame
  <2>1. faults' \in [FaultKinds -> Nat]
    BY <1>4, FaultType DEF ForeignFrame, FaultKinds
  <2>2. Foreign \in Reply
    BY <1>0, ModulusAssumption DEF Foreign, Reply, FrameNumbers
  <2>3. toHost' \in Seq(Reply)
    BY <1>0, <1>4, <2>2, AppendType DEF ForeignFrame
  <2>4. QED
    BY <1>0, <1>4, <2>1, <2>3, LineStepType DEF ForeignFrame
<1>5. CASE ResidualReply
  <2> DEFINE f == [ReplyTo(Head(toModule), TRUE, [at |-> 0, size |-> 0])
                     EXCEPT !.cmd = "SET_RADIO_UPDATE_TRANSFER_MODE"]
  <2>1. faults' \in [FaultKinds -> Nat]
    BY <1>5, FaultType DEF ResidualReply, FaultKinds
  <2>2. toModule # << >> /\ PutOnLine(f)
    BY <1>5 DEF ResidualReply
  <2>3. f \in Reply
    BY <2>2, TakeType DEF ReplyTo, Request, Reply, Commands
  <2>4. line' \in Reply /\ toHost' \in Seq(Reply)
    BY <2>2, <2>3, PutOnLineType DEF TypeInv
  <2>5. QED
    BY <1>5, <2>1, <2>2, <2>4, LineStepType DEF ResidualReply
<1>6. QED
  BY <1>1, <1>2, <1>3, <1>4, <1>5 DEF Line

LEMMA TypeInit == Init => TypeInv
<1> SUFFICES ASSUME Init PROVE TypeInv
  OBVIOUS
<1>1. 0 \in FrameNumbers
  BY ModulusAssumption DEF FrameNumbers
<1>2. NoFrame \in Request /\ NoReply \in Reply
  BY <1>1 DEF NoFrame, Request, NoReply, Reply
<1>3. handle \in Handle
  BY <1>1, <1>2 DEF Init, FrameInit, Handle
<1>4. FieldLen \in Nat /\ mod.maxLen \in Nat
  BY ModuleMaxLensAssumption DEF FieldLen, Init
<1>5. mod \in [maxLen : Nat, sendMax : Nat, last : Reply,
               want : [at : Nat, size : Nat], image : Seq(Piece), rebooted : BOOLEAN]
  <2>1. << >> \in Seq(Piece)
    OBVIOUS
  <2>2. [at |-> 0, size |-> 0] \in [at : Nat, size : Nat]
    OBVIOUS
  <2>3. /\ ModuleMaxLens \subseteq Nat /\ {FieldLen} \subseteq Nat
        /\ {NoReply} \subseteq Reply /\ {<< >>} \subseteq Seq(Piece)
        /\ {[at |-> 0, size |-> 0]} \subseteq [at : Nat, size : Nat]
    BY <2>1, <2>2, <1>2, <1>4, ModuleMaxLensAssumption
  <2> HIDE DEF Piece
  <2>4. mod \in [maxLen : ModuleMaxLens, sendMax : {FieldLen}, last : {NoReply},
                 want : {[at |-> 0, size |-> 0]}, image : {<< >>}, rebooted : {FALSE}]
    BY DEF Init
  <2>5. QED
    BY <2>3, <2>4
<1>a. toModule \in Seq(Request) /\ toHost \in Seq(Reply)
  BY DEF Init
<1>6. TypeOK
  BY <1>2, <1>3, <1>5, <1>a, OvertimeAssumption DEF Init, TypeOK, Statuses, Results
<1>7. TimeInv
  BY OvertimeAssumption DEF Init, TimeInv
<1>8. LengthInv
  BY <1>4 DEF Init, LengthInv, Announces, FrameInit, NoFrame
<1>9. QED
  BY <1>6, <1>7, <1>8 DEF TypeInv

LEMMA TypeNext == TypeInv /\ [Next]_vars => TypeInv'
<1> SUFFICES ASSUME TypeInv, [Next]_vars PROVE TypeInv'
  OBVIOUS
<1>1. CASE UNCHANGED vars
  BY <1>1 DEF vars, TypeInv, TypeOK, TimeInv, LengthInv, Announces
<1>2. QED
  BY <1>1, HostType, ModuleType, LineType DEF Next

LEMMA TypeInvariant == Spec => []TypeInv
<1>1. QED
  BY TypeInit, TypeNext, PTL DEF Spec

(* Every variable keeps to its range whatever the line and the module do, and
   the loop's counter never runs more than one past UPDATE_OVERTIME
   (UpgradeM7xx.c:337-716). *)
THEOREM TypeCorrect == Spec => []TypeOK
<1>1. TypeInv => TypeOK
  BY DEF TypeInv
<1>2. QED
  BY <1>1, TypeInvariant, PTL

-----------------------------------------------------------------------------
(* In the loop, with one of these statuses. *)
At(sts) == phase # "done" /\ status \in sts

(***************************************************************************)
(* What a failed call returns.  The result is never the value it starts    *)
(* with once the status is FAIL, because every place that writes the one   *)
(* writes the other, and a piece that fits the agreed length fits a frame. *)
(***************************************************************************)
Failures == {"TIMEOUT", "PROTOCOL_FAILED", "FILE_READ_FAILED"}

Named ==
  /\ result \in Failures \cup {"INTERNAL_FAILED"}
  /\ At({"FAIL"}) => result \in Failures
  /\ limit <= DataMaxLen + FieldLen
  /\ returned \in Failures \cup {"NONE", "OK"}

LEMMA NamedHost ==
  ASSUME TypeInv, Named, Host
  PROVE  Named'
<1>1. /\ CheckedResult \in Failures \cup {"INTERNAL_FAILED"}
      /\ status # "FAIL" /\ CheckedStatus = "FAIL" => CheckedResult \in Failures
  BY DEF Named, CheckedResult, CheckedStatus, Failures
<1>2. ASSUME limit' <= DataMaxLen + FieldLen, returned' = returned,
             result' \in Failures \cup {"INTERNAL_FAILED"},
             At({"FAIL"})' => result' \in Failures
      PROVE  Named'
  BY <1>2 DEF Named
<1>3. ASSUME NEW code \in Failures, FailWith(code) PROVE Named'
  BY <1>2, <1>3 DEF FailWith, Named, At
<1>4. ASSUME NEW st, NEW time, GoTo(st, time), limit' <= DataMaxLen + FieldLen,
             st # "FAIL" \/ (st = CheckedStatus /\ status # "FAIL")
      PROVE  Named'
  BY <1>1, <1>2, <1>4 DEF GoTo, At
<1>5. CASE Idle
  BY <1>4, <1>5 DEF Idle, Named
<1>6. CASE ReplyRejected \/ FileReadFailed
  BY <1>3, <1>6 DEF ReplyRejected, FileReadFailed, Failures
<1>7. CASE MaxFrameLenReceived
  <2>1. PICK i \in DOMAIN toHost : /\ ReplyAccepted("GET_DEVICE_MAX_FRAME_LEN", i)
                                   /\ limit' = TransportLen(toHost[i].size)
    BY <1>7 DEF MaxFrameLenReceived
  <2>2. limit' <= DataMaxLen + FieldLen
    BY <2>1, AcceptedType, TransportLenBound
  <2>3. QED
    BY <1>4, <1>7, <2>2 DEF MaxFrameLenReceived, Advance
<1>8. CASE RadioOpened \/ SendMaxFrameLenConfirmed \/ DeviceInfoReceived \/ UpgradeAllowed
             \/ FastUpdateModeSet \/ DeviceUpdating \/ FirmwareSent \/ RadioClosed
  BY <1>4, <1>8 DEF RadioOpened, SendMaxFrameLenConfirmed, DeviceInfoReceived,
     UpgradeAllowed, FastUpdateModeSet, DeviceUpdating, FirmwareSent, RadioClosed,
     Advance, Named
<1>9. CASE SendPiece
  <2>1. PICK i \in DOMAIN toHost :
          /\ ReplyAccepted("SEND_FIRMWARE", i)
          /\ IF TooLong(toHost[i].size) THEN FailWith("ENCODE_FAILED")
             ELSE /\ Advance(CheckedStatus, "SEND_FIRMWARE", toHost[i].at, toHost[i].size)
                  /\ UNCHANGED limit
    BY <1>9 DEF SendPiece
  <2>2. /\ toHost[i] \in Reply /\ status = "SEND_FIRMWARE"
        /\ SendSubPackageFirmwareReply(toHost[i], limit)
    BY <2>1, AcceptedType DEF Accepts
  <2>3. ~TooLong(toHost[i].size)
    <3>1. toHost[i].size \in Nat /\ limit \in Nat /\ toHost[i].size <= limit - FieldLen
      BY <2>2 DEF Reply, SendSubPackageFirmwareReply, TypeInv, TypeOK
    <3>2. limit <= DataMaxLen + FieldLen
      BY DEF Named
    <3>3. QED
      BY <3>1, <3>2 DEF TooLong, DataMaxLen, FieldLen
  <2>4. GoTo(CheckedStatus, 0) /\ limit' = limit
    BY <2>1, <2>3 DEF Advance
  <2>5. QED
    BY <1>4, <2>2, <2>4 DEF Named
<1>10. CASE RebootConfirmed
  <2>1. /\ status = "REQUEST_REBOOT" /\ status' = CheckedStatus
        /\ result' = CheckedResult /\ limit' = limit /\ returned' = returned
    BY <1>10 DEF RebootConfirmed, ReplyAccepted, Running
  <2>2. QED
    BY <1>1, <1>2, <2>1 DEF Named, At
<1>11. CASE RebootFlushed \/ RebootUnanswered
  <2>1. /\ status' # "FAIL" /\ result' \in {result, CheckedResult}
        /\ limit' = limit /\ returned' = returned
    BY <1>11 DEF RebootFlushed, RebootUnanswered, LeaveReboot
  <2>2. QED
    BY <1>1, <1>2, <2>1 DEF Named, At
<1>12. CASE KeepWaiting
  <2>1. status # "FAIL" /\ GoTo(CheckedStatus, timeCntr) /\ limit' = limit
    BY <1>12 DEF KeepWaiting, AwaitStatuses
  <2>2. QED
    BY <1>4, <2>1 DEF Named
<1>13. CASE ReturnFail \/ ReturnSuccess
  <2>1. /\ phase' = "done" /\ result' = CheckedResult /\ limit' = limit
        /\ \/ returned' = "OK"
           \/ At({"FAIL"}) /\ returned' = IF CheckedResult = "OK" THEN "STATE_FAILED"
                                                                   ELSE CheckedResult
    BY <1>13 DEF ReturnFail, ReturnSuccess, Return, Running, At
  <2>2. At({"FAIL"}) => CheckedResult \in Failures
    BY DEF Named, CheckedResult, Failures
  <2>3. returned' \in Failures \cup {"OK"}
    BY <2>1, <2>2 DEF Failures
  <2>4. QED
    BY <1>1, <2>1, <2>3 DEF Named, At, Failures
<1>14. QED
  BY <1>5, <1>6, <1>7, <1>8, <1>9, <1>10, <1>11, <1>12, <1>13 DEF Host

LEMMA NamedInit == Init => Named
  BY DEF Init, Named, At, DataMaxLen, FieldLen

LEMMA NamedNext == TypeInv /\ Named /\ [Next]_vars => Named'
<1> SUFFICES ASSUME TypeInv, Named, [Next]_vars PROVE Named'
  OBVIOUS
<1>1. CASE Host
  BY <1>1, NamedHost
<1>2. CASE Module \/ Line \/ UNCHANGED vars
  <2>1. UNCHANGED control
    BY <1>2 DEF Module, Line, ModuleAnswers, ModuleAnswersAgain, LoseRequest, CorruptReply,
       DuplicateReply, ForeignFrame, ResidualReply, vars, control
  <2>2. QED
    BY <2>1 DEF control, Named, At
<1>3. QED
  BY <1>1, <1>2 DEF Next

LEMMA NamedInvariant == Spec => []Named
<1>1. QED
  BY NamedInit, NamedNext, TypeInvariant, PTL DEF Spec

-----------------------------------------------------------------------------
(***************************************************************************)
(* The resends do not breed.  A resend follows a read that took a frame    *)
(* off the line, as the next request follows one that took its answer, and *)
(* the module puts one frame on the line for each that it takes.  Only the *)
(* reboot request is followed by another with nothing taken, and only when *)
(* the local radio has to be closed.                                       *)
(***************************************************************************)
Allowance ==
  IF At({"IDLE"}) \/ phase = "sleep" THEN 0
  ELSE IF /\ args.AutoReset /\ args.RemoteDeviceUpdate
          /\ ~At((AwaitStatuses \ {"CLOSE_RADIO"}) \cup {"REQUEST_REBOOT"})
       THEN 2 ELSE 1

Breeding ==
  /\ InFlight <= Extra + Allowance
  /\ At({"REQUEST_REBOOT"}) => args.AutoReset

LEMMA CountTypes ==
  ASSUME TypeOK
  PROVE  /\ Len(toModule) \in Nat /\ Len(toHost) \in Nat /\ InFlight \in Nat
         /\ Extra \in Nat /\ Allowance \in Nat
<1>1. Len(toModule) \in Nat /\ Len(toHost) \in Nat
  BY LenProperties DEF TypeOK
<1>2. /\ faults["duplicate"] \in Nat /\ faults["residual"] \in Nat
      /\ faults["foreign"] \in Nat
  BY DEF TypeOK, FaultKinds
<1>3. QED
  BY <1>1, <1>2 DEF InFlight, Extra, Allowance

(* What the parts of a host step do to the number of frames on the line. *)
LEMMA CountRead ==
  ASSUME TypeOK, NEW m \in 0..Len(toHost), toHost' = Unread(toHost, m)
  PROVE  Len(toHost') = Len(toHost) - m
  BY UnreadType DEF TypeOK, Unread

LEMMA CountMatch ==
  ASSUME TypeOK, NEW i \in DOMAIN toHost, ReadMatch(i)
  PROVE  Len(toHost') \in Nat /\ Len(toHost') <= Len(toHost) - 1
<1>1. i \in 1..Len(toHost) /\ Len(toHost) \in Nat
  BY LenProperties DEF TypeOK
<1>2. PICK m \in i..Len(toHost) : toHost' = Unread(toHost, m)
  BY DEF ReadMatch
<1>3. m \in 0..Len(toHost) /\ m >= 1
  BY <1>1
<1>4. Len(toHost') = Len(toHost) - m
  BY <1>2, <1>3, CountRead
<1>5. QED
  BY <1>1, <1>3, <1>4

LEMMA CountWritten ==
  ASSUME TypeOK, NEW resent \in BOOLEAN
  PROVE  Len(Written(resent)) = Len(toModule) + (IF resent THEN 1 ELSE 0)
<1>1. toModule \in Seq(Request) /\ handle.str \in Request /\ Len(toModule) \in Nat
  BY LenProperties DEF TypeOK, Handle
<1>2. QED
  BY <1>1, AppendType DEF Written

LEMMA CountSend ==
  ASSUME TypeOK, NEW cmd \in Commands, NEW at \in Nat, NEW size \in Nat,
         NEW resent \in BOOLEAN, Send(cmd, at, size, resent)
  PROVE  Len(toModule') = Len(toModule) + 1 + (IF resent THEN 1 ELSE 0)
<1>1. Written(resent) \in Seq(Request) /\ handle'.str \in Request
  <2>1. handle \in Handle /\ gen + 1 \in Nat
    BY DEF TypeOK
  <2>2. QED
    BY <2>1, EncodeType, WrittenType DEF Send
<1>2. Len(toModule') = Len(Written(resent)) + 1
  BY <1>1, AppendType DEF Send
<1>3. Len(toModule) \in Nat
  BY CountTypes
<1>4. QED
  BY <1>2, <1>3, CountWritten

LEMMA CountOther ==
  ASSUME TypeOK, NEW m \in 0..Len(toHost), NEW resent \in BOOLEAN, ReadOther(m, resent)
  PROVE  /\ Len(toHost') \in Nat
         /\ Len(toHost') + (IF resent THEN 1 ELSE 0) <= Len(toHost)
<1>1. toHost' = Unread(toHost, m) /\ (resent => m >= 1)
  BY DEF ReadOther
<1>2. Len(toHost') = Len(toHost) - m /\ Len(toHost) \in Nat
  BY <1>1, CountRead, CountTypes
<1>3. QED
  BY <1>1, <1>2

LEMMA CountFault ==
  ASSUME TypeOK, NEW k \in FaultKinds, faults' = [faults EXCEPT ![k] = @ + 1]
  PROVE  Extra' = Extra + (IF k \in {"duplicate", "residual", "foreign"} THEN 1 ELSE 0)
<1>1. /\ faults' = [j \in FaultKinds |-> IF j = k THEN faults[j] + 1 ELSE faults[j]]
      /\ \A j \in FaultKinds : faults[j] \in Nat
  BY DEF TypeOK
<1>2. {"duplicate", "residual", "foreign"} \subseteq FaultKinds
  BY DEF FaultKinds
<1>3. QED
  BY <1>1, <1>2 DEF Extra

(* An answer is taken and the next request sent. *)
LEMMA AdvanceBreeding ==
  ASSUME TypeOK, Breeding, phase = "run", status # "IDLE",
         NEW i \in DOMAIN toHost, ReadMatch(i),
         NEW st \in Statuses \ {"IDLE"}, NEW cmd \in Commands,
         NEW at \in Nat, NEW size \in Nat, Advance(st, cmd, at, size),
         status \in AwaitStatuses \ {"CLOSE_RADIO"}, faults' = faults,
         st = "REQUEST_REBOOT" => args.AutoReset
  PROVE  Breeding'
<1>1. /\ Send(cmd, at, size, FALSE) /\ status' = st /\ phase' = "run" /\ args' = args
  BY DEF Advance, GoTo
<1>2. /\ Len(toHost') <= Len(toHost) - 1 /\ Len(toHost') \in Nat
      /\ Len(toModule') = Len(toModule) + 1
      /\ Len(toHost) \in Nat /\ Len(toModule) \in Nat /\ Extra \in Nat
  <2>1. Len(toHost') <= Len(toHost) - 1 /\ Len(toHost') \in Nat
    BY CountMatch
  <2>2. Len(toHost) \in Nat /\ Len(toModule) \in Nat /\ Extra \in Nat
    BY CountTypes
  <2>3. Len(toModule') = Len(toModule) + 1 + (IF FALSE THEN 1 ELSE 0)
    BY <1>1, CountSend
  <2>4. QED
    BY <2>1, <2>2, <2>3
<1>3. Extra' = Extra
  BY DEF Extra
<1>4. Allowance = 1 /\ Allowance' \in {1, 2}
  BY <1>1 DEF Allowance, At, AwaitStatuses
<1>5. InFlight' <= Extra' + Allowance'
  BY <1>2, <1>3, <1>4 DEF Breeding, InFlight
<1>6. QED
  BY <1>1, <1>5 DEF Breeding, At

LEMMA OneLess ==
  ASSUME NEW n \in Nat, NEW m \in Nat, m <= n - 1, NEW a \in Nat, NEW b \in Nat,
         a <= b + 1, NEW extra \in Nat, n <= extra + a
  PROVE  m <= extra + b
  OBVIOUS

(* An answer is taken and nothing sent. *)
LEMMA TakenBreeding ==
  ASSUME TypeOK, Breeding, phase = "run", NEW i \in DOMAIN toHost, ReadMatch(i),
         status \in AwaitStatuses \cup {"REQUEST_REBOOT"},
         phase' \in {"run", "sleep"}, UNCHANGED <<args, toModule>>,
         phase' = "run" => status' \in {"FAIL", "SUCCESS"},
         phase' = "sleep" => status = "REQUEST_REBOOT" /\ status' \in {status, "FAIL"},
         Extra' = Extra
  PROVE  Breeding'
<1>1. /\ Len(toHost') <= Len(toHost) - 1 /\ Len(toHost') \in Nat
      /\ toModule' = toModule
      /\ Len(toHost) \in Nat /\ Len(toModule) \in Nat /\ Extra \in Nat
  BY CountMatch, CountTypes
<1>2. Allowance \in Nat /\ Allowance' \in Nat /\ Allowance <= Allowance' + 1
  <2>1. CASE phase' = "sleep"
    BY <2>1 DEF Allowance, At, AwaitStatuses
  <2>2. CASE phase' = "run"
    <3>1. ~At({"IDLE"})' /\ ~At((AwaitStatuses \ {"CLOSE_RADIO"}) \cup {"REQUEST_REBOOT"})'
      BY <2>2 DEF At, AwaitStatuses
    <3>2. Allowance' = IF args.AutoReset /\ args.RemoteDeviceUpdate THEN 2 ELSE 1
      BY <2>2, <3>1 DEF Allowance
    <3>3. QED
      BY <3>2 DEF Allowance
  <2>3. QED
    BY <2>1, <2>2
<1>3. InFlight' <= Extra' + Allowance'
  <2>1. InFlight' <= InFlight - 1 /\ InFlight' \in Nat /\ InFlight \in Nat
    BY <1>1 DEF InFlight
  <2>2. InFlight <= Extra + Allowance /\ Extra' = Extra
    BY DEF Breeding
  <2>3. QED
    BY <1>1, <1>2, <2>1, <2>2, OneLess
<1>4. QED
  BY <1>3 DEF Breeding, At

(* The reboot request is not waited for. *)
LEMMA RebootBreeding ==
  ASSUME TypeOK, Breeding, phase # "done", status = "REQUEST_REBOOT", phase' = "run",
         NEW resent \in BOOLEAN, LeaveReboot(resent), resent => phase = "run",
         UNCHANGED <<args, faults>>,
         Len(toHost') \in Nat,
         Len(toHost') + (IF resent THEN 1 ELSE 0) <= Len(toHost)
  PROVE  Breeding'
<1>1. /\ Len(toHost) \in Nat /\ Len(toModule) \in Nat /\ Extra \in Nat /\ Extra' = Extra
  BY CountTypes DEF Extra
<1>2. args.AutoReset /\ Allowance \in {0, 1}
  BY DEF Breeding, At, Allowance
<1>3. CASE args.RemoteDeviceUpdate
  <2>1. Send("SET_RADIO_UPDATE_TRANSFER_MODE", 0, 0, resent) /\ status' = "CLOSE_RADIO"
    BY <1>3 DEF LeaveReboot
  <2>2. Len(toModule') = Len(toModule) + 1 + (IF resent THEN 1 ELSE 0)
    BY <2>1, CountSend DEF Commands
  <2>3. Allowance' = 2
    BY <1>2, <1>3, <2>1 DEF Allowance, At, AwaitStatuses
  <2>4. InFlight' <= Extra' + Allowance'
    BY <1>1, <1>2, <2>2, <2>3 DEF Breeding, InFlight
  <2>5. QED
    BY <2>1, <2>4 DEF Breeding, At
<1>4. CASE ~args.RemoteDeviceUpdate
  <2>1. toModule' = Written(resent) /\ status' = "SUCCESS"
    BY <1>4 DEF LeaveReboot
  <2>2. Len(toModule') = Len(toModule) + (IF resent THEN 1 ELSE 0)
    BY <2>1, CountWritten
  <2>3. Allowance' = 1
    BY <1>4, <2>1 DEF Allowance, At, AwaitStatuses
  <2>4. InFlight' <= Extra' + Allowance'
    BY <1>1, <1>2, <2>2, <2>3 DEF Breeding, InFlight
  <2>5. QED
    BY <2>1, <2>4 DEF Breeding, At
<1>5. QED
  BY <1>3, <1>4

LEMMA HostBreeding ==
  ASSUME TypeInv, Breeding, Host
  PROVE  Breeding'
<1>0. /\ TypeOK /\ Len(toHost) \in Nat /\ Len(toModule) \in Nat /\ Extra \in Nat
      /\ InFlight \in Nat /\ Allowance \in Nat
  BY CountTypes DEF TypeInv
<1>1. CASE Idle
  <2>1. PICK cmd \in {"SET_RADIO_UPDATE_TRANSFER_MODE", "GET_DEVICE_MAX_FRAME_LEN"} :
          Send(cmd, 0, 0, FALSE)
    BY <1>1 DEF Idle
  <2>2. /\ phase = "run" /\ status = "IDLE" /\ phase' = "run" /\ args' = args
        /\ status' \in {"OPEN_RADIO", "GET_DEVICE_MAX_FRAME_LEN"}
        /\ toHost' = toHost /\ Extra' = Extra
    BY <1>1 DEF Idle, Running, GoTo, environment, Extra
  <2>3. Len(toModule') = Len(toModule) + 1 + (IF FALSE THEN 1 ELSE 0)
    BY <1>0, <2>1, CountSend DEF Commands
  <2>4. Allowance = 0 /\ Allowance' = 1
    BY <2>2 DEF Allowance, At, AwaitStatuses
  <2>5. InFlight' <= Extra' + Allowance'
    BY <1>0, <2>2, <2>3, <2>4 DEF Breeding, InFlight
  <2>6. QED
    BY <2>2, <2>5 DEF Breeding, At
<1>2. CASE ReplyRejected \/ FileReadFailed
  <2>1. PICK i \in DOMAIN toHost : ReadMatch(i)
    BY <1>2 DEF ReplyRejected, FileReadFailed, ReplyAccepted
  <2>2. /\ phase = "run" /\ status \in AwaitStatuses \cup {"REQUEST_REBOOT"}
        /\ phase' = "run" /\ status' = "FAIL" /\ UNCHANGED <<args, toModule>>
    BY <1>2 DEF ReplyRejected, FileReadFailed, ReplyAccepted, Running, FailWith, AwaitStatuses
  <2>3. Extra' = Extra
    <3>1. faults' = faults \/ faults' = [faults EXCEPT !["ioError"] = @ + 1]
      BY <1>2 DEF ReplyRejected, FileReadFailed, environment
    <3>2. CASE faults' = [faults EXCEPT !["ioError"] = @ + 1]
      <4>1. Extra' = Extra + (IF "ioError" \in {"duplicate", "residual", "foreign"} THEN 1 ELSE 0)
        BY <1>0, <3>2, CountFault DEF FaultKinds
      <4>2. QED
        BY <1>0, <4>1
    <3>3. QED
      BY <3>1, <3>2 DEF Extra
  <2>4. QED
    BY <1>0, <2>1, <2>2, <2>3, TakenBreeding
<1>3. ASSUME NEW from \in AwaitStatuses \ {"CLOSE_RADIO"},
             NEW i \in DOMAIN toHost, ReplyAccepted(from, i),
             NEW st \in Statuses \ {"IDLE"}, NEW cmd \in Commands,
             NEW at \in Nat, NEW size \in Nat, Advance(st, cmd, at, size),
             st = "REQUEST_REBOOT" => args.AutoReset, UNCHANGED environment
      PROVE  Breeding'
  BY <1>0, <1>3, AdvanceBreeding DEF ReplyAccepted, Running, AwaitStatuses, environment
<1>4. CASE RadioOpened
  BY <1>3, <1>4 DEF RadioOpened, Statuses, AwaitStatuses, Commands
<1>5. CASE MaxFrameLenReceived
  <2>1. limit' \in Nat
    <3>1. PICK i \in DOMAIN toHost : /\ ReplyAccepted("GET_DEVICE_MAX_FRAME_LEN", i)
                                     /\ limit' = TransportLen(toHost[i].size)
      BY <1>5 DEF MaxFrameLenReceived
    <3>2. QED
      BY <3>1, AcceptedType, TransportLenBound
  <2>2. QED
    BY <1>3, <1>5, <2>1 DEF MaxFrameLenReceived, Statuses, AwaitStatuses, Commands
<1>6. CASE SendMaxFrameLenConfirmed
  BY <1>3, <1>6 DEF SendMaxFrameLenConfirmed, Statuses, AwaitStatuses, Commands
<1>7. CASE DeviceInfoReceived
  BY <1>3, <1>7 DEF DeviceInfoReceived, Statuses, AwaitStatuses, Commands, FileInfoLen
<1>8. CASE UpgradeAllowed
  BY <1>3, <1>8 DEF UpgradeAllowed, Statuses, AwaitStatuses, Commands
<1>9. CASE FastUpdateModeSet
  BY <1>3, <1>9 DEF FastUpdateModeSet, Statuses, AwaitStatuses, Commands
<1>10. CASE DeviceUpdating
  BY <1>3, <1>10 DEF DeviceUpdating, Statuses, AwaitStatuses, Commands
<1>11. CASE SendPiece
  <2>1. PICK i \in DOMAIN toHost :
          /\ ReplyAccepted("SEND_FIRMWARE", i)
          /\ \/ FailWith("ENCODE_FAILED")
             \/ Advance(CheckedStatus, "SEND_FIRMWARE", toHost[i].at, toHost[i].size)
          /\ UNCHANGED environment
    BY <1>11 DEF SendPiece
  <2>2. /\ ReadMatch(i) /\ phase = "run" /\ status = "SEND_FIRMWARE"
        /\ toHost[i].at \in Nat /\ toHost[i].size \in Nat
    BY <2>1, AcceptedType DEF ReplyAccepted, Reply
  <2>3. CASE FailWith("ENCODE_FAILED")
    <3>1. Extra' = Extra
      BY <2>1 DEF environment, Extra
    <3>2. QED
      BY <1>0, <2>2, <2>3, <3>1, TakenBreeding DEF FailWith, AwaitStatuses
  <2>4. CASE Advance(CheckedStatus, "SEND_FIRMWARE", toHost[i].at, toHost[i].size)
    <3>1. CheckedStatus \in {"SEND_FIRMWARE", "FAIL"}
      BY <2>2 DEF CheckedStatus
    <3>2. QED
      BY <1>3, <2>1, <2>2, <2>4, <3>1 DEF Statuses, AwaitStatuses, Commands
  <2>5. QED
    BY <2>1, <2>3, <2>4
<1>12. CASE FirmwareSent
  <2>1. PICK i \in DOMAIN toHost : ReplyAccepted("SEND_FIRMWARE", i)
    BY <1>12 DEF FirmwareSent
  <2>2. CASE args.AutoReset
    BY <1>3, <1>12, <2>1, <2>2 DEF FirmwareSent, Statuses, AwaitStatuses, Commands
  <2>3. CASE ~args.AutoReset
    <3>1. /\ ReadMatch(i) /\ phase = "run" /\ status = "SEND_FIRMWARE"
          /\ phase' = "run" /\ status' = "SUCCESS" /\ UNCHANGED <<args, toModule>>
          /\ Extra' = Extra
      BY <1>12, <2>1, <2>3
         DEF FirmwareSent, ReplyAccepted, Running, GoTo, environment, Extra
    <3>2. QED
      BY <1>0, <3>1, TakenBreeding DEF AwaitStatuses
  <2>4. QED
    BY <2>2, <2>3
<1>13. CASE RebootConfirmed \/ RadioClosed
  <2>1. PICK i \in DOMAIN toHost : ReadMatch(i)
    BY <1>13 DEF RebootConfirmed, RadioClosed, ReplyAccepted
  <2>2. /\ phase = "run" /\ status \in {"REQUEST_REBOOT", "CLOSE_RADIO"}
        /\ UNCHANGED <<args, toModule>> /\ Extra' = Extra
        /\ \/ /\ phase' = "sleep" /\ status = "REQUEST_REBOOT"
              /\ status' \in {status, "FAIL"}
           \/ phase' = "run" /\ status' = "SUCCESS"
    BY <1>13 DEF RebootConfirmed, RadioClosed, ReplyAccepted, Running, GoTo, CheckedStatus,
       requests, environment, Extra
  <2>3. QED
    BY <1>0, <2>1, <2>2, TakenBreeding DEF AwaitStatuses
<1>14. CASE RebootFlushed
  <2>1. PICK m \in 0..Len(toHost) : toHost' = Unread(toHost, m)
    BY <1>14 DEF RebootFlushed
  <2>2. Len(toHost') = Len(toHost) - m
    BY <1>0, <2>1, CountRead
  <2>3. /\ phase = "sleep" /\ phase' = "run" /\ LeaveReboot(FALSE)
        /\ UNCHANGED <<args, faults>> /\ status = "REQUEST_REBOOT"
    BY <1>14 DEF RebootFlushed, environment, TypeInv, TimeInv
  <2>4. Len(toHost') \in Nat /\ Len(toHost') + (IF FALSE THEN 1 ELSE 0) <= Len(toHost)
    BY <1>0, <2>2
  <2>5. QED
    BY <1>0, <2>3, <2>4, RebootBreeding
<1>15. CASE RebootUnanswered
  <2>1. PICK m \in 0..Len(toHost), resent \in BOOLEAN :
          ReadOther(m, resent) /\ LeaveReboot(resent)
    BY <1>15 DEF RebootUnanswered
  <2>2. /\ Len(toHost') \in Nat
        /\ Len(toHost') + (IF resent THEN 1 ELSE 0) <= Len(toHost)
    BY <1>0, <2>1, CountOther
  <2>3. /\ phase = "run" /\ phase' = "run" /\ status = "REQUEST_REBOOT"
        /\ UNCHANGED <<args, faults>>
    BY <1>15 DEF RebootUnanswered, Running, environment
  <2>4. QED
    BY <1>0, <2>1, <2>2, <2>3, RebootBreeding
<1>16. CASE KeepWaiting
  <2>1. PICK m \in 0..Len(toHost), resent \in BOOLEAN :
          ReadOther(m, resent) /\ toModule' = Written(resent)
    BY <1>16 DEF KeepWaiting
  <2>2. /\ Len(toHost') \in Nat
        /\ Len(toHost') + (IF resent THEN 1 ELSE 0) <= Len(toHost)
    BY <1>0, <2>1, CountOther
  <2>3. Len(toModule') = Len(toModule) + (IF resent THEN 1 ELSE 0)
    BY <1>0, <2>1, CountWritten
  <2>4. InFlight' <= InFlight /\ InFlight' \in Nat
    BY <1>0, <2>2, <2>3 DEF InFlight
  <2>5. /\ phase = "run" /\ phase' = "run" /\ status \in AwaitStatuses
        /\ status' \in {status, "FAIL"} /\ args' = args /\ Extra' = Extra
    BY <1>16 DEF KeepWaiting, GoTo, CheckedStatus, environment, Extra
  <2>6. Allowance' = Allowance \/ (Allowance = 1 /\ Allowance' = 2)
    BY <2>5 DEF Allowance, At, AwaitStatuses
  <2>7. InFlight' <= Extra' + Allowance'
    BY <1>0, <2>4, <2>5, <2>6 DEF Breeding
  <2>8. QED
    BY <2>5, <2>7 DEF Breeding, At, AwaitStatuses
<1>17. CASE ReturnFail \/ ReturnSuccess
  <2>1. /\ phase = "run" /\ phase' = "done" /\ status \in {"FAIL", "SUCCESS"}
        /\ args' = args /\ InFlight' = InFlight /\ Extra' = Extra
    BY <1>17 DEF ReturnFail, ReturnSuccess, Return, Running, environment, InFlight, Extra
  <2>2. Allowance' = Allowance
    BY <2>1 DEF Allowance, At, AwaitStatuses
  <2>3. QED
    BY <2>1, <2>2 DEF Breeding, At
<1>18. QED
  BY <1>1, <1>2, <1>4, <1>5, <1>6, <1>7, <1>8, <1>9, <1>10, <1>11, <1>12, <1>13, <1>14,
     <1>15, <1>16, <1>17 DEF Host

LEMMA OutsideBreeding ==
  ASSUME TypeInv, Breeding, Module \/ Line
  PROVE  Breeding'
<1>1. /\ TypeOK /\ UNCHANGED control
      /\ toModule \in Seq(Request) /\ toHost \in Seq(Reply)
      /\ Len(toHost) \in Nat /\ Len(toModule) \in Nat /\ Extra \in Nat /\ Allowance \in Nat
  BY CountTypes DEF TypeInv, TypeOK, Module, Line, ModuleAnswers, ModuleAnswersAgain,
     LoseRequest, CorruptReply, DuplicateReply, ForeignFrame, ResidualReply
<1>2. Allowance' = Allowance /\ (At({"REQUEST_REBOOT"})' => args'.AutoReset)
  BY <1>1 DEF control, Allowance, At, Breeding
<1>3. TypeInv'
  BY ModuleType, LineType
<1>4. toHost' \in Seq(Reply) /\ line' \in Reply /\ line \in Reply
  BY <1>1, <1>3 DEF TypeInv, TypeOK
<1>5. toModule # << >> => Len(Tail(toModule)) = Len(toModule) - 1
  BY <1>1, TailType
<1>6. ASSUME NEW f \in Reply PROVE Len(Append(toHost, f)) = Len(toHost) + 1
  BY <1>1, AppendType
<1>7. ASSUME NEW k \in FaultKinds, Fault(k)
      PROVE  Extra' = Extra + (IF k \in {"duplicate", "residual", "foreign"} THEN 1 ELSE 0)
  BY <1>1, <1>7, CountFault DEF Fault
<1>8. InFlight' <= InFlight + (Extra' - Extra) /\ Extra' \in Nat
  <2>1. CASE Module
    <3>1. /\ toModule # << >> /\ toModule' = Tail(toModule)
          /\ toHost' = Append(toHost, line')
      BY <2>1 DEF Module, ModuleAnswers, ModuleAnswersAgain, Answer, PutOnLine
    <3>2. InFlight' = InFlight
      BY <1>1, <1>4, <1>5, <1>6, <3>1 DEF InFlight
    <3>3. \/ faults' = faults
          \/ \E k \in {"refusal", "wild"} : Fault(k)
      BY <2>1 DEF Module, ModuleAnswers, ModuleAnswersAgain
    <3>4. Extra' = Extra
      <4>1. CASE faults' = faults
        BY <4>1 DEF Extra
      <4>2. CASE \E k \in {"refusal", "wild"} : Fault(k)
        <5>1. PICK k \in {"refusal", "wild"} : Fault(k)
          BY <4>2
        <5>2. Extra' = Extra + (IF k \in {"duplicate", "residual", "foreign"} THEN 1 ELSE 0)
          BY <1>7, <5>1 DEF FaultKinds
        <5>3. QED
          BY <1>1, <5>2
      <4>3. QED
        BY <3>3, <4>1, <4>2
    <3>5. QED
      BY <1>1, <3>2, <3>4 DEF InFlight
  <2>2. CASE LoseRequest
    <3>1. /\ toModule # << >> /\ toModule' = Tail(toModule) /\ toHost' = toHost
          /\ Fault("lost")
      BY <2>2 DEF LoseRequest
    <3>2. Extra' = Extra + (IF "lost" \in {"duplicate", "residual", "foreign"} THEN 1 ELSE 0)
      BY <1>7, <3>1 DEF FaultKinds
    <3>3. QED
      BY <1>1, <1>5, <3>1, <3>2 DEF InFlight
  <2>3. CASE CorruptReply
    <3>1. /\ toModule' = toModule /\ Fault("corrupt")
          /\ \E i \in DOMAIN toHost : toHost' = [toHost EXCEPT ![i].crc = FALSE]
      BY <2>3 DEF CorruptReply
    <3>2. Len(toHost') = Len(toHost)
      <4>1. DOMAIN toHost' = DOMAIN toHost
        BY <3>1
      <4>2. QED
        BY <1>1, <1>4, <4>1, LenProperties
    <3>3. Extra' = Extra + (IF "corrupt" \in {"duplicate", "residual", "foreign"} THEN 1 ELSE 0)
      BY <1>7, <3>1 DEF FaultKinds
    <3>4. QED
      BY <1>1, <3>1, <3>2, <3>3 DEF InFlight
  <2>4. CASE DuplicateReply \/ ForeignFrame
    <3>1. /\ toModule' = toModule
          /\ \/ Fault("duplicate") /\ toHost' = Append(toHost, line)
             \/ Fault("foreign") /\ toHost' = Append(toHost, Foreign)
      BY <2>4 DEF DuplicateReply, ForeignFrame
    <3>2. Foreign \in Reply
      BY <1>4, ModulusAssumption DEF Foreign, Reply, FrameNumbers
    <3>3. Len(toHost') = Len(toHost) + 1
      BY <1>4, <1>6, <3>1, <3>2
    <3>4. Extra' = Extra + 1
      <4>1. PICK k \in {"duplicate", "foreign"} : Fault(k)
        BY <3>1
      <4>2. Extra' = Extra + (IF k \in {"duplicate", "residual", "foreign"} THEN 1 ELSE 0)
        BY <1>7, <4>1 DEF FaultKinds
      <4>3. QED
        BY <1>1, <4>2
    <3>5. QED
      BY <1>1, <3>1, <3>3, <3>4 DEF InFlight
  <2>5. CASE ResidualReply
    <3>1. /\ toModule # << >> /\ toModule' \in {toModule, Tail(toModule)}
          /\ toHost' = Append(toHost, line') /\ Fault("residual")
      BY <2>5 DEF ResidualReply, PutOnLine
    <3>2. Extra' = Extra + (IF "residual" \in {"duplicate", "residual", "foreign"} THEN 1 ELSE 0)
      BY <1>7, <3>1 DEF FaultKinds
    <3>3. /\ Len(toHost') = Len(toHost) + 1 /\ Len(toModule') <= Len(toModule)
          /\ Len(toModule') \in Nat
      <4>1. Len(toHost') = Len(toHost) + 1
        BY <1>4, <1>6, <3>1
      <4>2. toModule' \in Seq(Request)
        BY <1>3 DEF TypeInv, TypeOK
      <4>3. QED
        BY <1>1, <1>5, <3>1, <4>1, <4>2, LenProperties
    <3>4. QED
      BY <1>1, <3>2, <3>3 DEF InFlight
  <2>6. QED
    BY <2>1, <2>2, <2>3, <2>4, <2>5 DEF Line
<1>9. InFlight' <= Extra' + Allowance'
  <2>1. InFlight <= Extra + Allowance /\ InFlight \in Nat
    BY <1>1 DEF Breeding, InFlight
  <2>2. InFlight' \in Nat
    <3>1. TypeOK'
      BY <1>3 DEF TypeInv
    <3>2. QED
      BY <3>1, LenProperties DEF TypeOK, InFlight
  <2>3. ASSUME NEW n \in Nat, NEW m \in Nat, NEW e \in Nat, NEW f \in Nat, NEW a \in Nat,
               n <= e + a, m <= n + (f - e)
        PROVE  m <= f + a
    BY <2>3
  <2>4. QED
    BY <1>1, <1>2, <1>8, <2>1, <2>2, <2>3
<1>10. QED
  BY <1>2, <1>9 DEF Breeding

LEMMA BreedingInit == Init => Breeding
<1> SUFFICES ASSUME Init PROVE Breeding
  OBVIOUS
<1>1. TypeOK
  BY TypeInit DEF TypeInv
<1>2. Extra \in Nat /\ Allowance \in Nat
  BY <1>1, CountTypes
<1>3. Len(toModule) = 0 /\ Len(toHost) = 0
  BY DEF Init
<1>4. QED
  BY <1>2, <1>3 DEF Breeding, InFlight, Init, At

LEMMA BreedingNext == TypeInv /\ Breeding /\ [Next]_vars => Breeding'
<1> SUFFICES ASSUME TypeInv, Breeding, [Next]_vars PROVE Breeding'
  OBVIOUS
<1>1. CASE UNCHANGED vars
  BY <1>1 DEF vars, Breeding, InFlight, Extra, Allowance, At
<1>2. QED
  BY <1>1, HostBreeding, OutsideBreeding DEF Next

(* The resends of the host do not breed, however long the exchange lasts: every
   frame on the line is the one request being answered, or is owed to a
   repeated, residual or foreign frame, or to the reboot request that is not
   waited for (UpgradeM7xx.c:136-170, 599-627). *)
THEOREM ResendsDoNotBreed == Spec => []NoBreeding
<1>1. TypeInv /\ Breeding => NoBreeding
  <2> SUFFICES ASSUME TypeInv, Breeding PROVE NoBreeding
    OBVIOUS
  <2>1. InFlight \in Nat /\ Extra \in Nat /\ InFlight <= Extra + Allowance
    BY CountTypes DEF TypeInv, Breeding
  <2>2. QED
    BY <2>1 DEF NoBreeding, Allowance
<1>2. QED
  BY <1>1, BreedingInit, BreedingNext, TypeInvariant, PTL DEF Spec

-----------------------------------------------------------------------------
(* FreshReply.
   A frame number has at least three values, so it tells the pending request
   from an older one as long as no frame on the line is more than two requests
   old.  Two is the bound because a request is sent only when the answer to the
   one before it has been taken, and everything behind that answer is as young
   as it is: the line keeps the order.  The one exception is the reboot
   request, whose answer is not waited for; the request sent after it is the
   last one. *)

(* The number of a frame f when request g is pending and has number n. *)
NumberOf(f, g, n) ==
  /\ f.gen = g => f.num = n
  /\ f.gen + 1 = g => (f.num + 1) % Modulus = n
  /\ f.gen + 2 = g => (((f.num + 1) % Modulus) + 1) % Modulus = n

(* Frames towards the host (th), requests towards the module (tm), the last
   reply (ln), the ordinal of the pending request (g) and its number (n). *)
Numbered(th, tm, ln, g, n) ==
  /\ \A i \in DOMAIN th : th[i].reply => NumberOf(th[i], g, n)
  /\ \A i \in DOMAIN tm : NumberOf(tm[i], g, n)
  /\ ln.reply => NumberOf(ln, g, n)

(* The frames of s are in the order of the requests they belong to. *)
Rising(s) == \A i, j \in DOMAIN s : i <= j => s[i].gen <= s[j].gen

Ordered(th, tm, ln, g) ==
  /\ Rising(th)
  /\ \A i \in DOMAIN th : th[i].gen <= ln.gen
  /\ ln.gen <= g
  /\ \A i \in DOMAIN tm : ln.gen <= tm[i].gen /\ tm[i].gen <= g
  /\ Rising(tm)

Within(th, tm, ln, g, k) ==
  /\ \A i \in DOMAIN th : th[i].reply => g <= th[i].gen + k
  /\ \A i \in DOMAIN tm : g <= tm[i].gen + k
  /\ ln.reply => g <= ln.gen + k

Traffic(th, tm, ln, g, n, k) ==
  /\ Numbered(th, tm, ln, g, n)
  /\ Ordered(th, tm, ln, g)
  /\ Within(th, tm, ln, g, k)

(* How many requests old a frame can be; none is there before the first. *)
Lag == IF phase = "sleep" \/ (phase = "run" /\ status = "IDLE") THEN 0
       ELSE IF phase = "done" \/ status \in {"CLOSE_RADIO", "SUCCESS", "FAIL"} THEN 2
       ELSE 1

FreshInv ==
  /\ Cached(handle) => handle.str.gen = gen /\ handle.str.num = handle.sendNum
  /\ Traffic(toHost, toModule, line, gen, handle.sendNum, Lag)
-----------------------------------------------------------------------------
(* What each event on the line does to the traffic. *)

LEMMA GenType ==
  /\ \A f \in Reply : f.gen \in Nat
  /\ \A r \in Request : r.gen \in Nat
  /\ \A th \in Seq(Reply) : \A j \in DOMAIN th : th[j].gen \in Nat
  /\ \A tm \in Seq(Request) : \A j \in DOMAIN tm : tm[j].gen \in Nat
<1>1. /\ \A f \in Reply : f.gen \in Nat
      /\ \A r \in Request : r.gen \in Nat
  BY DEF Reply, Request
<1>2. ASSUME NEW th \in Seq(Reply), NEW j \in DOMAIN th
      PROVE  th[j].gen \in Nat
  <2>1. th[j] \in Reply
    BY ElementOfSeq, LenProperties
  <2>2. QED
    BY <1>1, <2>1
<1>3. ASSUME NEW tm \in Seq(Request), NEW j \in DOMAIN tm
      PROVE  tm[j].gen \in Nat
  <2>1. tm[j] \in Request
    BY ElementOfSeq, LenProperties
  <2>2. QED
    BY <1>1, <2>1
<1>4. QED
  BY <1>1, <1>2, <1>3

LEMMA RisingAppend ==
  ASSUME NEW s, NEW t, NEW n \in Nat, DOMAIN s = 1..n, DOMAIN t = 1..(n + 1),
         \A i \in DOMAIN s : t[i] = s[i],
         t[n + 1].gen \in Nat,
         \A i \in DOMAIN s : s[i].gen <= t[n + 1].gen,
         Rising(s)
  PROVE  Rising(t)
<1> SUFFICES ASSUME NEW i \in DOMAIN t, NEW j \in DOMAIN t, i <= j
             PROVE  t[i].gen <= t[j].gen
  BY DEF Rising
<1>1. CASE j \in DOMAIN s
  <2>1. i \in DOMAIN s
    BY <1>1
  <2>2. QED
    BY <1>1, <2>1 DEF Rising
<1>2. CASE j = n + 1 /\ i \in DOMAIN s
  BY <1>2
<1>3. CASE j = n + 1 /\ i = n + 1
  BY <1>3
<1>4. QED
  BY <1>1, <1>2, <1>3

LEMMA RisingSuffix ==
  ASSUME NEW s, NEW t, NEW n \in Nat, NEW k \in Nat, DOMAIN t = 1..n,
         \A i \in DOMAIN t : i + k \in DOMAIN s /\ t[i] = s[i + k],
         Rising(s)
  PROVE  Rising(t)
<1> SUFFICES ASSUME NEW i \in DOMAIN t, NEW j \in DOMAIN t, i <= j
             PROVE  t[i].gen <= t[j].gen
  BY DEF Rising
<1>1. i + k <= j + k
  OBVIOUS
<1>2. i + k \in DOMAIN s /\ j + k \in DOMAIN s /\ t[i] = s[i + k] /\ t[j] = s[j + k]
  OBVIOUS
<1>3. s[i + k].gen <= s[j + k].gen
  BY <1>1, <1>2 DEF Rising
<1>4. QED
  BY <1>2, <1>3

(* The host reads: the first m frames are gone. *)
LEMMA ReadTraffic ==
  ASSUME NEW th \in Seq(Reply), NEW tm \in Seq(Request), NEW ln \in Reply,
         NEW g \in Nat, NEW n \in FrameNumbers, NEW k \in Nat, NEW m \in 0..Len(th),
         Traffic(th, tm, ln, g, n, k)
  PROVE  Traffic(SubSeq(th, m + 1, Len(th)), tm, ln, g, n, k)
<1> DEFINE t == SubSeq(th, m + 1, Len(th))
<1>1. /\ DOMAIN t = 1..(Len(th) - m) /\ DOMAIN th = 1..Len(th) /\ Len(th) \in Nat
      /\ \A i \in DOMAIN t : i + m \in DOMAIN th /\ t[i] = th[i + m]
  BY UnreadType, LenProperties
<1> HIDE DEF t
<1>2. Numbered(t, tm, ln, g, n)
  BY <1>1 DEF Traffic, Numbered
<1>3. Ordered(t, tm, ln, g)
  <2>1. Len(th) - m \in Nat /\ m \in Nat
    BY <1>1
  <2>2. Rising(t)
    BY <1>1, <2>1, RisingSuffix DEF Traffic, Ordered
  <2>3. QED
    BY <1>1, <2>2 DEF Traffic, Ordered
<1>4. Within(t, tm, ln, g, k)
  BY <1>1 DEF Traffic, Within
<1>5. QED
  BY <1>2, <1>3, <1>4 DEF Traffic, t

(* The host reads a reply with the number of the pending request: it answers
   that request, and so does all that is behind it. *)
LEMMA FreshNumber ==
  ASSUME NEW f \in Reply, NEW g \in Nat, NEW n \in FrameNumbers,
         f.gen <= g, g <= f.gen + 2, NumberOf(f, g, n), f.num = n
  PROVE  f.gen = g
<1>1. f.gen \in Nat /\ f.num \in FrameNumbers
  BY DEF Reply
<1>2. /\ (f.num + 1) % Modulus # f.num
      /\ (((f.num + 1) % Modulus) + 1) % Modulus # f.num
  BY <1>1, NextNumber
<1>3. f.gen = g \/ f.gen + 1 = g \/ f.gen + 2 = g
  BY <1>1
<1>4. QED
  BY <1>2, <1>3 DEF NumberOf

LEMMA MatchTraffic ==
  ASSUME NEW th \in Seq(Reply), NEW tm \in Seq(Request), NEW ln \in Reply,
         NEW g \in Nat, NEW n \in FrameNumbers, NEW k \in 0..2,
         Traffic(th, tm, ln, g, n, k),
         NEW i \in 1..Len(th), NEW m \in i..Len(th), th[i].reply, th[i].num = n
  PROVE  Traffic(SubSeq(th, m + 1, Len(th)), tm, ln, g, n, 0)
<1> DEFINE t == SubSeq(th, m + 1, Len(th))
<1>1. Len(th) \in Nat /\ m \in 0..Len(th) /\ DOMAIN th = 1..Len(th)
  BY LenProperties
<1>2. Traffic(t, tm, ln, g, n, k)
  BY <1>1, ReadTraffic
<1>3. /\ DOMAIN t = 1..(Len(th) - m)
      /\ \A j \in DOMAIN t : j + m \in DOMAIN th /\ t[j] = th[j + m]
  <2>1. t \in Seq(Reply) /\ Len(t) = Len(th) - m
    BY <1>1, UnreadType
  <2>2. DOMAIN t = 1..(Len(th) - m)
    BY <2>1, LenProperties
  <2>3. ASSUME NEW j \in 1..(Len(th) - m)
        PROVE  j + m \in 1..Len(th) /\ t[j] = th[j + m]
    BY <1>1, UnreadType
  <2>4. QED
    BY <1>1, <2>2, <2>3
<1> HIDE DEF t
<1>4. th[i] \in Reply
  BY ElementOfSeq
<1>5. /\ \A j \in DOMAIN th : th[j].gen \in Nat
      /\ \A j \in DOMAIN tm : tm[j].gen \in Nat
      /\ ln.gen \in Nat /\ th[i].gen \in Nat
  BY <1>1, GenType
<1>6. th[i].gen = g
  <2>1. th[i].gen <= ln.gen /\ ln.gen <= g
    BY <1>1 DEF Traffic, Ordered
  <2>2. g <= th[i].gen + k
    BY <1>1 DEF Traffic, Within
  <2>3. NumberOf(th[i], g, n)
    BY <1>1 DEF Traffic, Numbered
  <2>4. QED
    BY <1>4, <1>5, <2>1, <2>2, <2>3, FreshNumber
<1>7. ASSUME NEW j \in DOMAIN t
      PROVE  g <= t[j].gen
  <2>1. j + m \in DOMAIN th /\ t[j] = th[j + m] /\ i \in DOMAIN th /\ i <= j + m
    BY <1>1, <1>3
  <2>2. th[i].gen <= th[j + m].gen
    BY <2>1 DEF Traffic, Ordered, Rising
  <2>3. QED
    BY <2>1, <2>2, <1>6
<1>8. g <= ln.gen /\ \A j \in DOMAIN tm : g <= tm[j].gen
  BY <1>1, <1>5, <1>6 DEF Traffic, Ordered
<1>9. Within(t, tm, ln, g, 0)
  BY <1>3, <1>5, <1>7, <1>8 DEF Within
<1>10. QED
  BY <1>2, <1>9 DEF Traffic, t

(* The host sends the next request. *)
LEMMA NextRequestTraffic ==
  ASSUME NEW th \in Seq(Reply), NEW tm \in Seq(Request), NEW ln \in Reply,
         NEW g \in Nat, NEW n \in FrameNumbers, NEW k \in Nat,
         Traffic(th, tm, ln, g, n, k),
         NEW r \in Request, r.gen = g + 1, r.num = (n + 1) % Modulus
  PROVE  Traffic(th, Append(tm, r), ln, g + 1, (n + 1) % Modulus, k + 1)
<1> DEFINE t == Append(tm, r)
           n1 == (n + 1) % Modulus
<1>1. /\ Len(tm) \in Nat /\ DOMAIN tm = 1..Len(tm) /\ DOMAIN t = 1..(Len(tm) + 1)
      /\ \A i \in DOMAIN tm : t[i] = tm[i]
      /\ t[Len(tm) + 1] = r
  BY AppendType, LenProperties
<1>2. /\ \A j \in DOMAIN th : th[j].gen \in Nat
      /\ \A j \in DOMAIN tm : tm[j].gen \in Nat
      /\ ln.gen \in Nat
  BY GenType
<1>3. ASSUME NEW f, f.gen \in Nat, f.gen <= g, NumberOf(f, g, n)
      PROVE  NumberOf(f, g + 1, n1)
  BY <1>3 DEF NumberOf
<1>4. NumberOf(r, g + 1, n1)
  BY DEF NumberOf
<1> HIDE DEF t, n1
<1>5. /\ \A i \in DOMAIN th : th[i].gen <= g
      /\ \A i \in DOMAIN tm : tm[i].gen <= g
      /\ ln.gen <= g
  BY <1>2 DEF Traffic, Ordered
<1>6. Numbered(th, t, ln, g + 1, n1)
  <2>1. \A i \in DOMAIN th : th[i].reply => NumberOf(th[i], g + 1, n1)
    BY <1>2, <1>3, <1>5 DEF Traffic, Numbered
  <2>2. \A i \in DOMAIN tm : NumberOf(tm[i], g + 1, n1)
    BY <1>2, <1>3, <1>5 DEF Traffic, Numbered
  <2>3. \A i \in DOMAIN t : NumberOf(t[i], g + 1, n1)
    BY <1>1, <1>4, <2>2
  <2>4. ln.reply => NumberOf(ln, g + 1, n1)
    BY <1>2, <1>3, <1>5 DEF Traffic, Numbered
  <2>5. QED
    BY <2>1, <2>3, <2>4 DEF Numbered
<1>7. Ordered(th, t, ln, g + 1)
  <2>1. Rising(t)
    <3>1. t[Len(tm) + 1].gen \in Nat /\ \A i \in DOMAIN tm : tm[i].gen <= t[Len(tm) + 1].gen
      BY <1>1, <1>2, <1>5
    <3>2. QED
      BY <1>1, <3>1, RisingAppend DEF Traffic, Ordered
  <2>2. \A i \in DOMAIN tm : ln.gen <= t[i].gen /\ t[i].gen <= g + 1
    BY <1>1, <1>2, <1>5 DEF Traffic, Ordered
  <2>3. ln.gen <= t[Len(tm) + 1].gen /\ t[Len(tm) + 1].gen <= g + 1
    BY <1>1, <1>2, <1>5
  <2>4. \A i \in DOMAIN t : ln.gen <= t[i].gen /\ t[i].gen <= g + 1
    BY <1>1, <2>2, <2>3
  <2>5. QED
    BY <1>2, <1>5, <2>1, <2>4 DEF Traffic, Ordered
<1>8. Within(th, t, ln, g + 1, k + 1)
  <2>1. \A i \in DOMAIN th : th[i].reply => g + 1 <= th[i].gen + (k + 1)
    BY <1>2 DEF Traffic, Within
  <2>2. \A i \in DOMAIN tm : g + 1 <= tm[i].gen + (k + 1)
    BY <1>2 DEF Traffic, Within
  <2>3. \A i \in DOMAIN t : g + 1 <= t[i].gen + (k + 1)
    BY <1>1, <2>2
  <2>4. ln.reply => g + 1 <= ln.gen + (k + 1)
    BY <1>2 DEF Traffic, Within
  <2>5. QED
    BY <2>1, <2>3, <2>4 DEF Within
<1>9. QED
  BY <1>6, <1>7, <1>8 DEF Traffic, t, n1

(* The host sends the pending request again. *)
LEMMA ResendTraffic ==
  ASSUME NEW th \in Seq(Reply), NEW tm \in Seq(Request), NEW ln \in Reply,
         NEW g \in Nat, NEW n \in FrameNumbers, NEW k \in Nat,
         Traffic(th, tm, ln, g, n, k),
         NEW r \in Request, r.gen = g, r.num = n
  PROVE  Traffic(th, Append(tm, r), ln, g, n, k)
<1> DEFINE t == Append(tm, r)
<1>1. /\ Len(tm) \in Nat /\ DOMAIN tm = 1..Len(tm) /\ DOMAIN t = 1..(Len(tm) + 1)
      /\ \A i \in DOMAIN tm : t[i] = tm[i]
      /\ t[Len(tm) + 1] = r
  BY AppendType, LenProperties
<1>2. /\ \A j \in DOMAIN tm : tm[j].gen \in Nat
      /\ ln.gen \in Nat
  BY GenType
<1>3. NumberOf(r, g, n)
  BY DEF NumberOf
<1> HIDE DEF t
<1>4. Numbered(th, t, ln, g, n)
  BY <1>1, <1>3 DEF Traffic, Numbered
<1>5. Ordered(th, t, ln, g)
  <2>1. Rising(t)
    <3>1. t[Len(tm) + 1].gen \in Nat /\ \A i \in DOMAIN tm : tm[i].gen <= t[Len(tm) + 1].gen
      BY <1>1 DEF Traffic, Ordered
    <3>2. QED
      BY <1>1, <3>1, RisingAppend DEF Traffic, Ordered
  <2>2. \A i \in DOMAIN tm : ln.gen <= t[i].gen /\ t[i].gen <= g
    BY <1>1 DEF Traffic, Ordered
  <2>3. ln.gen <= t[Len(tm) + 1].gen /\ t[Len(tm) + 1].gen <= g
    BY <1>1 DEF Traffic, Ordered
  <2>4. \A i \in DOMAIN t : ln.gen <= t[i].gen /\ t[i].gen <= g
    BY <1>1, <2>2, <2>3
  <2>5. QED
    BY <2>1, <2>4 DEF Traffic, Ordered
<1>6. Within(th, t, ln, g, k)
  BY <1>1, <1>2 DEF Traffic, Within
<1>7. QED
  BY <1>4, <1>5, <1>6 DEF Traffic, t

(* A request leaves the line: the module takes it, or it is lost. *)
LEMMA TakenTraffic ==
  ASSUME NEW th \in Seq(Reply), NEW tm \in Seq(Request), NEW ln \in Reply,
         NEW g \in Nat, NEW n \in FrameNumbers, NEW k \in Nat,
         Traffic(th, tm, ln, g, n, k), tm # << >>
  PROVE  Traffic(th, Tail(tm), ln, g, n, k)
<1> DEFINE t == Tail(tm)
<1>1. /\ Len(tm) \in Nat /\ DOMAIN tm = 1..Len(tm) /\ DOMAIN t = 1..(Len(tm) - 1)
      /\ \A i \in DOMAIN t : i + 1 \in DOMAIN tm /\ t[i] = tm[i + 1]
  BY TailType, LenProperties
<1> HIDE DEF t
<1>2. Numbered(th, t, ln, g, n)
  BY <1>1 DEF Traffic, Numbered
<1>3. Ordered(th, t, ln, g)
  <2>1. Rising(t)
    <3> SUFFICES ASSUME NEW i \in DOMAIN t, NEW j \in DOMAIN t, i <= j
                 PROVE  t[i].gen <= t[j].gen
      BY DEF Rising
    <3>1. i + 1 <= j + 1
      BY <1>1
    <3>2. /\ i + 1 \in DOMAIN tm /\ t[i] = tm[i + 1]
          /\ j + 1 \in DOMAIN tm /\ t[j] = tm[j + 1]
      BY <1>1
    <3>3. tm[i + 1].gen <= tm[j + 1].gen
      BY <3>1, <3>2 DEF Traffic, Ordered, Rising
    <3>4. QED
      BY <3>2, <3>3
  <2>2. QED
    BY <1>1, <2>1 DEF Traffic, Ordered
<1>4. Within(th, t, ln, g, k)
  BY <1>1 DEF Traffic, Within
<1>5. QED
  BY <1>2, <1>3, <1>4 DEF Traffic, t

(* A frame f is put on the line that is no younger than any request behind
   it, and the last reply becomes l: f itself, or what it was. *)
LEMMA PutTraffic ==
  ASSUME NEW th \in Seq(Reply), NEW tm \in Seq(Request), NEW ln \in Reply,
         NEW g \in Nat, NEW n \in FrameNumbers, NEW k \in Nat,
         Traffic(th, tm, ln, g, n, k),
         NEW f \in Reply, NEW l \in Reply,
         ln.gen <= f.gen, f.gen = l.gen, l.gen <= g,
         \A i \in DOMAIN tm : l.gen <= tm[i].gen,
         f.reply => NumberOf(f, g, n) /\ g <= f.gen + k,
         l.reply => NumberOf(l, g, n) /\ g <= l.gen + k
  PROVE  Traffic(Append(th, f), tm, l, g, n, k)
<1> DEFINE t == Append(th, f)
<1>1. /\ Len(th) \in Nat /\ DOMAIN th = 1..Len(th) /\ DOMAIN t = 1..(Len(th) + 1)
      /\ \A i \in DOMAIN th : t[i] = th[i]
      /\ t[Len(th) + 1] = f
  BY AppendType, LenProperties
<1>2. /\ \A j \in DOMAIN th : th[j].gen \in Nat
      /\ f.gen \in Nat /\ ln.gen \in Nat /\ l.gen \in Nat
  BY GenType
<1> HIDE DEF t
<1>3. Numbered(t, tm, l, g, n)
  <2>1. \A i \in DOMAIN th : t[i].reply => NumberOf(t[i], g, n)
    BY <1>1 DEF Traffic, Numbered
  <2>2. t[Len(th) + 1].reply => NumberOf(t[Len(th) + 1], g, n)
    BY <1>1
  <2>3. \A i \in DOMAIN t : t[i].reply => NumberOf(t[i], g, n)
    BY <1>1, <2>1, <2>2
  <2>4. QED
    BY <2>3 DEF Traffic, Numbered
<1>4. Ordered(t, tm, l, g)
  <2>1. \A i \in DOMAIN th : th[i].gen <= f.gen
    BY <1>2 DEF Traffic, Ordered
  <2>2. Rising(t)
    <3>1. t[Len(th) + 1].gen \in Nat /\ \A i \in DOMAIN th : th[i].gen <= t[Len(th) + 1].gen
      BY <1>1, <1>2, <2>1
    <3>2. QED
      BY <1>1, <3>1, RisingAppend DEF Traffic, Ordered
  <2>3. \A i \in DOMAIN t : t[i].gen <= l.gen
    BY <1>1, <1>2, <2>1
  <2>4. QED
    BY <2>2, <2>3 DEF Traffic, Ordered
<1>5. Within(t, tm, l, g, k)
  BY <1>1 DEF Traffic, Within
<1>6. QED
  BY <1>3, <1>4, <1>5 DEF Traffic, t

LEMMA OlderTraffic ==
  ASSUME NEW th \in Seq(Reply), NEW tm \in Seq(Request), NEW ln \in Reply,
         NEW g \in Nat, NEW n \in FrameNumbers, NEW k \in Nat, NEW k2 \in Nat,
         Traffic(th, tm, ln, g, n, k), k <= k2
  PROVE  Traffic(th, tm, ln, g, n, k2)
<1>1. /\ \A i \in DOMAIN th : th[i].gen \in Nat
      /\ \A i \in DOMAIN tm : tm[i].gen \in Nat
      /\ ln.gen \in Nat
  BY GenType
<1>2. Within(th, tm, ln, g, k2)
  BY <1>1 DEF Traffic, Within
<1>3. QED
  BY <1>2 DEF Traffic
-----------------------------------------------------------------------------
(* What the parts of a host step do to the traffic. *)
LEMMA LagType ==
  /\ Lag \in 0..2
  /\ phase = "sleep" \/ (phase = "run" /\ status = "IDLE") => Lag = 0
  /\ phase = "run" /\ status # "IDLE" => Lag \in 1..2
  /\ phase = "run" /\ status \notin {"IDLE", "CLOSE_RADIO", "SUCCESS", "FAIL"} => Lag = 1
  /\ phase = "done" => Lag = 2
  /\ phase = "run" /\ status \in {"CLOSE_RADIO", "SUCCESS", "FAIL"} => Lag = 2
<1> DEFINE none == phase = "sleep" \/ (phase = "run" /\ status = "IDLE")
           two == phase = "done" \/ status \in {"CLOSE_RADIO", "SUCCESS", "FAIL"}
<1>1. none => Lag = 0
  BY DEF Lag
<1>2. ~none /\ two => Lag = 2
  BY DEF Lag
<1>3. ~none /\ ~two => Lag = 1
  BY DEF Lag
<1>4. Lag \in 0..2
  BY <1>1, <1>2, <1>3
<1>5. phase = "run" => phase # "sleep" /\ phase # "done"
  OBVIOUS
<1>6. phase = "done" => ~none /\ two
  OBVIOUS
<1>7. phase = "run" /\ status # "IDLE" => ~none
  BY <1>5
<1>8. phase = "run" /\ status # "IDLE" => Lag = 1 \/ Lag = 2
  BY <1>2, <1>3, <1>7
<1>9. status \in {"CLOSE_RADIO", "SUCCESS", "FAIL"} => status # "IDLE" /\ two
  OBVIOUS
<1>10. phase = "run" /\ status \notin {"IDLE", "CLOSE_RADIO", "SUCCESS", "FAIL"} => ~none /\ ~two
  BY <1>5
<1> HIDE DEF none, two
<1>11. phase = "run" /\ status # "IDLE" => Lag \in 1..2
  BY <1>8
<1>12. QED
  BY <1>1, <1>2, <1>3, <1>4, <1>6, <1>7, <1>9, <1>10, <1>11 DEF none

LEMMA TrafficTypes ==
  ASSUME TypeOK
  PROVE  /\ toHost \in Seq(Reply) /\ toModule \in Seq(Request) /\ line \in Reply
         /\ gen \in Nat /\ handle \in Handle
         /\ handle.sendNum \in FrameNumbers /\ handle.str \in Request
         /\ handle.str.gen \in Nat
         /\ Lag \in Nat
  BY LagType DEF TypeOK, Handle, Request

LEMMA MatchStep ==
  ASSUME TypeOK, FreshInv, NEW i \in DOMAIN toHost, ReadMatch(i)
  PROVE  Traffic(toHost', toModule, line, gen, handle.sendNum, 0)
<1>1. i \in 1..Len(toHost) /\ toHost[i].reply /\ toHost[i].num = handle.sendNum
  BY LenProperties DEF TypeOK, ReadMatch, Matches
<1>2. PICK m \in i..Len(toHost) : toHost' = SubSeq(toHost, m + 1, Len(toHost))
  BY DEF ReadMatch, Unread
<1>3. QED
  BY <1>1, <1>2, MatchTraffic, TrafficTypes, LagType DEF FreshInv

LEMMA ReadStep ==
  ASSUME TypeOK, FreshInv, NEW m \in 0..Len(toHost), toHost' = Unread(toHost, m)
  PROVE  Traffic(toHost', toModule, line, gen, handle.sendNum, Lag)
  BY ReadTraffic, TrafficTypes DEF FreshInv, Unread

LEMMA WrittenTraffic ==
  ASSUME TypeOK, FreshInv, NEW th \in Seq(Reply), NEW k \in Nat,
         Traffic(th, toModule, line, gen, handle.sendNum, k),
         NEW resent \in BOOLEAN, resent => Cached(handle)
  PROVE  Traffic(th, Written(resent), line, gen, handle.sendNum, k)
<1>1. CASE resent
  <2>1. handle.str.gen = gen /\ handle.str.num = handle.sendNum
    BY <1>1 DEF FreshInv
  <2>2. QED
    BY <1>1, <2>1, ResendTraffic, TrafficTypes DEF Written
<1>2. CASE ~resent
  BY <1>2 DEF Written
<1>3. QED
  BY <1>1, <1>2

LEMMA SendTraffic ==
  ASSUME TypeOK, FreshInv, NEW th \in Seq(Reply), NEW k \in Nat,
         Traffic(th, toModule, line, gen, handle.sendNum, k),
         NEW cmd \in Commands, NEW at \in Nat, NEW size \in Nat,
         NEW resent \in BOOLEAN, resent => Cached(handle),
         Send(cmd, at, size, resent)
  PROVE  /\ Traffic(th, toModule', line, gen', handle'.sendNum, k + 1)
         /\ handle'.str.gen = gen' /\ handle'.str.num = handle'.sendNum
<1>1. /\ gen' = gen + 1 /\ handle' = FrameEncode(handle, cmd, at, size, gen + 1)
      /\ toModule' = Append(Written(resent), handle'.str)
  BY DEF Send
<1>2. /\ handle'.sendNum = (handle.sendNum + 1) % Modulus
      /\ handle'.str.gen = gen + 1 /\ handle'.str.num = (handle.sendNum + 1) % Modulus
  BY <1>1 DEF FrameEncode
<1>3. handle'.str \in Request /\ Written(resent) \in Seq(Request)
  <2>1. handle \in Handle /\ gen + 1 \in Nat
    BY TrafficTypes
  <2>2. handle'.str \in Request
    BY <1>1, <2>1, EncodeType
  <2>3. QED
    BY <2>2, WrittenType
<1>4. Traffic(th, Written(resent), line, gen, handle.sendNum, k)
  BY WrittenTraffic
<1>5. Traffic(th, Append(Written(resent), handle'.str), line, gen + 1,
              (handle.sendNum + 1) % Modulus, k + 1)
  BY <1>2, <1>3, <1>4, NextRequestTraffic, TrafficTypes
<1>6. QED
  BY <1>1, <1>2, <1>5

LEMMA ResendCached ==
  ASSUME NEW m, NEW resent \in BOOLEAN, ReadOther(m, resent)
  PROVE  toHost' = Unread(toHost, m) /\ (resent => Cached(handle))
  BY DEF ReadOther, TriggersResend, AnswersPrevious, IsResidual

(* An answer is taken and the next request sent. *)
LEMMA AcceptFresh ==
  ASSUME TypeOK, FreshInv, toHost' \in Seq(Reply), NEW i \in DOMAIN toHost, ReadMatch(i),
         NEW cmd \in Commands, NEW at \in Nat, NEW size \in Nat,
         Send(cmd, at, size, FALSE), line' = line, phase' = "run", status' # "IDLE",
         TypeOK'
  PROVE  FreshInv'
<1>1. /\ Traffic(toHost', toModule', line', gen', handle'.sendNum, 0 + 1)
      /\ handle'.str.gen = gen' /\ handle'.str.num = handle'.sendNum
  BY MatchStep, SendTraffic
<1>2. Lag' \in Nat /\ 1 <= Lag'
  BY DEF Lag
<1>3. Traffic(toHost', toModule', line', gen', handle'.sendNum, Lag')
  <2>1. /\ toModule' \in Seq(Request) /\ line' \in Reply /\ gen' \in Nat
        /\ handle'.sendNum \in FrameNumbers
    BY DEF TypeOK, Handle
  <2>2. QED
    BY <1>1, <1>2, <2>1, OlderTraffic
<1>4. QED
  BY <1>1, <1>3 DEF FreshInv

(* The host's own part is left as it is: a step that sends nothing new. *)
LEMMA QuietFresh ==
  ASSUME TypeOK, FreshInv, TypeOK',
         NEW k \in Nat, k <= Lag',
         Traffic(toHost', toModule', line', gen, handle.sendNum, k),
         UNCHANGED <<handle, gen>>
  PROVE  FreshInv'
<1>1. Lag' \in Nat
  BY DEF Lag
<1>2. Traffic(toHost', toModule', line', gen', handle'.sendNum, Lag')
  <2>1. /\ toHost' \in Seq(Reply) /\ toModule' \in Seq(Request) /\ line' \in Reply
        /\ gen \in Nat /\ handle.sendNum \in FrameNumbers
    BY TrafficTypes DEF TypeOK
  <2>2. QED
    BY <1>1, <2>1, OlderTraffic
<1>3. QED
  BY <1>2 DEF FreshInv

(* An answer is taken and nothing sent. *)
LEMMA TakenFresh ==
  ASSUME TypeOK, FreshInv, TypeOK', NEW i \in DOMAIN toHost, ReadMatch(i),
         UNCHANGED <<handle, gen, toModule, line>>
  PROVE  FreshInv'
<1>1. Traffic(toHost', toModule', line', gen, handle.sendNum, 0)
  BY MatchStep
<1>2. Lag' \in Nat
  BY DEF Lag
<1>3. QED
  BY <1>1, <1>2, QuietFresh
-----------------------------------------------------------------------------
(* Every step keeps the traffic in order. *)
LEMMA HostFresh ==
  ASSUME TypeInv, TypeInv', FreshInv, Host
  PROVE  FreshInv'
<1>0. TypeOK /\ TypeOK' /\ line' = line
  BY DEF TypeInv, Host, Idle, ReplyRejected, RadioOpened, MaxFrameLenReceived,
    SendMaxFrameLenConfirmed, DeviceInfoReceived, UpgradeAllowed, FastUpdateModeSet,
    DeviceUpdating, SendPiece, FileReadFailed, FirmwareSent, RebootConfirmed,
    RebootFlushed, RebootUnanswered, RadioClosed, KeepWaiting, ReturnFail,
    ReturnSuccess, Return, environment
<1>1. CASE Idle
  <2>1. toHost' = toHost /\ status' # "IDLE" /\ phase' = "run"
    BY <1>1 DEF Idle, Running, GoTo
  <2>2. PICK cmd \in {"SET_RADIO_UPDATE_TRANSFER_MODE", "GET_DEVICE_MAX_FRAME_LEN"} :
          Send(cmd, 0, 0, FALSE)
    BY <1>1 DEF Idle
  <2>3. Traffic(toHost, toModule, line, gen, handle.sendNum, 0)
    <3>1. Lag = 0
      BY <1>1, LagType DEF Idle, Running
    <3>2. QED
      BY <3>1 DEF FreshInv
  <2>4. /\ Traffic(toHost, toModule', line, gen', handle'.sendNum, 0 + 1)
        /\ handle'.str.gen = gen' /\ handle'.str.num = handle'.sendNum
    BY <1>0, <2>2, <2>3, SendTraffic, TrafficTypes DEF Commands
  <2>5. Lag' = 1
    BY <1>1, <2>1 DEF Lag, Idle, GoTo
  <2>6. QED
    BY <1>0, <2>1, <2>4, <2>5 DEF FreshInv
<1>2. CASE ReplyRejected
  <2>1. PICK i \in DOMAIN toHost : ReadMatch(i)
    BY <1>2 DEF ReplyRejected
  <2>2. QED
    BY <1>0, <1>2, <2>1, TakenFresh DEF ReplyRejected, FailWith
<1>3. ASSUME NEW i \in DOMAIN toHost, ReadMatch(i), NEW st, st # "IDLE",
             NEW cmd \in Commands, NEW at \in Nat, NEW size \in Nat,
             Advance(st, cmd, at, size), phase = "run"
      PROVE  FreshInv'
  <2>1. /\ Send(cmd, at, size, FALSE) /\ phase' = "run" /\ status' # "IDLE"
        /\ toHost' \in Seq(Reply)
    BY <1>0, <1>3 DEF Advance, GoTo, TypeOK
  <2>2. QED
    BY <1>0, <1>3, <2>1, AcceptFresh
<1>4. CASE RadioOpened
  <2>1. PICK i \in DOMAIN toHost : ReplyAccepted("OPEN_RADIO", i)
    BY <1>4 DEF RadioOpened
  <2>2. QED
    BY <1>3, <1>4, <2>1 DEF RadioOpened, ReplyAccepted, Running, Commands
<1>5. CASE MaxFrameLenReceived
  <2>1. PICK i \in DOMAIN toHost : ReplyAccepted("GET_DEVICE_MAX_FRAME_LEN", i)
    BY <1>5 DEF MaxFrameLenReceived
  <2>2. limit' \in Nat
    BY <1>0 DEF TypeOK
  <2>3. QED
    BY <1>3, <1>5, <2>1, <2>2 DEF MaxFrameLenReceived, ReplyAccepted, Running, Commands
<1>6. CASE SendMaxFrameLenConfirmed
  <2>1. PICK i \in DOMAIN toHost : ReplyAccepted("SEND_MAX_FRAME_LEN", i)
    BY <1>6 DEF SendMaxFrameLenConfirmed
  <2>2. QED
    BY <1>3, <1>6, <2>1 DEF SendMaxFrameLenConfirmed, ReplyAccepted, Running, Commands
<1>7. CASE DeviceInfoReceived
  <2>1. PICK i \in DOMAIN toHost : ReplyAccepted("GET_DEVICE_INFO", i)
    BY <1>7 DEF DeviceInfoReceived
  <2>2. QED
    BY <1>3, <1>7, <2>1 DEF DeviceInfoReceived, ReplyAccepted, Running, Commands, FileInfoLen
<1>8. CASE UpgradeAllowed
  <2>1. PICK i \in DOMAIN toHost : ReplyAccepted("REQUEST_UPGRADE", i)
    BY <1>8 DEF UpgradeAllowed
  <2>2. QED
    BY <1>3, <1>8, <2>1 DEF UpgradeAllowed, ReplyAccepted, Running, Commands
<1>9. CASE FastUpdateModeSet
  <2>1. PICK i \in DOMAIN toHost : ReplyAccepted("SET_FAST_UPDATE_MODE", i)
    BY <1>9 DEF FastUpdateModeSet
  <2>2. QED
    BY <1>3, <1>9, <2>1 DEF FastUpdateModeSet, ReplyAccepted, Running, Commands
<1>10. CASE DeviceUpdating
  <2>1. PICK i \in DOMAIN toHost : ReplyAccepted("GET_DEVICE_STATUS", i)
    BY <1>10 DEF DeviceUpdating
  <2>2. QED
    BY <1>3, <1>10, <2>1 DEF DeviceUpdating, ReplyAccepted, Running, Commands
<1>11. CASE SendPiece
  <2>1. PICK i \in DOMAIN toHost :
          /\ ReplyAccepted("SEND_FIRMWARE", i)
          /\ \/ FailWith("ENCODE_FAILED")
             \/ Advance(CheckedStatus, "SEND_FIRMWARE", toHost[i].at, toHost[i].size)
    BY <1>11 DEF SendPiece
  <2>2. ReadMatch(i) /\ phase = "run"
    BY <2>1 DEF ReplyAccepted, Running
  <2>3. CASE FailWith("ENCODE_FAILED")
    BY <1>0, <2>2, <2>3, TakenFresh DEF FailWith
  <2>4. CASE Advance(CheckedStatus, "SEND_FIRMWARE", toHost[i].at, toHost[i].size)
    <3>1. toHost[i].at \in Nat /\ toHost[i].size \in Nat
      BY <1>0, <2>2, ReadMatchType DEF Reply
    <3>2. CheckedStatus # "IDLE"
      BY <2>1 DEF ReplyAccepted, Running, CheckedStatus
    <3>3. QED
      BY <1>3, <2>2, <2>4, <3>1, <3>2 DEF Commands
  <2>5. QED
    BY <2>1, <2>3, <2>4
<1>12. CASE FileReadFailed
  <2>1. PICK i \in DOMAIN toHost : ReadMatch(i)
    BY <1>12 DEF FileReadFailed, ReplyAccepted
  <2>2. QED
    BY <1>0, <1>12, <2>1, TakenFresh DEF FileReadFailed, FailWith
<1>13. CASE FirmwareSent
  <2>1. PICK i \in DOMAIN toHost : ReplyAccepted("SEND_FIRMWARE", i)
    BY <1>13 DEF FirmwareSent
  <2>2. ReadMatch(i) /\ phase = "run"
    BY <2>1 DEF ReplyAccepted, Running
  <2>3. CASE args.AutoReset
    BY <1>3, <1>13, <2>2, <2>3 DEF FirmwareSent, Commands
  <2>4. CASE ~args.AutoReset
    BY <1>0, <1>13, <2>2, <2>4, TakenFresh DEF FirmwareSent
  <2>5. QED
    BY <2>3, <2>4
<1>14. CASE RebootConfirmed
  <2>1. PICK i \in DOMAIN toHost : ReadMatch(i)
    BY <1>14 DEF RebootConfirmed, ReplyAccepted
  <2>2. QED
    BY <1>0, <1>14, <2>1, TakenFresh DEF RebootConfirmed, requests
<1>15. CASE RebootFlushed
  <2>1. Lag = 0 /\ Lag' = 2
    BY <1>15 DEF RebootFlushed, LeaveReboot, Lag
  <2>2. PICK m \in 0..Len(toHost) : toHost' = Unread(toHost, m)
    BY <1>15 DEF RebootFlushed
  <2>3. Traffic(toHost', toModule, line, gen, handle.sendNum, 0)
    BY <1>0, <2>1, <2>2, ReadStep
  <2>4. CASE args.RemoteDeviceUpdate
    <3>1. Send("SET_RADIO_UPDATE_TRANSFER_MODE", 0, 0, FALSE)
      BY <1>15, <2>4 DEF RebootFlushed, LeaveReboot
    <3>2. /\ Traffic(toHost', toModule', line, gen', handle'.sendNum, 0 + 1)
          /\ handle'.str.gen = gen' /\ handle'.str.num = handle'.sendNum
      BY <1>0, <2>3, <3>1, SendTraffic DEF Commands, TypeOK
    <3>3. Traffic(toHost', toModule', line', gen', handle'.sendNum, 2)
      <4>1. /\ toHost' \in Seq(Reply) /\ toModule' \in Seq(Request) /\ line' \in Reply
            /\ gen' \in Nat /\ handle'.sendNum \in FrameNumbers
        BY <1>0 DEF TypeOK, Handle
      <4>2. QED
        BY <1>0, <3>2, <4>1, OlderTraffic
    <3>4. QED
      BY <2>1, <3>2, <3>3 DEF FreshInv
  <2>5. CASE ~args.RemoteDeviceUpdate
    <3>1. toModule' = toModule /\ UNCHANGED <<handle, gen>>
      BY <1>15, <2>5 DEF RebootFlushed, LeaveReboot, Written
    <3>2. QED
      BY <1>0, <2>1, <2>3, <3>1, QuietFresh
  <2>6. QED
    BY <2>4, <2>5
<1>16. CASE RebootUnanswered
  <2>1. Lag = 1 /\ Lag' = 2
    BY <1>16 DEF RebootUnanswered, LeaveReboot, Lag, Running
  <2>2. PICK m \in 0..Len(toHost), resent \in BOOLEAN :
          ReadOther(m, resent) /\ LeaveReboot(resent)
    BY <1>16 DEF RebootUnanswered
  <2>3. Traffic(toHost', toModule, line, gen, handle.sendNum, 1)
    BY <1>0, <2>1, <2>2, ReadStep, ResendCached
  <2>4. toHost' \in Seq(Reply)
    BY <1>0 DEF TypeOK
  <2>5. CASE args.RemoteDeviceUpdate
    <3>1. Send("SET_RADIO_UPDATE_TRANSFER_MODE", 0, 0, resent)
      BY <2>2, <2>5 DEF LeaveReboot
    <3>2. /\ Traffic(toHost', toModule', line, gen', handle'.sendNum, 1 + 1)
          /\ handle'.str.gen = gen' /\ handle'.str.num = handle'.sendNum
      BY <1>0, <2>2, <2>3, <2>4, <3>1, SendTraffic, ResendCached DEF Commands
    <3>3. QED
      BY <1>0, <2>1, <3>2 DEF FreshInv
  <2>6. CASE ~args.RemoteDeviceUpdate
    <3>1. toModule' = Written(resent) /\ UNCHANGED <<handle, gen>>
      BY <2>2, <2>6 DEF LeaveReboot
    <3>2. Traffic(toHost', toModule', line', gen, handle.sendNum, 1)
      BY <1>0, <2>2, <2>3, <2>4, <3>1, WrittenTraffic, ResendCached
    <3>3. QED
      BY <1>0, <2>1, <3>1, <3>2, QuietFresh
  <2>7. QED
    BY <2>5, <2>6
<1>17. CASE RadioClosed
  <2>1. PICK i \in DOMAIN toHost : ReadMatch(i)
    BY <1>17 DEF RadioClosed, ReplyAccepted
  <2>2. QED
    BY <1>0, <1>17, <2>1, TakenFresh DEF RadioClosed, requests
<1>18. CASE KeepWaiting
  <2>1. Lag \in Nat /\ Lag <= Lag' /\ Lag' \in Nat
    BY <1>18 DEF KeepWaiting, GoTo, CheckedStatus, Lag, AwaitStatuses
  <2>2. PICK m \in 0..Len(toHost), resent \in BOOLEAN :
          ReadOther(m, resent) /\ toModule' = Written(resent)
    BY <1>18 DEF KeepWaiting
  <2>3. Traffic(toHost', toModule, line, gen, handle.sendNum, Lag)
    BY <1>0, <2>2, ReadStep, ResendCached
  <2>4. Traffic(toHost', toModule', line', gen, handle.sendNum, Lag)
    <3>1. toHost' \in Seq(Reply)
      BY <1>0 DEF TypeInv, TypeOK
    <3>2. resent => Cached(handle)
      BY <1>0, <2>2, ResendCached
    <3>3. Traffic(toHost', Written(resent), line, gen, handle.sendNum, Lag)
      BY <1>0, <2>1, <2>3, <3>1, <3>2, WrittenTraffic
    <3>4. line' = line
      BY <1>18 DEF KeepWaiting, environment
    <3>5. QED
      BY <2>2, <3>3, <3>4
  <2>5. UNCHANGED <<handle, gen>>
    BY <1>18 DEF KeepWaiting, requests
  <2>6. QED
    BY <1>0, <2>1, <2>4, <2>5, QuietFresh
<1>19. CASE ReturnFail \/ ReturnSuccess
  <2>1. Lag \in Nat /\ Lag <= Lag'
    BY <1>19 DEF ReturnFail, ReturnSuccess, Return, Lag
  <2>2. UNCHANGED <<handle, gen, toModule, toHost>>
    BY <1>19 DEF ReturnFail, ReturnSuccess, Return, requests
  <2>3. QED
    BY <1>0, <2>1, <2>2, QuietFresh DEF FreshInv
<1>20. QED
  BY <1>1, <1>2, <1>4, <1>5, <1>6, <1>7, <1>8, <1>9, <1>10, <1>11, <1>12, <1>13,
     <1>14, <1>15, <1>16, <1>17, <1>18, <1>19 DEF Host

(* The module, or the radio in its place, answers the first request waiting. *)
LEMMA AnswerTraffic ==
  ASSUME TypeOK, FreshInv, toModule # << >>,
         NEW f \in Reply, f.gen = Head(toModule).gen, f.num = Head(toModule).num
  PROVE  /\ Traffic(Append(toHost, f), toModule, f, gen, handle.sendNum, Lag)
         /\ Traffic(Append(toHost, f), Tail(toModule), f, gen, handle.sendNum, Lag)
<1> DEFINE r == Head(toModule)
<1>1. /\ r = toModule[1] /\ r \in Request /\ 1 \in DOMAIN toModule
      /\ Len(toModule) \in Nat /\ DOMAIN toModule = 1..Len(toModule)
  BY TailType, LenProperties, TrafficTypes
<1> HIDE DEF r
<1>2. /\ NumberOf(r, gen, handle.sendNum) /\ gen <= r.gen + Lag
      /\ line.gen <= r.gen /\ r.gen <= gen
      /\ \A i \in DOMAIN toModule : r.gen <= toModule[i].gen
  <2>1. Traffic(toHost, toModule, line, gen, handle.sendNum, Lag)
    BY DEF FreshInv
  <2>2. NumberOf(r, gen, handle.sendNum) /\ gen <= r.gen + Lag
    BY <2>1, <1>1 DEF Traffic, Numbered, Within
  <2>3. /\ line.gen <= r.gen /\ r.gen <= gen
        /\ \A i \in DOMAIN toModule : r.gen <= toModule[i].gen
    BY <2>1, <1>1 DEF Traffic, Ordered, Rising
  <2>4. QED
    BY <2>2, <2>3
<1>3. NumberOf(f, gen, handle.sendNum) /\ f.gen = r.gen
  BY <1>2 DEF NumberOf, r
<1>4. Traffic(toHost, toModule, line, gen, handle.sendNum, Lag)
  BY DEF FreshInv
<1>5. Traffic(Append(toHost, f), toModule, f, gen, handle.sendNum, Lag)
  BY <1>2, <1>3, <1>4, PutTraffic, TrafficTypes
<1>6. Append(toHost, f) \in Seq(Reply)
  BY AppendType, TrafficTypes
<1>7. QED
  BY <1>5, <1>6, TakenTraffic, TrafficTypes

LEMMA ModuleFresh ==
  ASSUME TypeInv, TypeInv', FreshInv, Module
  PROVE  FreshInv'
<1>0. TypeOK /\ TypeOK' /\ UNCHANGED <<handle, gen, phase, status>> /\ toModule # << >>
  BY DEF TypeInv, Module, ModuleAnswers, ModuleAnswersAgain, control, requests
<1>1. PICK ok, ask :
        /\ ok \in BOOLEAN
        /\ line' = ReplyTo(Head(toModule), ok, ask)
        /\ toHost' = Append(toHost, line')
        /\ toModule' = Tail(toModule)
  <2>1. CASE ModuleAnswers
    <3>1. PICK ok \in BOOLEAN, ask \in {NextAsk(Head(toModule)), [at |-> 0, size |-> 0]}
                                  \cup WildAsks :
            Answer(Head(toModule), ok, ask)
      BY <2>1 DEF ModuleAnswers
    <3>2. QED
      BY <3>1 DEF Answer, PutOnLine
  <2>2. CASE ModuleAnswersAgain
    <3>1. mod.last.ok \in BOOLEAN
      BY <1>0 DEF TypeOK, Reply
    <3>2. QED
      BY <2>2, <3>1 DEF ModuleAnswersAgain, PutOnLine
  <2>3. QED
    BY <2>1, <2>2 DEF Module
<1>2. /\ line'.gen = Head(toModule).gen /\ line'.num = Head(toModule).num
      /\ line' \in Reply
  BY <1>0, <1>1 DEF ReplyTo, TypeOK
<1>3. Traffic(toHost', toModule', line', gen, handle.sendNum, Lag)
  BY <1>0, <1>1, <1>2, AnswerTraffic
<1>4. Lag' = Lag /\ Lag \in Nat
  BY <1>0, LagType DEF Lag
<1>5. QED
  BY <1>0, <1>3, <1>4, QuietFresh

LEMMA LineFresh ==
  ASSUME TypeInv, TypeInv', FreshInv, Line
  PROVE  FreshInv'
<1>0. /\ TypeOK /\ TypeOK' /\ UNCHANGED <<handle, gen, phase, status>>
      /\ Traffic(toHost, toModule, line, gen, handle.sendNum, Lag)
  BY DEF TypeInv, Line, LoseRequest, CorruptReply, DuplicateReply, ForeignFrame,
         ResidualReply, control, requests, FreshInv
<1>1. Lag' = Lag /\ Lag \in Nat /\ Lag \in 0..2
  BY <1>0, LagType DEF Lag
<1> SUFFICES Traffic(toHost', toModule', line', gen, handle.sendNum, Lag)
  BY <1>0, <1>1, QuietFresh
<1>2. CASE LoseRequest
  BY <1>0, <1>2, TakenTraffic, TrafficTypes DEF LoseRequest
<1>3. CASE CorruptReply
  <2>1. PICK i \in DOMAIN toHost : toHost' = [toHost EXCEPT ![i].crc = FALSE]
    BY <1>3 DEF CorruptReply
  <2>2. /\ DOMAIN toHost' = DOMAIN toHost
        /\ \A j \in DOMAIN toHost : /\ toHost'[j].gen = toHost[j].gen
                                    /\ toHost'[j].num = toHost[j].num
                                    /\ toHost'[j].reply = toHost[j].reply
    <3>0. toHost \in Seq(Reply)
      BY <1>0, TrafficTypes
    <3>1. toHost[i] \in Reply
      BY <3>0, ElementOfSeq, LenProperties
    <3> DEFINE c == [toHost[i] EXCEPT !.crc = FALSE]
    <3>2. c.gen = toHost[i].gen /\ c.num = toHost[i].num /\ c.reply = toHost[i].reply
      BY <3>1 DEF Reply
    <3>3. toHost' = [toHost EXCEPT ![i] = c]
      BY <2>1
    <3> HIDE DEF c
    <3>4. DOMAIN toHost' = DOMAIN toHost /\ toHost'[i] = c
      BY <3>3
    <3>5. \A j \in DOMAIN toHost : j # i => toHost'[j] = toHost[j]
      BY <3>3
    <3>6. QED
      BY <3>2, <3>4, <3>5
  <2>3. toModule' = toModule /\ line' = line
    BY <1>3 DEF CorruptReply
  <2>4. QED
    <3>1. Numbered(toHost', toModule', line', gen, handle.sendNum)
      BY <1>0, <2>2, <2>3 DEF Traffic, Numbered, NumberOf
    <3>2. Ordered(toHost', toModule', line', gen)
      BY <1>0, <2>2, <2>3 DEF Traffic, Ordered, Rising
    <3>3. Within(toHost', toModule', line', gen, Lag)
      BY <1>0, <2>2, <2>3 DEF Traffic, Within
    <3>4. QED
      BY <3>1, <3>2, <3>3 DEF Traffic
<1>4. line.gen <= gen /\ \A i \in DOMAIN toModule : line.gen <= toModule[i].gen
  BY <1>0 DEF Traffic, Ordered
<1>5. line.reply => NumberOf(line, gen, handle.sendNum) /\ gen <= line.gen + Lag
  BY <1>0 DEF Traffic, Numbered, Within
<1>6. line.gen \in Nat
  BY <1>0, GenType DEF TypeOK
<1>7. CASE DuplicateReply
  <2>1. toHost' = Append(toHost, line) /\ toModule' = toModule /\ line' = line
    BY <1>7 DEF DuplicateReply
  <2>2. Traffic(Append(toHost, line), toModule, line, gen, handle.sendNum, Lag)
    <3>1. /\ toHost \in Seq(Reply) /\ toModule \in Seq(Request) /\ line \in Reply
          /\ gen \in Nat /\ handle.sendNum \in FrameNumbers /\ Lag \in Nat
      BY <1>0, TrafficTypes
    <3>2. Traffic(toHost, toModule, line, gen, handle.sendNum, Lag)
      BY <1>0
    <3>3. QED
      BY <1>4, <1>5, <1>6, <3>1, <3>2, PutTraffic
  <2>3. QED
    BY <2>1, <2>2
<1>8. CASE ForeignFrame
  <2>1. toHost' = Append(toHost, Foreign) /\ toModule' = toModule /\ line' = line
    BY <1>8 DEF ForeignFrame
  <2>2. Foreign \in Reply
    BY <1>6, ModulusAssumption DEF Foreign, Reply, FrameNumbers
  <2>3. Foreign.gen = line.gen /\ ~Foreign.reply
    BY DEF Foreign
  <2>4. QED
    BY <1>0, <1>4, <1>5, <1>6, <2>1, <2>2, <2>3, PutTraffic, TrafficTypes
<1>9. CASE ResidualReply
  <2>1. /\ toModule # << >> /\ toHost' = Append(toHost, line')
        /\ toModule' = toModule \/ toModule' = Tail(toModule)
        /\ line' = [ReplyTo(Head(toModule), TRUE, [at |-> 0, size |-> 0])
                      EXCEPT !.cmd = "SET_RADIO_UPDATE_TRANSFER_MODE"]
    BY <1>9 DEF ResidualReply, PutOnLine
  <2>2. /\ line'.gen = Head(toModule).gen /\ line'.num = Head(toModule).num
        /\ line' \in Reply
    BY <1>0, <2>1 DEF ReplyTo, TypeOK
  <2>3. QED
    BY <1>0, <2>1, <2>2, AnswerTraffic
<1>10. QED
  BY <1>2, <1>3, <1>7, <1>8, <1>9 DEF Line

LEMMA FreshInit == Init => FreshInv
<1> SUFFICES ASSUME Init PROVE FreshInv
  OBVIOUS
<1>1. toHost = << >> /\ toModule = << >> /\ line = NoReply /\ gen = 0 /\ handle = FrameInit
  BY DEF Init
<1>2. ~Cached(handle)
  BY <1>1 DEF FrameInit, NoFrame, Cached
<1>3. ~line.reply /\ line.gen = 0
  BY <1>1 DEF NoReply
<1>4. Traffic(toHost, toModule, line, gen, handle.sendNum, Lag)
  BY <1>1, <1>3 DEF Traffic, Numbered, Ordered, Rising, Within
<1>5. QED
  BY <1>2, <1>4 DEF FreshInv

LEMMA FreshNext == TypeInv /\ TypeInv' /\ FreshInv /\ [Next]_vars => FreshInv'
<1> SUFFICES ASSUME TypeInv, TypeInv', FreshInv, [Next]_vars PROVE FreshInv'
  OBVIOUS
<1>1. CASE UNCHANGED vars
  BY <1>1 DEF vars, FreshInv, Lag, Traffic, Numbered, Ordered, Within
<1>2. QED
  BY <1>1, HostFresh, ModuleFresh, LineFresh DEF Next

LEMMA FreshInvariant == Spec => []FreshInv
<1>1. QED
  BY TypeInvariant, FreshInit, FreshNext, PTL DEF Spec

LEMMA FreshImplied == TypeOK /\ FreshInv => FreshReply
<1> SUFFICES ASSUME TypeOK, FreshInv, NEW i \in DOMAIN toHost, Matches(handle, toHost[i])
             PROVE  toHost[i].gen = gen
  BY DEF FreshReply
<1>1. toHost[i] \in Reply /\ toHost[i].reply /\ toHost[i].num = handle.sendNum
  BY ElementOfSeq, LenProperties DEF TypeOK, Matches
<1>2. Traffic(toHost, toModule, line, gen, handle.sendNum, Lag)
  BY DEF FreshInv
<1>3. toHost[i].gen <= line.gen /\ line.gen <= gen
  BY <1>2 DEF Traffic, Ordered
<1>4. NumberOf(toHost[i], gen, handle.sendNum) /\ gen <= toHost[i].gen + Lag
  BY <1>1, <1>2 DEF Traffic, Numbered, Within
<1>5. toHost[i].gen \in Nat /\ line.gen \in Nat /\ gen \in Nat /\ Lag \in 0..2
  BY <1>1, GenType, TrafficTypes, LagType
<1>6. toHost[i].gen <= gen /\ gen <= toHost[i].gen + 2
  BY <1>3, <1>4, <1>5
<1>7. QED
  BY <1>1, <1>4, <1>6, FreshNumber, TrafficTypes

(* The answer that SubPackageUpgradeProc takes is the answer to the request it
   sent last, although the frame number is one byte and comes round again:
   for every number of values it may take from three on, every file and
   module, and any number of lost, damaged, repeated, foreign and residual
   frames (UpgradeM7xx.c:127-134). *)
THEOREM AnswersAreFresh == Spec => []FreshReply
<1>1. QED
  BY TypeCorrect, FreshInvariant, FreshImplied, PTL
=============================================================================
