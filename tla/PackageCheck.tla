---------------------------- MODULE PackageCheck ----------------------------
(***************************************************************************)
(* CheckPackageM7xx (UpgradeM7xx.c): the loop over the microcontroller     *)
(* partitions, the loop over the device partitions behind them, and the    *)
(* comparison of the MD5 stored in each with the one computed.             *)
(*                                                                         *)
(* A package is a record.  "part" is what the table PARTITION_INFO_T       *)
(* points at: of each partition the bytes behind its FIRMWARE_INFO_T, all  *)
(* of which are hashed, and the MD5.  (FIRMWARE_INFO_T.Size is not read.)  *)
(* The packages are the well-formed ones, whose tables point into them.    *)
(***************************************************************************)
EXTENDS Md5

CONSTANT Packages

PartitionMax == 24          \* UPGRADE_DEVICE_NUM_MAX

ASSUME PackagesAssumption ==
  \A p \in Packages :
    /\ p.FWNum \in Nat /\ p.DevNum \in Nat
    /\ p.FWNum + p.DevNum <= Len(p.part)
    /\ Len(p.part) <= PartitionMax

(* The lengths are of type uint32_t. *)
ASSUME PartitionsAssumption ==
  \A p \in Packages : \A k \in DOMAIN p.part :
    p.part[k].data \in Seq(Nat) /\ Len(p.part[k].data) < WordMax

VARIABLES
  pkg,        \* pFileBuf
  FWIndex,
  DevIndex,
  MD5Ctx,     \* not initialised at first
  ret         \* what CheckPackageM7xx returned, "NONE" before

checking == <<FWIndex, DevIndex, MD5Ctx, ret>>

CheckInit ==
  /\ FWIndex = 0
  /\ DevIndex = 0
  /\ MD5Ctx = [Total |-> <<1, 1>>, State |-> <<1>>, Buffer |-> [k \in 1..Block |-> 1]]
  /\ ret = "NONE"

Hashed(part) == MD5Finish(MD5Update(MD5Start, part.data))

(* The body of both loops; the partitions count from 0. *)
CheckPartition(k) ==
  LET part == pkg.part[k + 1] IN
  /\ MD5Ctx' = Hashed(part)
  /\ ret' = IF part.MD5 = Digest(MD5Ctx') THEN "NONE" ELSE "FAILED"

CheckFirmware ==
  /\ ret = "NONE" /\ FWIndex < pkg.FWNum
  /\ CheckPartition(FWIndex)
  /\ FWIndex' = FWIndex + 1
  /\ UNCHANGED <<pkg, DevIndex>>

(* Mutant of CheckDevice: the partitions are counted from the first one on. *)
CheckDeviceFromFirst ==
  /\ ret = "NONE" /\ FWIndex = pkg.FWNum /\ DevIndex < pkg.DevNum
  /\ CheckPartition(DevIndex)
  /\ DevIndex' = DevIndex + 1
  /\ UNCHANGED <<pkg, FWIndex>>

CheckDevice ==
  /\ ret = "NONE" /\ FWIndex = pkg.FWNum /\ DevIndex < pkg.DevNum
  /\ CheckPartition(pkg.FWNum + DevIndex)
  /\ DevIndex' = DevIndex + 1
  /\ UNCHANGED <<pkg, FWIndex>>

Accept ==
  /\ ret = "NONE" /\ FWIndex = pkg.FWNum /\ DevIndex = pkg.DevNum
  /\ ret' = "OK"
  /\ UNCHANGED <<pkg, FWIndex, DevIndex, MD5Ctx>>

CheckNext == CheckFirmware \/ CheckDevice \/ Accept
-----------------------------------------------------------------------------
Partitions == {pkg.part[k] : k \in 1..(pkg.FWNum + pkg.DevNum)}

Intact(part) == part.MD5 = Padded(part.data)

IntactPackage == \A part \in Partitions : Intact(part)

(* The verdict is right for packages of any number of partitions of either
   kind: none that the package names is passed over, no slot of the table that
   it does not name counts, and no partition's MD5 depends on the one hashed
   before it in the same context, empty ones included, for which MD5Update
   fails (UpgradeM7xx.c:885-924). *)
VerdictRight ==
  /\ ret = "OK" => IntactPackage
  /\ ret = "FAILED" => ~IntactPackage
=============================================================================
