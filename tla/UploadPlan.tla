----------------------------- MODULE UploadPlan -----------------------------
(***************************************************************************)
(* How a file is cut into the parts of a multipart upload (planMultipart   *)
(* and its callers in videos.service.ts).  Sizes are in bytes.             *)
(***************************************************************************)
EXTENDS Integers

CONSTANTS MiB,            \* 1024 * 1024
          MinPart,        \* the least part size the store accepts: 5 * MiB
          MaxParts,       \* the most parts it accepts: 10,000
          PreferredPart,  \* config.multipartPartSizeBytes
          Threshold,      \* config.multipartThresholdBytes
          Batch,          \* config.partUrlBatchSize
          Files,          \* bound: the file sizes and the preferred part sizes
          Preferences     \*        that plans are checked for

ASSUME SizesAssumption ==
    /\ MiB \in Nat \ {0} /\ MaxParts \in Nat \ {0} /\ MinPart \in Nat \ {0}
    /\ PreferredPart \in Nat /\ Threshold \in Nat /\ Batch \in Nat
    /\ Files \subseteq Nat /\ Preferences \subseteq Nat

CeilDiv(a, b) == (a + b - 1) \div b
Larger(a, b) == IF a >= b THEN a ELSE b

(* The part size, in whole MiB when the preferred one makes too many parts. *)
PartSize(size, preferred) ==
    LET wanted == Larger(preferred, MinPart) IN
    IF CeilDiv(size, wanted) > MaxParts THEN CeilDiv(size, MaxParts * MiB) * MiB ELSE wanted

(* Mutant of PartCount: the last, shorter part is not counted.             *)
WholeParts(size, preferred) == Larger(1, size \div PartSize(size, preferred))

PartCount(size, preferred) == Larger(1, CeilDiv(size, PartSize(size, preferred)))

UsesMultipart(size) == size >= Threshold

(* The parts whose URLs a new session comes with.                          *)
FirstParts(size) ==
    LET count == PartCount(size, PreferredPart) IN 1 .. (IF count < Batch THEN count ELSE Batch)

(* signParts refuses part numbers beyond the plan's.                       *)
Signable(size) == 1 .. PartCount(size, PreferredPart)

(* A store takes at most MaxParts parts, all but the last of one size of at
   least MinPart, and the parts have to cover the file with no part empty.  *)
Fits(size, preferred) ==
    LET part == PartSize(size, preferred)
        count == PartCount(size, preferred)
    IN
    /\ part >= MinPart
    /\ count \in 1 .. MaxParts
    /\ size > 0 => (count - 1) * part < size
    /\ size <= count * part

EveryPlanFits == \A size \in Files : \A preferred \in Preferences : Fits(size, preferred)
=============================================================================
