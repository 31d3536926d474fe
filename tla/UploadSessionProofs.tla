------------------------ MODULE UploadSessionProofs ------------------------
(***************************************************************************)
(* Uploads, completions, removals and purges of UploadSession, for any     *)
(* number of requests, slots, uploads and faults: what is queued has its   *)
(* source, an upload ends once, its parts are those of a plan that covers  *)
(* the file, and a purge leaves nothing behind that was there at the       *)
(* removal.                                                                *)
(***************************************************************************)
EXTENDS UploadSession, FiniteSetTheorems, TLAPS

-----------------------------------------------------------------------------
(* The plan of a multipart upload, for every size of file and every part
   size: the arithmetic of planMultipart.                                  *)

LEMMA Division ==
    ASSUME NEW a \in Nat, NEW b \in Nat \ {0}
    PROVE  /\ a \div b \in Nat
           /\ (a \div b) * b <= a
           /\ a < (a \div b) * b + b
OBVIOUS

(* CeilDiv rounds up, and by less than one.                                *)
LEMMA CeilDivFacts ==
    ASSUME NEW a \in Nat, NEW b \in Nat \ {0}
    PROVE  /\ CeilDiv(a, b) \in Nat
           /\ a <= CeilDiv(a, b) * b
           /\ CeilDiv(a, b) * b < a + b
<1> DEFINE n == a + b - 1
<1>1. n \in Nat
  OBVIOUS
<1>2. /\ n \div b \in Nat
      /\ (n \div b) * b <= n
      /\ n < (n \div b) * b + b
  BY <1>1, Division
<1> DEFINE q == n \div b
<1>3. CeilDiv(a, b) = q
  BY DEF CeilDiv
<1>4. q * b \in Nat
  BY <1>2
<1> HIDE DEF q
<1> QED
  BY <1>2, <1>3, <1>4 DEF q

LEMMA Monotone ==
    ASSUME NEW a \in Nat, NEW b \in Nat, NEW c \in Nat, a <= b
    PROVE  a * c <= b * c /\ a * c \in Nat /\ b * c \in Nat
OBVIOUS

LEMMA Cancels ==
    ASSUME NEW a \in Nat, NEW b \in Nat, NEW c \in Nat, a * c < b * c
    PROVE  a < b
OBVIOUS

(* A part size that needs at most MaxParts parts fits.                     *)
LEMMA CountFits ==
    ASSUME NEW size \in Nat, NEW part \in Nat \ {0}, CeilDiv(size, part) <= MaxParts
    PROVE  LET count == Larger(1, CeilDiv(size, part)) IN
           /\ count \in 1 .. MaxParts
           /\ size > 0 => (count - 1) * part < size
           /\ size <= count * part
<1> DEFINE n == CeilDiv(size, part)
<1>1. n \in Nat /\ size <= n * part /\ n * part < size + part /\ n * part \in Nat
  <2>1. n \in Nat /\ size <= n * part /\ n * part < size + part
    BY CeilDivFacts
  <2> HIDE DEF n
  <2> QED
    BY <2>1
<1>2. n <= MaxParts /\ MaxParts \in Nat \ {0}
  BY SizesAssumption
<1> HIDE DEF n
<1>3. CASE n = 0
  <2>1. Larger(1, n) = 1 /\ size = 0
    BY <1>1, <1>3 DEF Larger
  <2> QED
    BY <1>2, <2>1 DEF n
<1>4. CASE n # 0
  <2>1. Larger(1, n) = n
    BY <1>1, <1>4 DEF Larger
  <2>2. (n - 1) * part = n * part - part
    BY <1>1, <1>4
  <2> QED
    BY <1>1, <1>2, <1>4, <2>1, <2>2 DEF n
<1> QED
  BY <1>3, <1>4

(* videos.service.ts:22-26: every file can be uploaded in parts that the
   store takes, whatever its size and the configured part size.            *)
THEOREM EveryFileHasAPlan ==
    ASSUME NEW size \in Nat, NEW preferred \in Nat
    PROVE  Fits(size, preferred)
<1> DEFINE wanted == Larger(preferred, MinPart)
           part == PartSize(size, preferred)
<1>1. wanted \in Nat \ {0} /\ wanted >= MinPart /\ MinPart \in Nat \ {0}
  BY SizesAssumption DEF Larger
<1>2. CeilDiv(size, wanted) \in Nat /\ CeilDiv(size, wanted) * wanted < size + wanted
  BY <1>1, CeilDivFacts
<1>3. part \in Nat \ {0} /\ part >= MinPart /\ CeilDiv(size, part) <= MaxParts
  <2>1. CASE CeilDiv(size, wanted) <= MaxParts
    <3>1. part = wanted
      BY <1>2, <2>1, SizesAssumption DEF PartSize
    <3> QED
      BY <1>1, <2>1, <3>1
  <2>2. CASE CeilDiv(size, wanted) > MaxParts
    <3> DEFINE k == MaxParts * MiB
               m == CeilDiv(size, k)
               n == CeilDiv(size, wanted)
    <3>1. part = m * MiB
      BY <2>2 DEF PartSize
    <3>2. k \in Nat \ {0} /\ MaxParts \in Nat \ {0} /\ MiB \in Nat \ {0}
      BY SizesAssumption
    <3>3. m \in Nat /\ size <= m * k
      BY <3>2, CeilDivFacts
    <3>4. part \in Nat
      BY <3>1, <3>2, <3>3
    <3>5. m * k = MaxParts * part
      BY <3>1, <3>2, <3>3
    <3>6. MaxParts * wanted < size
      <4>1. n - 1 \in Nat /\ MaxParts <= n - 1
        BY <1>2, <2>2, <3>2
      <4>2. MaxParts * wanted <= (n - 1) * wanted
        BY <1>1, <3>2, <4>1, Monotone
      <4>3. (n - 1) * wanted = n * wanted - wanted /\ n * wanted \in Nat /\ MaxParts * wanted \in Nat
        BY <1>1, <1>2, <3>2
      <4> HIDE DEF n, wanted
      <4> QED
        BY <1>1, <1>2, <4>2, <4>3 DEF n
    <3>7. wanted < part
      <4>1. wanted * MaxParts < part * MaxParts
        <5>1. MaxParts * wanted \in Nat /\ MaxParts * part \in Nat
          BY <1>1, <3>2, <3>4
        <5>2. MaxParts * wanted < MaxParts * part
          BY <3>3, <3>5, <3>6, <5>1
        <5> QED
          BY <1>1, <3>2, <3>4, <5>2
      <4> QED
        BY <1>1, <3>2, <3>4, <4>1, Cancels
    <3>8. part \in Nat \ {0} /\ part >= MinPart
      BY <1>1, <3>4, <3>7
    <3>9. CeilDiv(size, part) < MaxParts + 1
      <4> DEFINE c == CeilDiv(size, part)
      <4>1. c \in Nat /\ c * part < size + part
        BY <3>8, CeilDivFacts
      <4>2. (MaxParts + 1) * part = MaxParts * part + part /\ MaxParts * part \in Nat /\ c * part \in Nat
        BY <3>2, <3>4, <4>1
      <4>3. c * part < (MaxParts + 1) * part
        BY <3>3, <3>4, <3>5, <4>1, <4>2
      <4>4. MaxParts + 1 \in Nat
        BY <3>2
      <4> HIDE DEF c
      <4> QED
        BY <3>4, <4>1, <4>3, <4>4, Cancels DEF c
    <3>10. CeilDiv(size, part) \in Nat
      BY <3>8, CeilDivFacts
    <3> QED
      BY <3>2, <3>8, <3>9, <3>10
  <2> QED
    BY <1>2, <2>1, <2>2, SizesAssumption
<1> HIDE DEF part
<1>4. /\ PartCount(size, preferred) = Larger(1, CeilDiv(size, part))
  BY DEF PartCount, part
<1> QED
  BY <1>3, <1>4, CountFits DEF Fits, part

(* Every plan that is checked fits.                                        *)
THEOREM EveryPlanFitsHolds == EveryPlanFits
BY EveryFileHasAPlan, SizesAssumption DEF EveryPlanFits
-----------------------------------------------------------------------------
(* Types of the values that steps write.                                   *)

LEMMA BlankValues ==
    /\ Nothing \in Stored /\ Nothing.size = "none"
    /\ NoRequest \in Request /\ NoRequest.pc = "idle" /\ NoRequest.upload = 0
    /\ NoTask \in Task /\ NoTask.pc = "idle"
    /\ Expired \in Stored
  BY SessionAssumption DEF Nothing, Expired, Stored, NoRequest, Request, NoTask, Task

(* The queue's operations add no other jobs.                               *)
LEMMA JobsStayTyped ==
    ASSUME DOMAIN jobs \subseteq {IngestJob, PurgeJob},
           \/ \E id \in {IngestJob, PurgeJob} : \E data : Add(id, data)
           \/ \E w, id : Take(w, id)
           \/ \E w, id, state : Settle(w, id, state)
           \/ \E id : Reclaim(id)
           \/ UNCHANGED jobs
    PROVE  DOMAIN jobs' \subseteq {IngestJob, PurgeJob}
<1> HIDE DEF IngestJob, PurgeJob
<1>1. CASE \E id \in {IngestJob, PurgeJob} : \E data : Add(id, data)
  BY <1>1 DEF Add
<1>2. CASE \E w, id : Take(w, id)
  BY <1>2 DEF Take
<1>3. CASE \E w, id, state : Settle(w, id, state)
  BY <1>3 DEF Settle
<1>4. CASE \E id : Reclaim(id)
  BY <1>4 DEF Reclaim
<1>. QED BY <1>1, <1>2, <1>3, <1>4

(* Typed updates of a row, an upload, a request and a task.                *)
LEMMA VideoUpdates ==
    ASSUME NEW v \in Video, NEW status \in {"CREATED", "UPLOADING", "QUEUED", "PROCESSING", "FAILED"},
           NEW u \in Uploads \cup {0}
    PROVE  /\ [v EXCEPT !.status = "UPLOADING", !.url = TRUE, !.upload = u] \in Video
           /\ [v EXCEPT !.url = TRUE] \in Video
           /\ [v EXCEPT !.status = status] \in Video
           /\ [v EXCEPT !.status = "QUEUED", !.upload = 0, !.run = @ + 1] \in Video
           /\ [v EXCEPT !.deleted = TRUE] \in Video
           /\ [v EXCEPT !.purged = TRUE] \in Video
           /\ [v EXCEPT !.gone = TRUE] \in Video
           /\ [v EXCEPT !.expired = TRUE] \in Video
<1>1. [v EXCEPT !.status = "QUEUED", !.upload = 0, !.run = @ + 1] \in Video
  <2> DEFINE run == v.run + 1
  <2>1. run \in Nat
    BY DEF Video
  <2> HIDE DEF run
  <2>2. [v EXCEPT !.status = "QUEUED", !.upload = 0, !.run = run] \in Video
    BY <2>1 DEF Video
  <2>. QED BY <2>2 DEF run
<1>2. [v EXCEPT !.status = "UPLOADING", !.url = TRUE, !.upload = u] \in Video
  BY DEF Video
<1>3. [v EXCEPT !.url = TRUE] \in Video /\ [v EXCEPT !.status = status] \in Video
  BY DEF Video
<1>4. [v EXCEPT !.deleted = TRUE] \in Video /\ [v EXCEPT !.purged = TRUE] \in Video
      /\ [v EXCEPT !.gone = TRUE] \in Video /\ [v EXCEPT !.expired = TRUE] \in Video
  BY DEF Video
<1>. QED BY <1>1, <1>2, <1>3, <1>4

LEMMA UploadUpdates ==
    ASSUME NEW up \in Upload, NEW parts \in SUBSET Nat, NEW state \in {"none", "open", "gone"}
    PROVE  /\ [up EXCEPT !.state = state] \in Upload
           /\ [up EXCEPT !.filled = TRUE] \in Upload
           /\ [up EXCEPT !.signed = parts] \in Upload
BY DEF Upload

LEMMA Going ==
    ASSUME TypeOK, NEW q \in Requests,
           NEW pc \in {"idle", "abort", "create", "start", "assemble", "head", "refuse", "queue",
                       "enqueue-ingest", "remove", "abort-removed", "enqueue-purge"},
           Goto(q, pc)
    PROVE  /\ request' \in [Requests -> Request]
           /\ request'[q].pc = pc /\ request'[q].upload = request[q].upload
           /\ \A p \in Requests : p # q => request'[p] = request[p]
<1>1. request[q] \in Request
  BY DEF TypeOK
<1>2. [request[q] EXCEPT !.pc = pc] \in Request
  BY <1>1 DEF Request
<1>. QED BY <1>1, <1>2 DEF Goto, TypeOK, Request

LEMMA Answering ==
    ASSUME TypeOK, NEW q \in Requests, Answer(q)
    PROVE  /\ request' \in [Requests -> Request]
           /\ request'[q].pc = "idle"
           /\ \A p \in Requests : p # q => request'[p] = request[p]
BY BlankValues DEF Answer, TypeOK

LEMMA GoingOn ==
    ASSUME TypeOK, NEW w \in Slots,
           NEW pc \in {"idle", "ingest", "store", "purge", "abort-all", "delete-prefix", "delete-keys", "mark",
                       "delete-row", "expire", "mark-expired"},
           GotoTask(w, pc)
    PROVE  /\ task' \in [Slots -> Task]
           /\ task'[w].pc = pc /\ task'[w].keys = task[w].keys
           /\ \A v \in Slots : v # w => task'[v] = task[v]
<1>1. task[w] \in Task
  BY DEF TypeOK
<1>2. [task[w] EXCEPT !.pc = pc] \in Task
  BY <1>1 DEF Task
<1>. QED BY <1>1, <1>2 DEF GotoTask, TypeOK, Task

LEMMA Ending ==
    ASSUME TypeOK, NEW w \in Slots, task' = [task EXCEPT ![w] = NoTask]
    PROVE  /\ task' \in [Slots -> Task]
           /\ task'[w].pc = "idle"
           /\ \A v \in Slots : v # w => task'[v] = task[v]
BY BlankValues DEF TypeOK

LEMMA Using ==
    ASSUME TypeOK, NEW x \in DOMAIN Bound, Use(x) \/ Suffer(x)
    PROVE  /\ used' \in [DOMAIN Bound -> Nat]
           /\ used'.abortErrors = 0 => used.abortErrors = 0
           /\ used'.keyErrors = 0 => used.keyErrors = 0
           /\ x = "abortErrors" => used'.abortErrors # 0
           /\ x = "keyErrors" => used'.keyErrors # 0
<1>1. used \in [DOMAIN Bound -> Nat] /\ {"faults", "abortErrors", "keyErrors"} \subseteq DOMAIN Bound
  BY SessionAssumption DEF TypeOK
<1>2. CASE Use(x)
  <2>1. used' = [used EXCEPT ![x] = used[x] + 1]
    BY <1>2 DEF Use
  <2>. QED BY <1>1, <2>1
<1>3. CASE Suffer(x)
  <2>1. used' = [used EXCEPT ![x] = @ + 1, !["faults"] = @ + 1]
    BY <1>3 DEF Suffer
  <2>2. \A y \in DOMAIN Bound : used'[y] \in Nat /\ used'[y] >= used[y]
    BY <1>1, <2>1
  <2>3. used' \in [DOMAIN Bound -> Nat] /\ used'[x] > used[x]
    BY <1>1, <2>1, <2>2
  <2>. QED BY <1>1, <2>2, <2>3
<1>. QED BY <1>2, <1>3

LEMMA Closing ==
    ASSUME TypeOK, NEW u, uploads' = Closed(u)
    PROVE  /\ uploads' \in [Uploads -> Upload]
           /\ \A v \in Uploads : uploads'[v].late = uploads[v].late
           /\ Open' \subseteq Open
<1>1. CASE u \in Uploads
  <2> DEFINE state == IF uploads[u].state = "open" THEN "gone" ELSE uploads[u].state
             up == [uploads[u] EXCEPT !.state = state]
  <2>1. uploads[u] \in Upload /\ state \in {"none", "open", "gone"}
    BY <1>1 DEF TypeOK, Upload
  <2>2. uploads' = [uploads EXCEPT ![u] = up]
    BY DEF Closed
  <2>3. up.late = uploads[u].late /\ up.state = state
    BY <2>1 DEF Upload
  <2>4. up \in Upload
    BY <2>1, UploadUpdates
  <2>5. state # "open"
    OBVIOUS
  <2> HIDE DEF state, up
  <2>. QED BY <1>1, <2>2, <2>3, <2>4, <2>5 DEF TypeOK, Open
<1>2. CASE u \notin Uploads
  <2>1. uploads' = uploads
    BY <1>2 DEF Closed, TypeOK
  <2>. QED BY <2>1 DEF TypeOK, Open
<1>. QED BY <1>1, <1>2

-----------------------------------------------------------------------------
(* What every step outside a purge keeps to.                               *)

Kept == Present(source) \/ source = Expired

Frame ==
    /\ video.deleted => video'.deleted
    /\ video'.gone = video.gone
    /\ video'.status \in {"QUEUED", "PROCESSING"} =>
          \/ video.status \in {"QUEUED", "PROCESSING"} \/ video'.deleted \/ Kept'
    /\ Kept => Kept'
    /\ video.deleted => /\ OnlyLate(source) => OnlyLate(source)'
                        /\ OnlyLate(derived) => OnlyLate(derived)'
                        /\ (\A u \in Open : uploads[u].late) => (\A u \in Open : uploads[u].late)'
    /\ used'.abortErrors = 0 => used.abortErrors = 0
    /\ used'.keyErrors = 0 => used.keyErrors = 0
    /\ \A q \in Requests : request'[q].pc = "queue" =>
          request[q].pc = "queue" \/ video'.deleted \/ Kept'
    /\ \A w \in Slots : task'[w].pc \in Aborted \cup {"abort-all"} =>
          task'[w].pc = task[w].pc /\ task'[w].keys = task[w].keys

LEMMA Framed ==
    ASSUME UploadInv, TypeOK', Frame
    PROVE  UploadInv'
<1>1. QueuedHasSource'
  BY DEF UploadInv, Frame, QueuedHasSource, Owned, Kept
<1>2. (video.gone => video.deleted)'
  BY DEF UploadInv, Frame
<1>3. PurgeIsComplete'
  <2> SUFFICES ASSUME video'.gone
        PROVE  /\ used'.keyErrors = 0 => OnlyLate(source)' /\ OnlyLate(derived)'
               /\ used'.abortErrors = 0 => (\A u \in Open : uploads[u].late)'
    BY DEF PurgeIsComplete, OnlyLate
  <2>1. video.gone /\ video.deleted
    BY DEF UploadInv, Frame
  <2>2. (used.keyErrors = 0 => OnlyLate(source) /\ OnlyLate(derived))
        /\ (used.abortErrors = 0 => \A u \in Open : uploads[u].late)
    BY <2>1 DEF UploadInv, PurgeIsComplete, OnlyLate
  <2>. QED BY <2>1, <2>2 DEF Frame
<1>4. WaysAreSound'
  <2>1. ASSUME NEW q \in Requests, request'[q].pc = "queue", Owned'
        PROVE  Kept'
    BY <2>1 DEF UploadInv, WaysAreSound, Frame, Owned, Kept
  <2>2. ASSUME NEW w \in Slots, task'[w].pc \in Aborted \cup {"abort-all"}
        PROVE  /\ video'.deleted
               /\ used'.keyErrors = 0 /\ task'[w].pc \in {"delete-keys", "mark", "delete-row"} =>
                     /\ task'[w].pc # "delete-keys" \/ "source" \notin task'[w].keys => OnlyLate(source)'
                     /\ task'[w].pc # "delete-keys" \/ "derived" \notin task'[w].keys => OnlyLate(derived)'
               /\ task'[w].pc \in Aborted /\ used'.abortErrors = 0 => (\A u \in Open : uploads[u].late)'
    <3>1. task'[w].pc = task[w].pc /\ task'[w].keys = task[w].keys
      BY <2>2 DEF Frame
    <3>2. video.deleted
      BY <2>2, <3>1 DEF UploadInv, WaysAreSound
    <3>3. /\ used.keyErrors = 0 /\ task[w].pc \in {"delete-keys", "mark", "delete-row"} =>
                /\ task[w].pc # "delete-keys" \/ "source" \notin task[w].keys => OnlyLate(source)
                /\ task[w].pc # "delete-keys" \/ "derived" \notin task[w].keys => OnlyLate(derived)
          /\ task[w].pc \in Aborted /\ used.abortErrors = 0 => (\A u \in Open : uploads[u].late)
      BY DEF UploadInv, WaysAreSound
    <3>. QED BY <3>1, <3>2, <3>3 DEF Frame
  <2>. QED BY <2>1, <2>2 DEF WaysAreSound, OnlyLate, Kept, Present, Owned, Aborted
<1>. QED BY <1>1, <1>2, <1>3, <1>4 DEF UploadInv

-----------------------------------------------------------------------------
(* The steps of requests and of the browser.                               *)

LEMMA RequestsRead ==
    ASSUME UploadInv, NEW q \in Requests,
           \/ CreateUploadSession(q) \/ CompleteUpload(q) \/ Remove(q) \/ Head(q)
           \/ EnqueueIngest(q) \/ EnqueuePurge(q) \/ RequestDies(q)
    PROVE  UploadInv'
<1>1. TypeOK /\ UNCHANGED <<video, uploads, source, derived, task>>
  BY DEF UploadInv, CreateUploadSession, CompleteUpload, Remove, Begin, Head, EnqueueIngest,
         EnqueuePurge, RequestDies, store
<1>2. /\ used' \in [DOMAIN Bound -> Nat]
      /\ used'.abortErrors = 0 => used.abortErrors = 0
      /\ used'.keyErrors = 0 => used.keyErrors = 0
  <2>1. CASE UNCHANGED used
    BY <1>1, <2>1 DEF TypeOK
  <2>2. CASE \E x \in DOMAIN Bound : Use(x) \/ Suffer(x)
    BY <1>1, <2>2, Using
  <2>3. UNCHANGED used \/ (\E x \in DOMAIN Bound : Use(x) \/ Suffer(x))
    BY SessionAssumption DEF CreateUploadSession, CompleteUpload, Remove, Begin, Head, EnqueueIngest,
         EnqueuePurge, RequestDies
  <2>. QED BY <2>1, <2>2, <2>3
<1>3. DOMAIN jobs' \subseteq {IngestJob, PurgeJob}
  BY <1>1, JobsStayTyped
     DEF TypeOK, CreateUploadSession, CompleteUpload, Remove, Begin, Head, EnqueueIngest,
         EnqueuePurge, RequestDies
<1>4. /\ request' \in [Requests -> Request]
      /\ \A p \in Requests : request'[p].pc = "queue" =>
            request[p].pc = "queue" \/ Kept
  <2>1. CASE Answer(q)
    BY <1>1, <2>1, Answering
  <2>2. CASE Head(q)
    <3>1. CASE ~ Present(source)
      <4>1. Answer(q)
        BY <2>2, <3>1 DEF Head, Present
      <4>. QED BY <1>1, <4>1, Answering
    <3>2. CASE source.size = "large"
      <4>1. Goto(q, "refuse")
        BY <2>2, <3>2 DEF Head, Present
      <4>. QED BY <1>1, <4>1, Going
    <3>3. CASE source.size = "fits"
      <4>1. Goto(q, "queue")
        BY <2>2, <3>3 DEF Head, Present
      <4>. QED BY <1>1, <3>3, <4>1, Going DEF Kept, Present
    <3>. QED BY <1>1, <3>1, <3>2, <3>3 DEF TypeOK, Stored, Present
  <2>3. ASSUME NEW pc \in {"create", "abort", "start", "assemble", "head", "remove"},
               request' = [request EXCEPT ![q] = [pc |-> pc, upload |-> video.upload]]
        PROVE  /\ request' \in [Requests -> Request]
               /\ \A p \in Requests : request'[p].pc = "queue" => request[p].pc = "queue"
    <3>1. [pc |-> pc, upload |-> video.upload] \in Request
      BY <1>1 DEF TypeOK, Video, Request
    <3>. QED BY <1>1, <2>3, <3>1 DEF TypeOK
  <2>4. CASE CreateUploadSession(q) \/ CompleteUpload(q) \/ Remove(q)
    BY <2>3, <2>4 DEF CreateUploadSession, CompleteUpload, Remove, Begin
  <2>. QED BY <2>1, <2>2, <2>4 DEF EnqueueIngest, EnqueuePurge, RequestDies
<1>5. TypeOK'
  BY <1>1, <1>2, <1>3, <1>4 DEF TypeOK
<1>6. Frame
  BY <1>1, <1>2, <1>4 DEF Frame, OnlyLate, Present, Kept, Open
<1>. QED BY <1>5, <1>6, Framed

LEMMA Aborting ==
    ASSUME UploadInv, NEW q \in Requests, AbortStale(q) \/ AbortRemoved(q)
    PROVE  UploadInv'
<1>1. /\ TypeOK /\ UNCHANGED <<video, source, derived, jobs, task>>
      /\ Abort(request[q].upload)
      /\ Goto(q, "create") \/ Goto(q, "enqueue-purge")
  BY DEF UploadInv, AbortStale, AbortRemoved
<1>2. /\ request' \in [Requests -> Request]
      /\ \A p \in Requests : request'[p].pc = "queue" => request[p].pc = "queue"
  BY <1>1, Going
<1>3. /\ uploads' \in [Uploads -> Upload]
      /\ \A v \in Uploads : uploads'[v].late = uploads[v].late
      /\ Open' \subseteq Open
      /\ used' \in [DOMAIN Bound -> Nat]
      /\ used'.abortErrors = 0 => used.abortErrors = 0
      /\ used'.keyErrors = 0 => used.keyErrors = 0
  <2>1. CASE uploads' = Closed(request[q].upload) /\ UNCHANGED used
    BY <1>1, <2>1, Closing DEF TypeOK
  <2>2. CASE UNCHANGED uploads /\ Suffer("refusals")
    BY <1>1, <2>2, Using, SessionAssumption DEF TypeOK, Open
  <2>. QED BY <1>1, <2>1, <2>2 DEF Abort
<1>4. TypeOK'
  BY <1>1, <1>2, <1>3 DEF TypeOK
<1>5. Frame
  <2>1. (\A u \in Open : uploads[u].late) => (\A u \in Open : uploads[u].late)'
    BY <1>3 DEF Open
  <2>. QED BY <1>1, <1>2, <1>3, <2>1 DEF Frame, OnlyLate, Present, Kept
<1>. QED BY <1>4, <1>5, Framed

LEMMA Creating ==
    ASSUME UploadInv, NEW q \in Requests, CreateMultipart(q)
    PROVE  UploadInv'
<1>1. TypeOK /\ UNCHANGED <<video, source, derived, jobs, task, used>>
  BY DEF UploadInv, CreateMultipart
<1> DEFINE up == [state |-> "open", filled |-> FALSE, signed |-> {}, late |-> video.deleted]
<1>2. PICK u \in Uploads : /\ uploads' = [uploads EXCEPT ![u] = up]
                           /\ request' = [request EXCEPT ![q] = [pc |-> "start", upload |-> u]]
  BY DEF CreateMultipart
<1>3. up \in Upload /\ up.late = video.deleted
  BY <1>1 DEF Upload, TypeOK, Video
<1> HIDE DEF up
<1>4. [pc |-> "start", upload |-> u] \in Request
  BY DEF Request
<1>5. TypeOK'
  BY <1>1, <1>2, <1>3, <1>4 DEF TypeOK
<1>6. \A p \in Requests : request'[p].pc = "queue" => request[p].pc = "queue"
  BY <1>1, <1>2 DEF TypeOK
<1>7. video.deleted /\ (\A v \in Open : uploads[v].late) => (\A v \in Open : uploads[v].late)'
  BY <1>1, <1>2, <1>3 DEF TypeOK, Open
<1>8. Frame
  BY <1>1, <1>6, <1>7 DEF Frame, OnlyLate, Present, Kept
<1>. QED BY <1>5, <1>8, Framed

(* Changes to an upload that keep its state and its age.                   *)
LEMMA Signing ==
    ASSUME TypeOK, NEW u \in Uploads, NEW parts \in SUBSET Nat,
           \/ uploads' = [uploads EXCEPT ![u].signed = parts]
           \/ uploads' = [uploads EXCEPT ![u].filled = TRUE]
    PROVE  /\ uploads' \in [Uploads -> Upload]
           /\ (\A v \in Open : uploads[v].late) => (\A v \in Open : uploads[v].late)'
<1>1. uploads[u] \in Upload
  BY DEF TypeOK
<1>2. CASE uploads' = [uploads EXCEPT ![u].signed = parts]
  <2> DEFINE up == [uploads[u] EXCEPT !.signed = parts]
  <2>1. up \in Upload /\ up.state = uploads[u].state /\ up.late = uploads[u].late
    BY <1>1, UploadUpdates DEF Upload
  <2>2. uploads' = [uploads EXCEPT ![u] = up]
    BY <1>2
  <2> HIDE DEF up
  <2>. QED BY <2>1, <2>2 DEF TypeOK, Open
<1>3. CASE uploads' = [uploads EXCEPT ![u].filled = TRUE]
  <2> DEFINE up == [uploads[u] EXCEPT !.filled = TRUE]
  <2>1. up \in Upload /\ up.state = uploads[u].state /\ up.late = uploads[u].late
    BY <1>1, UploadUpdates DEF Upload
  <2>2. uploads' = [uploads EXCEPT ![u] = up]
    BY <1>3
  <2> HIDE DEF up
  <2>. QED BY <2>1, <2>2 DEF TypeOK, Open
<1>. QED BY <1>2, <1>3

LEMMA Parts == \A size : FirstParts(size) \in SUBSET Nat /\ Signable(size) \in SUBSET Nat
  BY DEF FirstParts, Signable

LEMMA Starting ==
    ASSUME UploadInv, NEW q \in Requests, StartUpload(q)
    PROVE  UploadInv'
<1> DEFINE u == IF UsesMultipart(video.size) THEN request[q].upload ELSE 0
<1>1. TypeOK /\ UNCHANGED <<source, derived, jobs, task, used>> /\ Answer(q)
  BY DEF UploadInv, StartUpload
<1>2. u \in Uploads \cup {0}
  BY <1>1 DEF TypeOK, Request
<1>3. /\ video' \in Video /\ video'.deleted = video.deleted /\ video'.gone = video.gone
      /\ video'.status \in {video.status, "UPLOADING"}
  <2>1. video \in Video
    BY <1>1 DEF TypeOK
  <2>2. CASE CanMove({"CREATED", "UPLOADING"})
    <3>1. video' = [video EXCEPT !.status = "UPLOADING", !.url = TRUE, !.upload = u]
      BY <2>2 DEF StartUpload
    <3> HIDE DEF u
    <3>2. video' \in Video
      BY <1>2, <2>1, <3>1, VideoUpdates
    <3>. QED BY <2>1, <3>1, <3>2 DEF Video
  <2>3. CASE ~ CanMove({"CREATED", "UPLOADING"})
    <3>1. video' = [video EXCEPT !.url = TRUE]
      BY <2>3 DEF StartUpload
    <3>2. video' \in Video
      BY <2>1, <3>1, VideoUpdates
    <3>. QED BY <2>1, <3>1, <3>2 DEF Video
  <2>. QED BY <2>2, <2>3
<1>4. /\ uploads' \in [Uploads -> Upload]
      /\ (\A v \in Open : uploads[v].late) => (\A v \in Open : uploads[v].late)'
  <2>1. CASE u = 0
    <3>1. uploads' = uploads
      BY <2>1 DEF StartUpload
    <3>. QED BY <1>1, <3>1 DEF TypeOK, Open
  <2>2. CASE u # 0
    <3>1. uploads' = [uploads EXCEPT ![u].signed = FirstParts(video.size)]
      BY <2>2 DEF StartUpload
    <3> HIDE DEF u
    <3>. QED BY <1>1, <1>2, <2>2, <3>1, Signing, Parts
  <2>. QED BY <2>1, <2>2
<1> HIDE DEF u
<1>5. TypeOK'
  BY <1>1, <1>3, <1>4, Answering DEF TypeOK
<1>6. Frame
  BY <1>1, <1>3, <1>4, Answering DEF Frame, OnlyLate, Present, Kept
<1>. QED BY <1>5, <1>6, Framed

LEMMA Browsing ==
    ASSUME UploadInv, SignPart \/ PutSource \/ PutParts
    PROVE  UploadInv'
<1>1. TypeOK /\ UNCHANGED <<video, derived, jobs, task, request>>
  BY DEF UploadInv, SignPart, PutSource, PutParts
<1>2. CASE SignPart \/ PutParts
  <2>1. UNCHANGED <<source, used>>
    BY <1>2 DEF SignPart, PutParts
  <2>2. \E u \in Uploads, parts \in SUBSET Nat :
            \/ uploads' = [uploads EXCEPT ![u].signed = parts]
            \/ uploads' = [uploads EXCEPT ![u].filled = TRUE]
    <3>1. CASE SignPart
      <4> DEFINE u == video.upload
      <4>1. u \in Uploads
        BY <1>1, <3>1 DEF SignPart, TypeOK, Video
      <4>2. PICK n \in Signable(video.size) :
              uploads' = [uploads EXCEPT ![u].signed = @ \cup {n}]
        BY <3>1 DEF SignPart
      <4>3. uploads[u].signed \cup {n} \in SUBSET Nat
        BY <1>1, <4>1, <4>2, Parts DEF TypeOK, Upload
      <4>4. uploads' = [uploads EXCEPT ![u].signed = uploads[u].signed \cup {n}]
        BY <4>2
      <4> HIDE DEF u
      <4>. QED BY <4>1, <4>3, <4>4
    <3>2. CASE PutParts
      <4>1. PICK u \in Open : uploads' = [uploads EXCEPT ![u].filled = TRUE]
        BY <3>2 DEF PutParts
      <4>2. u \in Uploads /\ {} \in SUBSET Nat
        BY DEF Open
      <4>. QED BY <4>1, <4>2
    <3>. QED BY <1>2, <3>1, <3>2
  <2>3. /\ uploads' \in [Uploads -> Upload]
        /\ (\A v \in Open : uploads[v].late) => (\A v \in Open : uploads[v].late)'
    BY <1>1, <2>2, Signing
  <2>4. TypeOK'
    BY <1>1, <2>1, <2>3 DEF TypeOK
  <2>5. Frame
    BY <1>1, <2>1, <2>3 DEF Frame, OnlyLate, Present, Kept
  <2>. QED BY <2>4, <2>5, Framed
<1>3. CASE PutSource
  <2>1. /\ UNCHANGED uploads
        /\ used' \in [DOMAIN Bound -> Nat] /\ (used'.abortErrors = 0 => used.abortErrors = 0)
        /\ (used'.keyErrors = 0 => used.keyErrors = 0)
    BY <1>1, <1>3, SessionAssumption, Using DEF PutSource
  <2>2. PICK size \in {"fits", "large"} : source' = Object(size)
    BY <1>3 DEF PutSource
  <2>3. source' \in Stored /\ Present(source)' /\ source'.late = video.deleted
    BY <1>1, <2>2 DEF Object, Stored, TypeOK, Video, Present
  <2>4. TypeOK'
    BY <1>1, <2>1, <2>3 DEF TypeOK
  <2>5. Frame
    BY <1>1, <2>1, <2>3 DEF Frame, OnlyLate, Present, Kept, Open
  <2>. QED BY <2>4, <2>5, Framed
<1>. QED BY <1>2, <1>3

LEMMA Assembling ==
    ASSUME UploadInv, NEW q \in Requests, Assemble(q)
    PROVE  UploadInv'
<1> DEFINE u == request[q].upload
<1>1. TypeOK /\ UNCHANGED <<video, derived, jobs, task, used>>
  BY DEF UploadInv, Assemble
<1>2. Goto(q, "head") \/ Answer(q)
  BY DEF Assemble
<1>3. /\ request' \in [Requests -> Request]
      /\ \A p \in Requests : request'[p].pc = "queue" => request[p].pc = "queue"
  BY <1>1, <1>2, Going, Answering
<1>4. CASE UNCHANGED <<uploads, source>>
  <2>1. TypeOK'
    BY <1>1, <1>3, <1>4 DEF TypeOK
  <2>2. Frame
    BY <1>1, <1>3, <1>4 DEF Frame, OnlyLate, Present, Kept, Open
  <2>. QED BY <2>1, <2>2, Framed
<1>5. CASE /\ u \in Open /\ uploads' = [uploads EXCEPT ![u].state = "gone"]
           /\ \E size \in {"fits", "large"} : source' = Object(size)
  <2> DEFINE up == [uploads[u] EXCEPT !.state = "gone"]
  <2>1. uploads[u] \in Upload /\ u \in Uploads
    BY <1>1, <1>5 DEF TypeOK, Open
  <2>2. up \in Upload /\ up.state = "gone" /\ up.late = uploads[u].late
    BY <2>1, UploadUpdates DEF Upload
  <2>3. uploads' = [uploads EXCEPT ![u] = up]
    BY <1>5
  <2>4. source' \in Stored /\ Present(source)' /\ source'.late = video.deleted
    BY <1>1, <1>5 DEF Object, Stored, TypeOK, Video, Present
  <2> HIDE DEF up, u
  <2>5. TypeOK'
    BY <1>1, <1>3, <2>2, <2>3, <2>4 DEF TypeOK
  <2>6. (\A v \in Open : uploads[v].late) => (\A v \in Open : uploads[v].late)'
    BY <1>1, <2>1, <2>2, <2>3 DEF TypeOK, Open
  <2>7. Frame
    BY <1>1, <1>3, <2>4, <2>6 DEF Frame, OnlyLate, Present, Kept
  <2>. QED BY <2>5, <2>7, Framed
<1>. QED BY <1>4, <1>5 DEF Assemble

LEMMA Completing ==
    ASSUME UploadInv, NEW q \in Requests, Refuse(q) \/ QueueUpload(q) \/ SoftDelete(q)
    PROVE  UploadInv'
<1>1. TypeOK /\ video \in Video /\ UNCHANGED <<uploads, source, derived, jobs, task, used>>
  BY DEF UploadInv, TypeOK, Refuse, QueueUpload, SoftDelete, store
<1>2. /\ request' \in [Requests -> Request]
      /\ \A p \in Requests : request'[p].pc = "queue" => request[p].pc = "queue"
  <2>1. \/ Answer(q) \/ Goto(q, "enqueue-ingest")
        \/ Goto(q, "abort-removed") \/ Goto(q, "enqueue-purge")
    BY DEF Refuse, QueueUpload, SoftDelete
  <2>. QED BY <1>1, <2>1, Going, Answering
<1>3. /\ video' \in Video /\ (video.deleted => video'.deleted) /\ video'.gone = video.gone
      /\ video'.status \in {"QUEUED", "PROCESSING"} =>
            \/ video.status \in {"QUEUED", "PROCESSING"} \/ video'.deleted \/ Kept
  <2>1. CASE UNCHANGED video
    BY <1>1, <2>1
  <2>2. CASE video' = [video EXCEPT !.status = "FAILED"]
    <3>1. video' \in Video
      BY <1>1, <2>2, VideoUpdates
    <3>. QED BY <1>1, <2>2, <3>1 DEF Video
  <2>3. CASE /\ video' = [video EXCEPT !.status = "QUEUED", !.upload = 0, !.run = @ + 1]
             /\ request[q].pc = "queue"
    <3>1. Owned => Kept
      BY <2>3 DEF UploadInv, WaysAreSound, Kept
    <3>2. video' \in Video
      BY <1>1, <2>3, VideoUpdates
    <3>. QED BY <1>1, <2>3, <3>1, <3>2 DEF Video, Owned
  <2>4. CASE video' = [video EXCEPT !.deleted = TRUE]
    <3>1. video' \in Video
      BY <1>1, <2>4, VideoUpdates
    <3>. QED BY <1>1, <2>4, <3>1 DEF Video
  <2>. QED BY <2>1, <2>2, <2>3, <2>4 DEF Refuse, QueueUpload, SoftDelete
<1>4. TypeOK'
  BY <1>1, <1>2, <1>3 DEF TypeOK
<1>5. Frame
  BY <1>1, <1>2, <1>3 DEF Frame, OnlyLate, Present, Kept, Open
<1>. QED BY <1>4, <1>5, Framed

-----------------------------------------------------------------------------
(* The steps of the worker and of the janitor.                             *)

LEMMA Queueing ==
    ASSUME UploadInv, Stall \/ ReschedulePurge \/ Requeue
    PROVE  UploadInv'
<1>1. TypeOK /\ UNCHANGED <<video, uploads, source, derived, task, request, used>>
  BY DEF UploadInv, Stall, ReschedulePurge, Requeue, store
<1>2. DOMAIN jobs' \subseteq {IngestJob, PurgeJob}
  BY <1>1, JobsStayTyped DEF TypeOK, Stall, ReschedulePurge, Requeue
<1>3. TypeOK'
  BY <1>1, <1>2 DEF TypeOK
<1>4. Frame
  BY <1>1 DEF Frame, OnlyLate, Present, Kept, Open
<1>. QED BY <1>3, <1>4, Framed

(* A slot that takes a job, leaves its job, or goes on with the row and the
   store as they were.                                                     *)
LEMMA Working ==
    ASSUME UploadInv, NEW w \in Slots,
           Start(w) \/ IngestStarts(w) \/ IngestStores(w) \/ TaskFails(w) \/ Crash(w) \/ RetentionReads(w)
    PROVE  UploadInv'
<1>1. TypeOK /\ video \in Video /\ UNCHANGED <<uploads, source, request>>
  BY DEF UploadInv, TypeOK, Start, IngestStarts, IngestStores, TaskFails, Crash, RetentionReads, store
<1>2. /\ used' \in [DOMAIN Bound -> Nat]
      /\ used'.abortErrors = 0 => used.abortErrors = 0
      /\ used'.keyErrors = 0 => used.keyErrors = 0
  <2>1. CASE UNCHANGED used
    BY <1>1, <2>1 DEF TypeOK
  <2>2. CASE \E x \in DOMAIN Bound : Use(x) \/ Suffer(x)
    BY <1>1, <2>2, Using
  <2>3. UNCHANGED used \/ (\E x \in DOMAIN Bound : Use(x) \/ Suffer(x))
    BY SessionAssumption DEF Start, IngestStarts, IngestStores, TaskFails, Crash, RetentionReads
  <2>. QED BY <2>1, <2>2, <2>3
<1>3. DOMAIN jobs' \subseteq {IngestJob, PurgeJob}
  BY <1>1, JobsStayTyped DEF TypeOK, Start, IngestStarts, IngestStores, TaskFails, Crash, RetentionReads, Ends
<1>4. /\ task' \in [Slots -> Task]
      /\ \A v \in Slots : task'[v].pc \in Aborted \cup {"abort-all"} =>
            task'[v].pc = task[v].pc /\ task'[v].keys = task[v].keys
  <2>1. CASE task' = [task EXCEPT ![w] = NoTask]
    BY <1>1, <2>1, Ending DEF Aborted
  <2>2. CASE GotoTask(w, "store")
    BY <1>1, <2>2, GoingOn DEF Aborted
  <2>3. ASSUME NEW id \in {IngestJob, PurgeJob, JanitorJob}, NEW pc \in {"ingest", "purge", "expire"},
               task' = [task EXCEPT ![w] = [pc |-> pc, job |-> id, keys |-> {}]]
        PROVE  /\ task' \in [Slots -> Task]
               /\ \A v \in Slots : task'[v].pc \in Aborted \cup {"abort-all"} =>
                     task'[v].pc = task[v].pc /\ task'[v].keys = task[v].keys
    <3>1. [pc |-> pc, job |-> id, keys |-> {}] \in Task
      BY DEF Task
    <3>. QED BY <1>1, <2>3, <3>1 DEF TypeOK, Aborted
  <2>4. CASE Start(w)
    <3>1. PICK id \in DOMAIN jobs : task' = [task EXCEPT ![w] = [pc |-> id.kind, job |-> id, keys |-> {}]]
      BY <2>4 DEF Start
    <3>2. id \in {IngestJob, PurgeJob} /\ id.kind \in {"ingest", "purge"}
      BY <1>1 DEF TypeOK, IngestJob, PurgeJob
    <3>. QED BY <2>3, <3>1, <3>2
  <2>5. CASE RetentionReads(w)
    BY <2>3, <2>5 DEF RetentionReads
  <2>. QED BY <2>1, <2>2, <2>4, <2>5 DEF IngestStarts, IngestStores, TaskFails, Crash, RetentionReads, Ends
<1>5. /\ video' \in Video /\ video'.deleted = video.deleted /\ video'.gone = video.gone
      /\ video'.status \in {"QUEUED", "PROCESSING"} => video.status \in {"QUEUED", "PROCESSING"}
  <2>1. CASE UNCHANGED video
    BY <1>1, <2>1
  <2>2. CASE video' = [video EXCEPT !.status = "PROCESSING"] /\ CanMove({"QUEUED", "PROCESSING"})
    <3>1. video' \in Video
      BY <1>1, <2>2, VideoUpdates
    <3>. QED BY <1>1, <2>2, <3>1 DEF Video, CanMove
  <2>. QED BY <2>1, <2>2 DEF Start, IngestStarts, IngestStores, TaskFails, Crash, RetentionReads
<1>6. derived' \in Stored /\ (video.deleted => (OnlyLate(derived) => OnlyLate(derived)'))
  <2>1. CASE UNCHANGED derived
    BY <1>1, <2>1 DEF TypeOK, OnlyLate
  <2>2. CASE derived' = Object("fits")
    BY <1>1, <2>2 DEF Object, Stored, Video, OnlyLate, Present
  <2>. QED BY <2>1, <2>2 DEF Start, IngestStarts, IngestStores, TaskFails, Crash, RetentionReads, store
<1>7. TypeOK'
  BY <1>1, <1>2, <1>3, <1>4, <1>5, <1>6 DEF TypeOK
<1>8. Frame
  BY <1>1, <1>2, <1>4, <1>5, <1>6 DEF Frame, OnlyLate, Present, Kept, Open
<1>. QED BY <1>7, <1>8, Framed

(* The retention turns the object of an owned video into an expired one.    *)
LEMMA Retaining ==
    ASSUME UploadInv, NEW w \in Slots, RetentionDeletes(w) \/ RetentionMarks(w)
    PROVE  UploadInv'
<1>1. TypeOK /\ video \in Video /\ UNCHANGED <<uploads, derived, jobs, request>>
  BY DEF UploadInv, TypeOK, RetentionDeletes, RetentionMarks, store
<1>2. /\ task' \in [Slots -> Task]
      /\ \A v \in Slots : task'[v].pc \in Aborted \cup {"abort-all"} =>
            task'[v].pc = task[v].pc /\ task'[v].keys = task[v].keys
  <2>1. CASE GotoTask(w, "mark-expired")
    BY <1>1, <2>1, GoingOn DEF Aborted
  <2>2. CASE task' = [task EXCEPT ![w] = NoTask]
    BY <1>1, <2>2, Ending DEF Aborted
  <2>. QED BY <2>1, <2>2 DEF RetentionDeletes, RetentionMarks
<1>3. /\ used' \in [DOMAIN Bound -> Nat]
      /\ used'.abortErrors = 0 => used.abortErrors = 0
      /\ used'.keyErrors = 0 => used.keyErrors = 0
  <2>1. CASE UNCHANGED used
    BY <1>1, <2>1 DEF TypeOK
  <2>2. CASE Suffer("keyErrors")
    BY <1>1, <2>2, Using, SessionAssumption
  <2>. QED BY <2>1, <2>2 DEF RetentionDeletes, RetentionMarks
<1>4. source' \in Stored /\ (Kept => Kept') /\ (OnlyLate(source) => OnlyLate(source)')
  <2>1. CASE UNCHANGED source
    BY <1>1, <2>1 DEF TypeOK, Kept, Present, OnlyLate
  <2>2. CASE source' = Expired
    BY <2>2, BlankValues DEF Kept, Present, OnlyLate, Expired
  <2>. QED BY <2>1, <2>2 DEF RetentionDeletes, RetentionMarks, store
<1>5. /\ video' \in Video /\ video'.deleted = video.deleted /\ video'.gone = video.gone
      /\ video'.status = video.status
  <2>1. CASE UNCHANGED video
    BY <1>1, <2>1
  <2>2. CASE video' = [video EXCEPT !.expired = TRUE]
    <3>1. video' \in Video
      BY <1>1, <2>2, VideoUpdates
    <3>. QED BY <1>1, <2>2, <3>1 DEF Video
  <2>. QED BY <2>1, <2>2 DEF RetentionDeletes, RetentionMarks
<1>6. TypeOK'
  BY <1>1, <1>2, <1>3, <1>4, <1>5 DEF TypeOK
<1>7. (OnlyLate(derived) => OnlyLate(derived)') /\ ((\A u \in Open : uploads[u].late) => (\A u \in Open : uploads[u].late)')
  BY <1>1 DEF OnlyLate, Present, Open
<1>8. Frame
  BY <1>1, <1>2, <1>3, <1>4, <1>5, <1>7 DEF Frame
<1>. QED BY <1>6, <1>8, Framed

(* A purge that finds nothing to do is over; else the video is removed, and
   remains so.                                                             *)
LEMMA PurgeBegins ==
    ASSUME UploadInv, NEW w \in Slots, PurgeReads(w)
    PROVE  UploadInv'
<1>1. TypeOK /\ UNCHANGED <<video, uploads, source, derived, request, used>>
  BY DEF UploadInv, PurgeReads, store
<1>2. CASE ~ (video.deleted /\ ~ video.gone)
  <2>1. DOMAIN jobs' \subseteq {IngestJob, PurgeJob} /\ task' = [task EXCEPT ![w] = NoTask]
    BY <1>1, <1>2, JobsStayTyped DEF TypeOK, PurgeReads, Ends
  <2>2. /\ task' \in [Slots -> Task] /\ task'[w].pc = "idle"
        /\ \A v \in Slots : v # w => task'[v] = task[v]
    BY <1>1, <2>1, Ending
  <2>3. TypeOK'
    BY <1>1, <2>1, <2>2 DEF TypeOK
  <2>5. \A v \in Slots : task'[v].pc \in Aborted \cup {"abort-all"} => task'[v] = task[v]
    BY <2>2 DEF Aborted
  <2>4. Frame
    BY <1>1, <2>5 DEF Frame, OnlyLate, Present, Kept, Open
  <2>. QED BY <2>3, <2>4, Framed
<1>3. CASE video.deleted /\ ~ video.gone
  <2>1. GotoTask(w, "abort-all") /\ UNCHANGED jobs
    BY <1>3 DEF PurgeReads
  <2>2. /\ task' \in [Slots -> Task] /\ task'[w].pc = "abort-all"
        /\ \A v \in Slots : v # w => task'[v] = task[v]
    BY <1>1, <2>1, GoingOn
  <2>3. TypeOK'
    BY <1>1, <2>1, <2>2 DEF TypeOK
  <2>4. WaysAreSound'
    <3>1. \A v \in Slots : v # w => task'[v] = task[v]
      BY <2>2
    <3>. QED BY <1>1, <1>3, <2>2 DEF UploadInv, WaysAreSound, Owned, OnlyLate, Present, Aborted, Open
  <2>5. QueuedHasSource' /\ PurgeIsComplete' /\ (video.gone => video.deleted)'
    BY <1>1 DEF UploadInv, QueuedHasSource, PurgeIsComplete, Owned, Present, Open
  <2>. QED BY <2>3, <2>4, <2>5 DEF UploadInv
<1>. QED BY <1>2, <1>3

LEMMA PurgeGoesOn ==
    ASSUME UploadInv, TypeOK', NEW w \in Slots,
           task[w].pc \in Aborted \cup {"abort-all"},
           \A v \in Slots : v # w => task'[v] = task[v],
           UNCHANGED request,
           video'.deleted = video.deleted,
           video'.gone => video.gone \/ task[w].pc = "delete-row",
           used'.abortErrors = 0 => used.abortErrors = 0,
           used'.keyErrors = 0 => used.keyErrors = 0,
           OnlyLate(source) => OnlyLate(source)',
           OnlyLate(derived) => OnlyLate(derived)',
           (\A u \in Open : uploads[u].late) => (\A u \in Open : uploads[u].late)',
           used'.keyErrors = 0 /\ task'[w].pc \in {"delete-keys", "mark", "delete-row"} =>
              /\ task'[w].pc # "delete-keys" \/ "source" \notin task'[w].keys => OnlyLate(source)'
              /\ task'[w].pc # "delete-keys" \/ "derived" \notin task'[w].keys => OnlyLate(derived)',
           task'[w].pc \in Aborted /\ used'.abortErrors = 0 => (\A u \in Open : uploads[u].late)'
    PROVE  UploadInv'
<1>1. video.deleted
  BY DEF UploadInv, WaysAreSound
<1>2. QueuedHasSource' /\ (video.gone => video.deleted)'
  BY <1>1 DEF QueuedHasSource, Owned
<1>3. WaysAreSound'
  <2>1. \A v \in Slots : v # w =>
          /\ used'.keyErrors = 0 /\ task'[v].pc \in {"delete-keys", "mark", "delete-row"} =>
                /\ task'[v].pc # "delete-keys" \/ "source" \notin task'[v].keys => OnlyLate(source)'
                /\ task'[v].pc # "delete-keys" \/ "derived" \notin task'[v].keys => OnlyLate(derived)'
          /\ task'[v].pc \in Aborted /\ used'.abortErrors = 0 => (\A u \in Open : uploads[u].late)'
    BY DEF UploadInv, WaysAreSound
  <2>. QED BY <1>1, <2>1 DEF WaysAreSound, Owned, OnlyLate
<1>4. PurgeIsComplete'
  <2> SUFFICES ASSUME video'.gone
        PROVE  /\ used'.keyErrors = 0 => OnlyLate(source)' /\ OnlyLate(derived)'
               /\ used'.abortErrors = 0 => (\A u \in Open : uploads[u].late)'
    BY DEF PurgeIsComplete, OnlyLate
  <2>1. CASE video.gone
    <3>1. (used.keyErrors = 0 => OnlyLate(source) /\ OnlyLate(derived))
          /\ (used.abortErrors = 0 => \A u \in Open : uploads[u].late)
      BY <2>1 DEF UploadInv, PurgeIsComplete, OnlyLate
    <3>. QED BY <3>1
  <2>2. CASE task[w].pc = "delete-row"
    BY <2>2 DEF UploadInv, WaysAreSound, Aborted
  <2>. QED BY <2>1, <2>2
<1>. QED BY <1>2, <1>3, <1>4 DEF UploadInv

LEMMA Purging ==
    ASSUME UploadInv, NEW w \in Slots,
           AbortAll(w) \/ AbortFails(w) \/ ListPrefix(w) \/ DeleteKeys(w) \/ MarkPurged(w) \/ DeleteRow(w)
    PROVE  UploadInv'
<1>1. TypeOK /\ video \in Video /\ UNCHANGED request
      /\ task[w].pc \in Aborted \cup {"abort-all"}
  BY DEF UploadInv, TypeOK, AbortAll, AbortFails, ListPrefix, DeleteKeys, MarkPurged, DeleteRow, Aborted
<1>2. CASE AbortAll(w)
  <2>1. /\ GotoTask(w, "delete-prefix") /\ UNCHANGED <<video, source, derived, jobs, used>>
        /\ uploads' = [u \in Uploads |-> IF u \in Open THEN [uploads[u] EXCEPT !.state = "gone"]
                                         ELSE uploads[u]]
    BY <1>2 DEF AbortAll
  <2>2. /\ task' \in [Slots -> Task] /\ task'[w].pc = "delete-prefix"
        /\ \A v \in Slots : v # w => task'[v] = task[v]
    BY <1>1, <2>1, GoingOn
  <2>3. \A u \in Uploads : uploads'[u] \in Upload /\ uploads'[u].state # "open"
    <3> SUFFICES ASSUME NEW u \in Uploads
          PROVE  uploads'[u] \in Upload /\ uploads'[u].state # "open"
      OBVIOUS
    <3>1. uploads[u] \in Upload
      BY <1>1 DEF TypeOK
    <3> DEFINE up == [uploads[u] EXCEPT !.state = "gone"]
    <3>2. up \in Upload /\ up.state = "gone"
      BY <3>1, UploadUpdates DEF Upload
    <3>3. uploads'[u] = IF u \in Open THEN up ELSE uploads[u]
      BY <2>1
    <3> HIDE DEF up
    <3>. QED BY <3>1, <3>2, <3>3 DEF Open
  <2>4. TypeOK'
    BY <1>1, <2>1, <2>2, <2>3 DEF TypeOK
  <2>5. Open' = {}
    BY <2>3 DEF Open
  <2>. QED BY <1>1, <2>1, <2>2, <2>4, <2>5, PurgeGoesOn DEF OnlyLate, Present
<1>3. CASE AbortFails(w)
  <2>1. /\ GotoTask(w, "delete-prefix") /\ UNCHANGED <<video, uploads, source, derived, jobs>>
        /\ Suffer("abortErrors") /\ "abortErrors" \in DOMAIN Bound
    BY <1>3, SessionAssumption DEF AbortFails, store
  <2>2. /\ task' \in [Slots -> Task] /\ task'[w].pc = "delete-prefix"
        /\ \A v \in Slots : v # w => task'[v] = task[v]
    BY <1>1, <2>1, GoingOn
  <2>3. used' \in [DOMAIN Bound -> Nat] /\ used'.abortErrors # 0 /\ (used'.keyErrors = 0 => used.keyErrors = 0)
    BY <1>1, <2>1, Using
  <2>4. TypeOK'
    BY <1>1, <2>1, <2>2, <2>3 DEF TypeOK
  <2>. QED BY <1>1, <2>1, <2>2, <2>3, <2>4, PurgeGoesOn DEF OnlyLate, Present, Open
<1>4. CASE ListPrefix(w)
  <2> DEFINE keys == {k \in {"source", "derived"} : Present(IF k = "source" THEN source ELSE derived)}
  <2>1. /\ UNCHANGED <<video, uploads, source, derived, jobs, used>> /\ task[w].pc = "delete-prefix"
        /\ task' = [task EXCEPT ![w].pc = "delete-keys", ![w].keys = keys]
    BY <1>4 DEF ListPrefix, store
  <2>2. keys \in SUBSET {"source", "derived"}
        /\ ("source" \notin keys => ~ Present(source)) /\ ("derived" \notin keys => ~ Present(derived))
    OBVIOUS
  <2> HIDE DEF keys
  <2>3. /\ task' \in [Slots -> Task] /\ task'[w].pc = "delete-keys" /\ task'[w].keys = keys
        /\ \A v \in Slots : v # w => task'[v] = task[v]
    BY <1>1, <2>1, <2>2 DEF TypeOK, Task
  <2>4. TypeOK'
    BY <1>1, <2>1, <2>3 DEF TypeOK
  <2>5. ("source" \notin keys => OnlyLate(source)') /\ ("derived" \notin keys => OnlyLate(derived)')
    BY <2>1, <2>2 DEF OnlyLate
  <2>6. used'.abortErrors = 0 => (\A u \in Open : uploads[u].late)'
    BY <2>1 DEF UploadInv, WaysAreSound, Open, Aborted
  <2>. QED BY <1>1, <2>1, <2>3, <2>4, <2>5, <2>6, PurgeGoesOn DEF Open
<1>7. CASE DeleteKeys(w)
  <2>1. PICK keys \in SUBSET task[w].keys :
          /\ IF keys = task[w].keys THEN UNCHANGED used ELSE Suffer("keyErrors")
          /\ source' = IF "source" \in keys THEN Nothing ELSE source
          /\ derived' = IF "derived" \in keys THEN Nothing ELSE derived
    BY <1>7 DEF DeleteKeys
  <2>2. GotoTask(w, "mark") /\ UNCHANGED <<video, uploads, jobs>> /\ task[w].pc = "delete-keys"
    BY <1>7 DEF DeleteKeys
  <2>3. /\ task' \in [Slots -> Task] /\ task'[w].pc = "mark"
        /\ \A v \in Slots : v # w => task'[v] = task[v]
    BY <1>1, <2>2, GoingOn
  <2>4. /\ used' \in [DOMAIN Bound -> Nat]
        /\ used'.abortErrors = 0 => used.abortErrors = 0
        /\ used'.keyErrors = 0 => used.keyErrors = 0 /\ keys = task[w].keys
    <3>1. CASE keys = task[w].keys
      BY <1>1, <2>1, <3>1 DEF TypeOK
    <3>2. CASE keys # task[w].keys
      BY <1>1, <2>1, <3>2, Using, SessionAssumption
    <3>. QED BY <3>1, <3>2
  <2>5. source' \in {source, Nothing} /\ derived' \in {derived, Nothing}
    BY <2>1
  <2>6. ~ Present(Nothing)
    BY BlankValues DEF Present
  <2>7. TypeOK'
    BY <1>1, <2>2, <2>3, <2>4, <2>5, BlankValues DEF TypeOK
  <2>8. (OnlyLate(source) => OnlyLate(source)') /\ (OnlyLate(derived) => OnlyLate(derived)')
    BY <2>5, <2>6 DEF OnlyLate
  <2>9. ASSUME used'.keyErrors = 0 PROVE OnlyLate(source)' /\ OnlyLate(derived)'
    <3>1. /\ "source" \notin task[w].keys => OnlyLate(source)
          /\ "derived" \notin task[w].keys => OnlyLate(derived)
      BY <2>2, <2>4, <2>9 DEF UploadInv, WaysAreSound
    <3>. QED BY <2>1, <2>4, <2>6, <2>9, <3>1 DEF OnlyLate
  <2>10. used'.abortErrors = 0 => (\A u \in Open : uploads[u].late)'
    BY <2>2, <2>4 DEF UploadInv, WaysAreSound, Open, Aborted
  <2>. QED BY <1>1, <2>2, <2>3, <2>4, <2>7, <2>8, <2>9, <2>10, PurgeGoesOn DEF Open
<1>5. CASE MarkPurged(w)
  <2>1. /\ GotoTask(w, "delete-row") /\ UNCHANGED <<uploads, source, derived, jobs, used>>
        /\ video' = [video EXCEPT !.purged = TRUE] /\ task[w].pc = "mark"
    BY <1>5 DEF MarkPurged, store
  <2>2. /\ task' \in [Slots -> Task] /\ task'[w].pc = "delete-row"
        /\ \A v \in Slots : v # w => task'[v] = task[v]
    BY <1>1, <2>1, GoingOn
  <2>3. video' \in Video
    BY <1>1, <2>1, VideoUpdates
  <2>4. video'.deleted = video.deleted /\ video'.gone = video.gone
    BY <1>1, <2>1, <2>3 DEF Video
  <2>5. TypeOK'
    BY <1>1, <2>1, <2>2, <2>3 DEF TypeOK
  <2>6. used'.keyErrors = 0 => OnlyLate(source)' /\ OnlyLate(derived)'
    BY <2>1 DEF UploadInv, WaysAreSound, OnlyLate
  <2>7. used'.abortErrors = 0 => (\A u \in Open : uploads[u].late)'
    BY <2>1 DEF UploadInv, WaysAreSound, Open, Aborted
  <2>. QED BY <1>1, <2>1, <2>2, <2>4, <2>5, <2>6, <2>7, PurgeGoesOn DEF Open, OnlyLate
<1>6. CASE DeleteRow(w)
  <2>1. /\ UNCHANGED <<uploads, source, derived, used>>
        /\ video' = [video EXCEPT !.gone = TRUE] /\ task[w].pc = "delete-row"
        /\ task' = [task EXCEPT ![w] = NoTask]
        /\ DOMAIN jobs' \subseteq {IngestJob, PurgeJob}
    BY <1>1, <1>6, JobsStayTyped DEF DeleteRow, Ends, store, TypeOK
  <2>2. /\ task' \in [Slots -> Task] /\ task'[w].pc = "idle"
        /\ \A v \in Slots : v # w => task'[v] = task[v]
    BY <1>1, <2>1, Ending
  <2>3. video' \in Video
    BY <1>1, <2>1, VideoUpdates
  <2>4. video'.deleted = video.deleted
    BY <1>1, <2>1, <2>3 DEF Video
  <2>5. TypeOK'
    BY <1>1, <2>1, <2>2, <2>3 DEF TypeOK
  <2>. QED BY <1>1, <2>1, <2>2, <2>4, <2>5, PurgeGoesOn DEF OnlyLate, Open, Aborted
<1>. QED BY <1>2, <1>3, <1>4, <1>5, <1>6, <1>7

LEMMA InitEstablishes == Init => UploadInv
<1> SUFFICES ASSUME Init PROVE UploadInv
  OBVIOUS
<1>1. TypeOK
  <2>1. video \in Video
    BY SessionAssumption DEF Init, Video
  <2>2. uploads \in [Uploads -> Upload]
    BY DEF Init, Upload
  <2>3. DOMAIN jobs \subseteq {IngestJob, PurgeJob}
    BY DEF Init
  <2>. QED BY <2>1, <2>2, <2>3, BlankValues DEF Init, TypeOK
<1>2. /\ video.status = "CREATED" /\ video.gone = FALSE
      /\ \A q \in Requests : request[q].pc = "idle"
      /\ \A w \in Slots : task[w].pc = "idle"
  BY BlankValues DEF Init
<1>. QED BY <1>1, <1>2 DEF UploadInv, WaysAreSound, QueuedHasSource, PurgeIsComplete, Aborted

LEMMA NextPreserves == UploadInv /\ [Next]_vars => UploadInv'
<1> SUFFICES ASSUME UploadInv, [Next]_vars PROVE UploadInv'
  OBVIOUS
<1>1. ASSUME NEW q \in Requests,
             CreateUploadSession(q) \/ CompleteUpload(q) \/ Remove(q) \/ Proceed(q) \/ RequestDies(q)
      PROVE  UploadInv'
  BY <1>1, RequestsRead, Aborting, Creating, Starting, Assembling, Completing DEF Proceed
<1>2. ASSUME NEW w \in Slots,
             Start(w) \/ Execute(w) \/ AbortFails(w) \/ TaskFails(w) \/ Crash(w) \/ RetentionReads(w)
      PROVE  UploadInv'
  BY <1>2, Working, Retaining, PurgeBegins, Purging DEF Execute
<1>3. CASE UNCHANGED vars
  <2>1. TypeOK'
    BY <1>3 DEF vars, store, UploadInv, TypeOK
  <2>2. Frame
    BY <1>3 DEF vars, store, Frame, OnlyLate, Present, Kept, Open
  <2>. QED BY <2>1, <2>2, Framed
<1>. QED BY <1>1, <1>2, <1>3, Browsing, Queueing DEF Next

-----------------------------------------------------------------------------
(* The types, the ways of completions and purges, and what they lead to,
   stay together as UploadInv says.                                        *)
THEOREM UploadInvHolds == Spec => []UploadInv
  BY InitEstablishes, NextPreserves, PTL DEF Spec

(* completeUpload queues a video only after it saw an object in the store,
   and no session, completion, abort or purge takes the object of a video
   away that is queued or processed and not removed: the retention alone
   does.                                                                   *)
THEOREM QueuedHasSourceHolds == Spec => []QueuedHasSource
<1>1. UploadInv => QueuedHasSource
  BY DEF UploadInv
<1>. QED BY <1>1, UploadInvHolds, PTL

(* purge_video leaves nothing that was there at the removal, whatever the
   other slots, requests and the browser do meanwhile.                     *)
THEOREM PurgeIsCompleteHolds == Spec => []PurgeIsComplete
<1>1. UploadInv => PurgeIsComplete
  BY DEF UploadInv
<1>. QED BY <1>1, UploadInvHolds, PTL

-----------------------------------------------------------------------------
(* Every part of a filled upload is signed, and the parts cover the file.  *)

LEMMA SignableFacts ==
    ASSUME NEW size \in Nat
    PROVE  /\ PartCount(size, PreferredPart) \in Nat \ {0}
           /\ Signable(size) # {} /\ IsFiniteSet(Signable(size))
           /\ Cardinality(Signable(size)) = PartCount(size, PreferredPart)
           /\ size <= PartCount(size, PreferredPart) * PartSize(size, PreferredPart)
<1> DEFINE n == PartCount(size, PreferredPart)
<1>1. Fits(size, PreferredPart)
  BY EveryFileHasAPlan, SizesAssumption
<1>2. n \in Nat \ {0} /\ size <= n * PartSize(size, PreferredPart)
  BY <1>1, SizesAssumption DEF Fits
<1>3. Signable(size) = 1 .. n
  BY DEF Signable
<1> HIDE DEF n
<1>4. 1 .. n # {}
  <2>1. 1 \in 1 .. n
    BY <1>2
  <2>. QED BY <2>1
<1>5. IsFiniteSet(1 .. n) /\ Cardinality(1 .. n) = n
  BY <1>2, FS_Interval
<1>. QED BY <1>2, <1>3, <1>4, <1>5 DEF n

(* What every step keeps to that neither creates, starts, signs nor fills
   an upload.                                                              *)
PlanFrame ==
    /\ video'.size = video.size
    /\ video'.upload \in {video.upload, 0}
    /\ \A u \in Uploads : /\ uploads'[u].filled = uploads[u].filled
                          /\ uploads'[u].signed = uploads[u].signed
                          /\ uploads[u].state # "none" => uploads'[u].state # "none"
    /\ \A q \in Requests : request'[q].pc = "start" =>
          request'[q] = request[q] \/ ~ UsesMultipart(video.size)

LEMMA PlanFramed ==
    ASSUME TypeOK, PlanInv, PlanFrame
    PROVE  PlanInv'
<1> USE DEF PlanFrame
<1>1. video \in Video /\ \A q \in Requests : request[q].upload \in Uploads \cup {0}
  BY DEF TypeOK, Request
<1>2. \A u \in Uploads : uploads'[u].filled => uploads'[u].signed = Signable(video'.size)
  BY DEF PlanInv
<1>3. video'.upload # 0 => uploads'[video'.upload].state # "none"
  BY <1>1 DEF PlanInv, Video
<1>. Uploads \subseteq Nat \ {0}
  BY SessionAssumption DEF Uploads
<1>4. ASSUME NEW q \in Requests, request'[q].pc = "start", UsesMultipart(video'.size)
      PROVE  LET u == request'[q].upload IN
             /\ u # video'.upload /\ uploads'[u].state # "none"
             /\ uploads'[u].signed = {} /\ ~ uploads'[u].filled
             /\ \A p \in Requests \ {q} : request'[p].pc = "start" => request'[p].upload # u
  <2>1. /\ UsesMultipart(video.size) /\ request'[q] = request[q]
        /\ \A p \in Requests : request'[p].pc = "start" => request'[p] = request[p]
    BY <1>4
  <2>2. FreshStart(q)
    BY DEF PlanInv
  <2> DEFINE u == request[q].upload
  <2>3. /\ u \in Uploads \ {video.upload, 0} /\ uploads[u].state # "none"
        /\ uploads[u].signed = {} /\ ~ uploads[u].filled
        /\ \A p \in Requests \ {q} : request[p].pc = "start" => request[p].upload # u
    BY <1>1, <1>4, <2>1, <2>2 DEF FreshStart
  <2>. QED BY <2>1, <2>3
<1>. QED BY <1>2, <1>3, <1>4 DEF PlanInv, FreshStart

LEMMA PlanSettled ==
    ASSUME TypeOK, PlanInv, NEW q \in Requests,
           \/ CreateUploadSession(q) \/ CompleteUpload(q) \/ Remove(q) \/ RequestDies(q)
           \/ AbortStale(q) \/ Assemble(q) \/ Head(q) \/ Refuse(q) \/ QueueUpload(q)
           \/ EnqueueIngest(q) \/ SoftDelete(q) \/ AbortRemoved(q) \/ EnqueuePurge(q)
    PROVE  PlanInv'
<1>1. video \in Video /\ uploads \in [Uploads -> Upload] /\ request \in [Requests -> Request]
  BY DEF TypeOK
<1>2. video'.size = video.size /\ video'.upload \in {video.upload, 0}
  <2>1. \/ UNCHANGED video \/ video' = [video EXCEPT !.status = "FAILED"]
        \/ video' = [video EXCEPT !.status = "QUEUED", !.upload = 0, !.run = @ + 1]
        \/ video' = [video EXCEPT !.deleted = TRUE]
    BY DEF CreateUploadSession, CompleteUpload, Remove, Begin, RequestDies, AbortStale, Assemble, Head,
           Refuse, QueueUpload, EnqueueIngest, SoftDelete, AbortRemoved, EnqueuePurge
  <2>. QED BY <1>1, <2>1 DEF Video
<1>3. \A u \in Uploads : /\ uploads'[u].filled = uploads[u].filled
                         /\ uploads'[u].signed = uploads[u].signed
                         /\ uploads[u].state # "none" => uploads'[u].state # "none"
  <2>1. \/ UNCHANGED uploads \/ uploads' = Closed(request[q].upload)
        \/ uploads' = [uploads EXCEPT ![request[q].upload].state = "gone"]
    BY DEF CreateUploadSession, CompleteUpload, Remove, Begin, RequestDies, AbortStale, Assemble, Head,
           Refuse, QueueUpload, EnqueueIngest, SoftDelete, AbortRemoved, EnqueuePurge, store, Abort
  <2>. QED BY <1>1, <2>1 DEF Closed, Upload
<1>4. \A p \in Requests : request'[p].pc = "start" =>
         request'[p] = request[p] \/ ~ UsesMultipart(video.size)
  <2>1. CASE Answer(q)
    BY <1>1, <2>1, BlankValues DEF Answer
  <2>2. ASSUME NEW pc, pc # "start", Goto(q, pc)
        PROVE  \A p \in Requests : request'[p].pc = "start" => request'[p] = request[p]
    BY <1>1, <2>2 DEF Goto, Request
  <2>3. ASSUME NEW pc, pc # "start" \/ ~ UsesMultipart(video.size), Begin(q, pc)
        PROVE  \A p \in Requests : request'[p].pc = "start" =>
                  request'[p] = request[p] \/ ~ UsesMultipart(video.size)
    BY <1>1, <2>3 DEF Begin, Request
  <2>4. CASE CreateUploadSession(q) \/ CompleteUpload(q) \/ Remove(q)
    BY <2>3, <2>4 DEF CreateUploadSession, CompleteUpload, Remove
  <2>5. CASE AbortStale(q) \/ Assemble(q) \/ Head(q) \/ QueueUpload(q) \/ SoftDelete(q) \/ AbortRemoved(q)
    <3>1. source.size \in {"none", "expired", "fits", "large"}
      BY DEF TypeOK, Stored
    <3>2. Answer(q) \/ \E pc : pc # "start" /\ Goto(q, pc)
      BY <2>5, <3>1 DEF Present, AbortStale, Assemble, Head, QueueUpload, SoftDelete, AbortRemoved
    <3>. QED BY <2>1, <2>2, <3>2
  <2>6. CASE RequestDies(q) \/ Refuse(q) \/ EnqueueIngest(q) \/ EnqueuePurge(q)
    BY <2>1, <2>6 DEF RequestDies, Refuse, EnqueueIngest, EnqueuePurge
  <2>. QED BY <2>4, <2>5, <2>6
<1>5. PlanFrame
  BY <1>2, <1>3, <1>4 DEF PlanFrame
<1>. QED BY <1>5, PlanFramed

LEMMA PlanElsewhere ==
    ASSUME TypeOK, PlanInv,
           \/ PutSource \/ Stall \/ ReschedulePurge \/ Requeue \/ UNCHANGED vars
           \/ \E w \in Slots : \/ Start(w) \/ Execute(w) \/ AbortFails(w) \/ TaskFails(w) \/ Crash(w)
                               \/ RetentionReads(w)
    PROVE  PlanInv'
<1>1. video \in Video /\ uploads \in [Uploads -> Upload]
  BY DEF TypeOK
<1>2. /\ \/ UNCHANGED video \/ video' = [video EXCEPT !.status = "PROCESSING"]
         \/ video' = [video EXCEPT !.purged = TRUE] \/ video' = [video EXCEPT !.gone = TRUE]
         \/ video' = [video EXCEPT !.expired = TRUE]
      /\ \/ UNCHANGED uploads
         \/ uploads' = [u \in Uploads |-> IF u \in Open THEN [uploads[u] EXCEPT !.state = "gone"]
                                         ELSE uploads[u]]
      /\ UNCHANGED request
  BY DEF PutSource, Stall, ReschedulePurge, Requeue, vars, store, Start, Execute, AbortFails, TaskFails,
         Crash, IngestStarts, IngestStores, PurgeReads, AbortAll, ListPrefix, DeleteKeys, MarkPurged, DeleteRow,
         RetentionReads, RetentionDeletes, RetentionMarks
<1>3. video'.size = video.size /\ video'.upload = video.upload
  BY <1>1, <1>2 DEF Video
<1>4. \A u \in Uploads : /\ uploads'[u].filled = uploads[u].filled
                         /\ uploads'[u].signed = uploads[u].signed
                         /\ uploads[u].state # "none" => uploads'[u].state # "none"
  BY <1>1, <1>2 DEF Upload
<1>5. PlanFrame
  BY <1>2, <1>3, <1>4 DEF PlanFrame
<1>. QED BY <1>5, PlanFramed

LEMMA PlanCreated ==
    ASSUME TypeOK, PlanInv, NEW q \in Requests, CreateMultipart(q)
    PROVE  PlanInv'
<1>1. video \in Video /\ uploads \in [Uploads -> Upload] /\ request \in [Requests -> Request]
  BY DEF TypeOK
<1>2. PICK u \in Uploads :
        /\ uploads[u].state = "none"
        /\ uploads' = [uploads EXCEPT ![u] = [state |-> "open", filled |-> FALSE,
                                              signed |-> {}, late |-> video.deleted]]
        /\ request' = [request EXCEPT ![q] = [pc |-> "start", upload |-> u]]
  BY DEF CreateMultipart
<1>3. UNCHANGED video /\ u # 0
  BY SessionAssumption DEF CreateMultipart, Uploads
<1>4. video.upload # u
  BY <1>2, <1>3 DEF PlanInv
<1>5. ASSUME NEW p \in Requests \ {q}, request[p].pc = "start", UsesMultipart(video.size)
      PROVE  request[p].upload # u
  BY <1>2, <1>5 DEF PlanInv, FreshStart
<1>6. /\ uploads'[u].state = "open" /\ ~ uploads'[u].filled /\ uploads'[u].signed = {}
      /\ \A v \in Uploads \ {u} : uploads'[v] = uploads[v]
      /\ request'[q].pc = "start" /\ request'[q].upload = u
      /\ \A p \in Requests \ {q} : request'[p] = request[p]
  BY <1>1, <1>2
<1>7. \A v \in Uploads : uploads'[v].filled => uploads'[v].signed = Signable(video'.size)
  BY <1>3, <1>6 DEF PlanInv
<1>8. video'.upload # 0 => uploads'[video'.upload].state # "none"
  <2>1. video.upload \in Uploads \cup {0}
    BY <1>1 DEF Video
  <2>. QED BY <1>3, <1>4, <1>6, <2>1 DEF PlanInv
<1>9. FreshStart(q)'
  BY <1>3, <1>4, <1>5, <1>6 DEF FreshStart
<1>10. ASSUME NEW p \in Requests \ {q} PROVE FreshStart(p)'
  <2> SUFFICES ASSUME request[p].pc = "start", UsesMultipart(video.size) PROVE FreshStart(p)'
    BY <1>3, <1>6 DEF FreshStart
  <2>1. FreshStart(p) /\ request[p].upload # u
    BY <1>5 DEF PlanInv
  <2>. QED BY <1>3, <1>6, <2>1 DEF FreshStart
<1>. QED BY <1>7, <1>8, <1>9, <1>10 DEF PlanInv

LEMMA PlanStarted ==
    ASSUME TypeOK, PlanInv, NEW q \in Requests, StartUpload(q)
    PROVE  PlanInv'
<1> DEFINE u == IF UsesMultipart(video.size) THEN request[q].upload ELSE 0
<1>1. video \in Video /\ uploads \in [Uploads -> Upload] /\ request \in [Requests -> Request]
  BY DEF TypeOK
<1>2. /\ video'.size = video.size /\ video'.upload \in {u, video.upload}
      /\ request'[q].pc = "idle" /\ \A p \in Requests \ {q} : request'[p] = request[p]
  <2>1. \/ video' = [video EXCEPT !.status = "UPLOADING", !.url = TRUE, !.upload = u]
        \/ video' = [video EXCEPT !.url = TRUE]
    BY DEF StartUpload
  <2>2. Answer(q)
    BY DEF StartUpload
  <2> HIDE DEF u
  <2>3. video'.size = video.size /\ video'.upload \in {u, video.upload}
    BY <1>1, <2>1 DEF Video
  <2>. QED BY <2>2, <2>3, <1>1, BlankValues DEF Answer
<1>3. CASE ~ UsesMultipart(video.size)
  <2>1. u = 0 /\ UNCHANGED uploads
    BY <1>3 DEF StartUpload
  <2>. QED BY <1>2, <1>3, <2>1, PlanFramed DEF PlanFrame
<1>4. CASE UsesMultipart(video.size)
  <2>1. /\ u = request[q].upload /\ u \in Uploads \ {video.upload} /\ uploads[u].state # "none"
        /\ uploads[u].signed = {} /\ ~ uploads[u].filled
        /\ \A p \in Requests \ {q} : request[p].pc = "start" => request[p].upload # u
    BY <1>4 DEF StartUpload, PlanInv, FreshStart
  <2>2. uploads' = [uploads EXCEPT ![u].signed = FirstParts(video.size)]
    BY <2>1, SessionAssumption DEF StartUpload, Uploads
  <2> HIDE DEF u
  <2>3. /\ uploads'[u].state # "none" /\ ~ uploads'[u].filled
        /\ \A v \in Uploads \ {u} : uploads'[v] = uploads[v]
    BY <1>1, <2>1, <2>2 DEF Upload
  <2>4. \A v \in Uploads : uploads'[v].filled => uploads'[v].signed = Signable(video'.size)
    BY <1>2, <2>3 DEF PlanInv
  <2>5. video'.upload # 0 => uploads'[video'.upload].state # "none"
    <3>1. video.upload \in Uploads \cup {0}
      BY <1>1 DEF Video
    <3>. QED BY <1>2, <2>1, <2>3, <3>1 DEF PlanInv
  <2>6. ASSUME NEW p \in Requests, request'[p].pc = "start" PROVE FreshStart(p)'
    <3>1. p # q /\ request'[p] = request[p]
      BY <1>2, <2>6
    <3>2. FreshStart(p) /\ request[p].pc = "start" /\ request[p].upload # u
      BY <2>1, <2>6, <3>1 DEF PlanInv
    <3>3. \A r \in Requests : request'[r].pc = "start" => request'[r] = request[r]
      BY <1>2
    <3> DEFINE v == request[p].upload
    <3>4. /\ v \in Uploads \ {video.upload} /\ uploads[v].state # "none"
          /\ uploads[v].signed = {} /\ ~ uploads[v].filled
          /\ \A r \in Requests \ {p} : request[r].pc = "start" => request[r].upload # v
      BY <1>4, <3>2 DEF FreshStart
    <3>5. v # u /\ v \in Uploads \ {video'.upload} /\ uploads'[v] = uploads[v]
      BY <1>2, <2>3, <3>2, <3>4
    <3> HIDE DEF v
    <3>6. request'[p].upload = v
      BY <3>1 DEF v
    <3>. QED BY <3>3, <3>4, <3>5, <3>6 DEF FreshStart
  <2>7. \A p \in Requests : FreshStart(p)'
    BY <2>6 DEF FreshStart
  <2>. QED BY <2>4, <2>5, <2>7 DEF PlanInv
<1>. QED BY <1>3, <1>4

(* signParts, and the browser's last part.                                 *)
LEMMA PlanSigned ==
    ASSUME TypeOK, PlanInv, SignPart \/ PutParts
    PROVE  PlanInv'
<1>1. /\ video \in Video /\ video.size \in Nat /\ uploads \in [Uploads -> Upload]
      /\ UNCHANGED <<video, request>>
  BY DEF TypeOK, Video, SignPart, PutParts
<1>2. PICK u \in Uploads :
        /\ \/ u = video.upload /\ uploads[u].signed # Signable(video.size)
           \/ uploads[u].signed = Signable(video.size)
        /\ uploads'[u].filled => uploads'[u].signed = Signable(video.size)
        /\ uploads'[u].state = uploads[u].state
        /\ \A v \in Uploads \ {u} : uploads'[v] = uploads[v]
  <2>1. CASE SignPart
    <3>1. PICK n \in Signable(video.size) \ uploads[video.upload].signed :
            uploads' = [uploads EXCEPT ![video.upload].signed = @ \cup {n}]
      BY <2>1 DEF SignPart
    <3>2. video.upload \in Uploads
      BY <1>1, <2>1 DEF SignPart, Video
    <3>3. uploads[video.upload].signed # Signable(video.size) /\ ~ uploads[video.upload].filled
      BY <3>1, <3>2 DEF PlanInv
    <3>. QED BY <1>1, <3>1, <3>2, <3>3 DEF Upload
  <2>2. CASE PutParts
    <3>1. PICK u \in Open : /\ uploads[u].signed = Signable(video.size)
                            /\ uploads' = [uploads EXCEPT ![u].filled = TRUE]
      BY <2>2 DEF PutParts, Signable
    <3>2. u \in Uploads
      BY DEF Open
    <3>. QED BY <1>1, <3>1, <3>2 DEF Upload
  <2>. QED BY <2>1, <2>2
<1>3. \A v \in Uploads : uploads'[v].filled => uploads'[v].signed = Signable(video'.size)
  BY <1>1, <1>2 DEF PlanInv
<1>4. video'.upload # 0 => uploads'[video'.upload].state # "none"
  BY <1>1, <1>2 DEF PlanInv, Video
<1>5. ASSUME NEW p \in Requests PROVE FreshStart(p)'
  <2> SUFFICES ASSUME request[p].pc = "start", UsesMultipart(video.size) PROVE FreshStart(p)'
    BY <1>1 DEF FreshStart
  <2> DEFINE v == request[p].upload
  <2>1. /\ v \in Uploads \ {video.upload} /\ uploads[v].state # "none"
        /\ uploads[v].signed = {} /\ ~ uploads[v].filled
        /\ \A r \in Requests \ {p} : request[r].pc = "start" => request[r].upload # v
    BY DEF PlanInv, FreshStart
  <2>2. v # u
    <3>1. Signable(video.size) # {}
      BY <1>1, SignableFacts
    <3>. QED BY <1>2, <2>1, <3>1
  <2>3. uploads'[v] = uploads[v]
    BY <1>2, <2>1, <2>2
  <2> HIDE DEF v
  <2>4. v = request'[p].upload /\ v = request[p].upload
    BY <1>1 DEF v
  <2>. QED BY <1>1, <2>1, <2>3, <2>4 DEF FreshStart
<1>. QED BY <1>3, <1>4, <1>5 DEF PlanInv

(* The parts of an upload stay those of its plan, whatever sessions are
   opened meanwhile.                                                       *)
THEOREM PlanInvHolds == Spec => []PlanInv
<1>1. Init => PlanInv
  BY BlankValues DEF Init, PlanInv, FreshStart
<1>2. UploadInv /\ PlanInv /\ [Next]_vars => PlanInv'
  <2> SUFFICES ASSUME TypeOK, PlanInv, [Next]_vars PROVE PlanInv'
    BY DEF UploadInv
  <2>1. ASSUME NEW q \in Requests,
               CreateUploadSession(q) \/ CompleteUpload(q) \/ Remove(q) \/ Proceed(q) \/ RequestDies(q)
        PROVE  PlanInv'
    BY <2>1, PlanSettled, PlanCreated, PlanStarted DEF Proceed
  <2>. QED BY <2>1, PlanElsewhere, PlanSigned DEF Next
<1>. QED BY <1>1, <1>2, UploadInvHolds, PTL DEF Spec

(* planMultipart and the callers that sign in batches: the plan is within
   the store's limits, and a browser that put every part has put the file. *)
THEOREM PlanFitsHolds == Spec => []PlanFits
<1>1. UploadInv /\ PlanInv => PlanFits
  <2> SUFFICES ASSUME UploadInv, PlanInv, NEW u \in Open, uploads[u].filled
        PROVE  video.size <= Cardinality(uploads[u].signed) * PartSize(video.size, PreferredPart)
    BY EveryPlanFitsHolds DEF PlanFits
  <2>1. video.size \in Nat /\ u \in Uploads
    BY DEF UploadInv, TypeOK, Video, Open
  <2>2. uploads[u].signed = Signable(video.size)
    BY <2>1 DEF PlanInv
  <2>. QED BY <2>1, <2>2, SignableFacts
<1>. QED BY <1>1, PlanInvHolds, UploadInvHolds, PTL

-----------------------------------------------------------------------------
(* The row's updates, one by one.                                          *)
LEMMA RowSteps ==
    ASSUME UploadInv, Next
    PROVE  \/ UNCHANGED video
           \/ Uploading
           \/ video' = [video EXCEPT !.url = TRUE]
           \/ \E status \in {"PROCESSING", "FAILED"} : video' = [video EXCEPT !.status = status]
           \/ video' = [video EXCEPT !.deleted = TRUE]
           \/ video' = [video EXCEPT !.purged = TRUE]
           \/ video' = [video EXCEPT !.gone = TRUE]
           \/ video' = [video EXCEPT !.expired = TRUE]
<1>1. ASSUME NEW q \in Requests,
             CreateUploadSession(q) \/ CompleteUpload(q) \/ Remove(q) \/ RequestDies(q)
      PROVE  UNCHANGED video
  BY <1>1 DEF CreateUploadSession, CompleteUpload, Remove, Begin, RequestDies
<1>2. ASSUME NEW q \in Requests, StartUpload(q)
      PROVE  Uploading \/ video' = [video EXCEPT !.url = TRUE]
  BY <1>2 DEF StartUpload, CanMove, Uploading
<1>3. ASSUME NEW q \in Requests, QueueUpload(q)
      PROVE  Uploading \/ UNCHANGED video
  BY <1>3 DEF QueueUpload, CanMove, Uploading
<1>4. ASSUME NEW q \in Requests, Refuse(q) \/ SoftDelete(q)
      PROVE  \/ UNCHANGED video
             \/ video' = [video EXCEPT !.status = "FAILED"]
             \/ video' = [video EXCEPT !.deleted = TRUE]
  BY <1>4 DEF Refuse, SoftDelete
<1>5. ASSUME NEW q \in Requests, AbortStale(q) \/ CreateMultipart(q) \/ Assemble(q) \/ Head(q)
                                 \/ EnqueueIngest(q) \/ AbortRemoved(q) \/ EnqueuePurge(q)
      PROVE  UNCHANGED video
  BY <1>5 DEF AbortStale, CreateMultipart, Assemble, Head, EnqueueIngest, AbortRemoved, EnqueuePurge
<1>6. ASSUME NEW w \in Slots, IngestStarts(w) \/ MarkPurged(w) \/ DeleteRow(w) \/ RetentionMarks(w)
      PROVE  \/ UNCHANGED video
             \/ video' = [video EXCEPT !.status = "PROCESSING"]
             \/ video' = [video EXCEPT !.purged = TRUE]
             \/ video' = [video EXCEPT !.gone = TRUE]
             \/ video' = [video EXCEPT !.expired = TRUE]
  BY <1>6 DEF IngestStarts, MarkPurged, DeleteRow, RetentionMarks
<1>7. ASSUME NEW w \in Slots,
             Start(w) \/ IngestStores(w) \/ PurgeReads(w) \/ AbortAll(w) \/ ListPrefix(w) \/ DeleteKeys(w)
                \/ RetentionReads(w) \/ RetentionDeletes(w) \/ AbortFails(w) \/ TaskFails(w) \/ Crash(w)
      PROVE  UNCHANGED video
  BY <1>7 DEF Start, IngestStores, PurgeReads, AbortAll, ListPrefix, DeleteKeys, AbortFails, TaskFails, Crash,
         RetentionReads, RetentionDeletes
<1>8. CASE SignPart \/ PutSource \/ PutParts \/ Stall \/ ReschedulePurge \/ Requeue
  BY <1>8 DEF SignPart, PutSource, PutParts, Stall, ReschedulePurge, Requeue
<1>. QED BY <1>1, <1>2, <1>3, <1>4, <1>5, <1>6, <1>7, <1>8 DEF Next, Proceed, Execute

(* createUploadSession and completeUpload write conditionally: an upload
   that ended is neither opened again nor counted again.                   *)
THEOREM UploadEndsOnceHolds == Spec => UploadEndsOnce
<1>1. UploadInv /\ [Next]_vars => [~ Uploading => ~ Uploading' /\ video'.run = video.run]_vars
  <2> SUFFICES ASSUME UploadInv, Next, ~ Uploading
        PROVE  ~ Uploading' /\ video'.run = video.run
    OBVIOUS
  <2>1. video \in Video
    BY DEF UploadInv, TypeOK
  <2>. QED BY <2>1, RowSteps DEF Uploading, Video
<1>. QED BY <1>1, UploadInvHolds, PTL DEF Spec, UploadEndsOnce
=============================================================================
