---------------------------- MODULE DepotUpload ----------------------------
(***************************************************************************)
(* The direct upload of a depot (apps/back/src/dossier/depot).             *)
(*                                                                         *)
(* The API creates a depot row and a presigned URL (initialize), the       *)
(* browser PUTs the file to a staging key of the bucket, the API freezes   *)
(* the file under its final key and enqueues its processing (complete),    *)
(* and a delayed pg-boss job removes what is left (cleanup).  complete and *)
(* cleanup run in a database transaction that holds the row lock of the    *)
(* depot; the bucket takes no part in that transaction, so every S3 call   *)
(* is a step of its own and survives a rollback.                           *)
(*                                                                         *)
(* Time is counted in ticks of any length.  "time" is the clock of the     *)
(* API, which signs the URLs; the clocks of the worker and of the database *)
(* may be ahead of it by at most ClockSkew ticks.                          *)
(***************************************************************************)
EXTENDS Integers, Sequences, FiniteSets

CONSTANTS
    Depots,        \* identifiers of depots
    Users,         \* authenticated users
    Contents,      \* files a browser may send, identified by their etag
    WellFormed,    \* contents whose size and type match the declared ones
    NoContent,     \* no object under a key
    NoUser,        \* owner of a row that does not exist yet
    TTL,           \* ticks a presigned URL is valid
    CleanupDelay,  \* CLEANUP_DELAY_MS in ticks
    ClockSkew,     \* ticks the other clocks may be ahead of the API's
    RetryLimit,    \* retryLimit of the cleanup job (10 in the code)
    RetryDelay,    \* retryDelay of the cleanup job, at least
    MaxPuts,       \* bound: PUT requests in flight for one depot
    LastOpening,   \* bound: last instant at which a depot is opened
    MaxTime        \* bound: last instant of the model

ASSUME SetsAssumption ==
    /\ WellFormed \subseteq Contents
    /\ NoContent \notin Contents
    /\ NoUser \notin Users

ASSUME TimesAssumption ==
    /\ TTL \in Nat \ {0}
    /\ CleanupDelay \in Nat /\ ClockSkew \in Nat
    /\ RetryLimit \in Nat /\ RetryDelay \in Nat
    /\ MaxPuts \in Nat /\ LastOpening \in Nat /\ MaxTime \in Nat

VARIABLES
    time,        \* the API's clock
    row,         \* the depot table
    staging,     \* the object under uploads/<id>/file.xml
    final,       \* the object under depots/<id>/file.xml
    puts,        \* PUT requests accepted by S3 and not finished
    slow,        \* history: depots that a PUT wrote after more than Slack
    tx,          \* the transaction that holds the row lock
    cleanupJob,  \* the cleanup_depot_upload job
    processFile, \* the process_file jobs enqueued so far, by their user
    reply        \* the last answer of POST /depot/:id/upload/complete

vars == <<time, row, staging, final, puts, slow, tx, cleanupJob, processFile,
          reply>>

Steps == {"NONE", "UPLOADING_TO_S3", "PENDING"}
Statuses == {"EN_COURS_DE_TRAITEMENT", "REJETE"}
Replies == {"none", "ok", "notfound", "forbidden", "conflict", "gone",
            "mismatch", "error"}

\* The columns of the depot that these operations read or write; path and
\* error are abstracted to whether they are set, and uploadExpiresAt is 0
\* when the column is null.
Row == [step : Steps, stepHistory : Seq(Steps), status : Statuses,
        error : BOOLEAN, path : BOOLEAN, uploadExpiresAt : Int,
        userId : Users \cup {NoUser}]

Put == [content : Contents, since : Nat]

Tx == [pc : {"idle", "head", "copy", "confirm", "staging", "final", "clean"},
       user : Users \cup {NoUser}, etag : Contents \cup {NoContent}]

CleanupJob == [state : {"absent", "created", "active", "completed", "failed"},
               startAfter : Int, retryCount : Nat]

Completing == {"head", "copy", "confirm"}
Cleaning == {"staging", "final", "clean"}

NoRow == [step |-> "NONE", stepHistory |-> << >>,
          status |-> "EN_COURS_DE_TRAITEMENT", error |-> FALSE, path |-> FALSE,
          uploadExpiresAt |-> 0, userId |-> NoUser]
NoTx == [pc |-> "idle", user |-> NoUser, etag |-> NoContent]
NoJob == [state |-> "absent", startAfter |-> 0, retryCount |-> 0]

\* A depot of the multipart endpoint that direct uploads replaced: it has a
\* file, and no upload session.
LegacyRow(u) ==
    [NoRow EXCEPT !.step = "PENDING", !.path = TRUE, !.userId = u]

Init ==
    /\ time = 0
    /\ row \in [Depots -> {NoRow} \cup {LegacyRow(u) : u \in Users}]
    /\ staging = [d \in Depots |-> NoContent]
    /\ final = [d \in Depots |-> NoContent]
    /\ puts = [d \in Depots |-> {}]
    /\ slow = {}
    /\ tx = [d \in Depots |-> NoTx]
    /\ cleanupJob = [d \in Depots |-> NoJob]
    /\ processFile = [d \in Depots |-> << >>]
    /\ reply = [d \in Depots |-> "none"]

Deadline(r) == r.uploadExpiresAt + CleanupDelay

\* The delay before cleanup is there "to allow uploads already in flight":
\* it leaves them Slack ticks, the worker's clock being ahead of the API's.
Slack == CleanupDelay - ClockSkew
Slow(p) == time - p.since > Slack

----------------------------------------------------------------------------
(* The API opens a session: row, presigned URL and delayed cleanup job are *)
(* one transaction; a failure leaves nothing behind and is not a step.     *)

Initialize(d, u) ==
    /\ row[d].step = "NONE"
    /\ time <= LastOpening
    /\ row' = [row EXCEPT ![d] =
                 [NoRow EXCEPT !.step = "UPLOADING_TO_S3",
                               !.stepHistory = <<"UPLOADING_TO_S3">>,
                               !.uploadExpiresAt = time + TTL,
                               !.userId = u]]
    /\ cleanupJob' = [cleanupJob EXCEPT ![d] =
                        [state |-> "created",
                         startAfter |-> time + TTL + CleanupDelay,
                         retryCount |-> 0]]
    /\ UNCHANGED <<time, staging, final, puts, slow, tx, processFile, reply>>

----------------------------------------------------------------------------
(* The browser and S3.  S3 checks the signature when it receives a PUT,    *)
(* which replaces the staging object, or fails, any time later: a transfer *)
(* may outlast the deadline and the cleanup, and need never end.           *)

StartPut(d, c) ==
    /\ row[d].uploadExpiresAt # 0
    /\ time < row[d].uploadExpiresAt
    /\ Cardinality(puts[d]) < MaxPuts
    /\ puts' = [puts EXCEPT ![d] = @ \cup {[content |-> c, since |-> time]}]
    /\ UNCHANGED <<time, row, staging, final, slow, tx, cleanupJob,
                   processFile, reply>>

FinishPut(d, p) ==
    /\ p \in puts[d]
    /\ puts' = [puts EXCEPT ![d] = @ \ {p}]
    /\ \/ /\ staging' = [staging EXCEPT ![d] = p.content]
          /\ slow' = IF Slow(p) THEN slow \cup {d} ELSE slow
       \/ UNCHANGED <<staging, slow>>
    /\ UNCHANGED <<time, row, final, tx, cleanupJob, processFile, reply>>

----------------------------------------------------------------------------
(* POST /depot/:id/upload/complete.  The row is locked first; what follows *)
(* sees no other writer of the row, but the bucket may change between any  *)
(* two S3 calls.  Any call may fail, and the process may stop: the         *)
(* transaction rolls back and an object already copied stays.              *)

\* Mutant: the deadline is checked before the path.
RowAnswer_DeadlineFirst(r, u, now) ==
    IF r.step = "NONE" THEN "notfound"
    ELSE IF r.userId # u THEN "forbidden"
    ELSE IF r.uploadExpiresAt = 0 THEN "conflict"
    ELSE IF now >= Deadline(r) THEN "gone"
    ELSE IF r.path THEN "ok"
    ELSE IF r.step # "UPLOADING_TO_S3" THEN "conflict"
    ELSE "proceed"

\* The answer the row alone decides; "proceed" when S3 has to be asked.
RowAnswer(r, u, now) ==
    IF r.step = "NONE" THEN "notfound"
    ELSE IF r.userId # u THEN "forbidden"
    ELSE IF r.uploadExpiresAt = 0 THEN "conflict"
    ELSE IF r.path THEN "ok"
    ELSE IF r.step # "UPLOADING_TO_S3" THEN "conflict"
    ELSE IF now >= Deadline(r) THEN "gone"
    ELSE "proceed"

\* Mutant: the request is answered before the object is examined.
StartComplete_AnswersEarly(d, u) ==
    /\ tx[d].pc = "idle"
    /\ reply' = [reply EXCEPT ![d] = RowAnswer(row[d], u, time)]
    /\ UNCHANGED <<time, row, staging, final, puts, slow, tx, cleanupJob,
                   processFile>>

StartComplete(d, u) ==
    /\ tx[d].pc = "idle"
    /\ LET answer == RowAnswer(row[d], u, time) IN
       IF answer = "proceed"
       THEN /\ tx' = [tx EXCEPT ![d] = [NoTx EXCEPT !.pc = "head", !.user = u]]
            /\ UNCHANGED reply
       ELSE /\ reply' = [reply EXCEPT ![d] = answer]
            /\ UNCHANGED tx
    /\ UNCHANGED <<time, row, staging, final, puts, slow, cleanupJob,
                   processFile>>

\* The handler throws or the process stops: nothing of the row is kept.
Rollback(d, answer) ==
    /\ tx' = [tx EXCEPT ![d] = NoTx]
    /\ reply' = [reply EXCEPT ![d] = answer]
    /\ UNCHANGED <<time, row, staging, final, puts, slow, cleanupJob,
                   processFile>>

AbortComplete(d) ==
    /\ tx[d].pc \in Completing
    /\ Rollback(d, "error")

HeadStaging(d) ==
    /\ tx[d].pc = "head"
    /\ \/ /\ staging[d] = NoContent
          /\ Rollback(d, "conflict")
       \/ /\ staging[d] \in Contents \ WellFormed
          /\ Rollback(d, "mismatch")
       \/ /\ staging[d] \in WellFormed
          /\ tx' = [tx EXCEPT ![d].pc = "copy", ![d].etag = staging[d]]
          /\ UNCHANGED <<time, row, staging, final, puts, slow, cleanupJob,
                         processFile, reply>>

\* Mutant: the copy is not conditional.
CopyMatches_Always(d) == staging[d] \in Contents

\* The copy is conditional on the etag (CopySourceIfMatch), so an object
\* replaced since HEAD makes it fail.
CopyMatches(d) == staging[d] = tx[d].etag

CopyToFinal(d) ==
    /\ tx[d].pc = "copy"
    /\ \/ /\ ~CopyMatches(d)
          /\ Rollback(d, "error")
       \/ /\ CopyMatches(d)
          /\ final' = [final EXCEPT ![d] = staging[d]]
          /\ tx' = [tx EXCEPT ![d].pc = "confirm"]
          /\ UNCHANGED <<time, row, staging, puts, slow, cleanupJob,
                         processFile, reply>>

\* Mutant: process_file is sent on another connection and outlives a rollback.
CommitComplete_SendOutside(d) ==
    /\ tx[d].pc = "confirm"
    /\ row' \in {row, [row EXCEPT ![d].path = TRUE, ![d].step = "PENDING",
                                  ![d].stepHistory = Append(@, "PENDING")]}
    /\ processFile' = [processFile EXCEPT ![d] = Append(@, tx[d].user)]
    /\ tx' = [tx EXCEPT ![d] = NoTx]
    /\ \E answer \in {"ok", "error"} : reply' = [reply EXCEPT ![d] = answer]
    /\ UNCHANGED <<time, staging, final, puts, slow, cleanupJob>>

\* save, send and COMMIT: all or nothing.  The answer may be lost on its way.
CommitComplete(d) ==
    /\ tx[d].pc = "confirm"
    /\ row' = [row EXCEPT ![d].path = TRUE, ![d].step = "PENDING",
                          ![d].stepHistory = Append(@, "PENDING")]
    /\ processFile' = [processFile EXCEPT ![d] = Append(@, tx[d].user)]
    /\ tx' = [tx EXCEPT ![d] = NoTx]
    /\ \E answer \in {"ok", "error"} : reply' = [reply EXCEPT ![d] = answer]
    /\ UNCHANGED <<time, staging, final, puts, slow, cleanupJob>>

----------------------------------------------------------------------------
(* The cleanup_depot_upload job, run by the worker.  A failed or lost      *)
(* execution is retried by pg-boss until retryLimit.                       *)

Retried(job) ==
    IF job.retryCount < RetryLimit
    THEN [state |-> "created", startAfter |-> time + RetryDelay,
          retryCount |-> job.retryCount + 1]
    ELSE [job EXCEPT !.state = "failed"]

\* The job is fetched by the clock of the database and checks the deadline
\* against the clock of the worker; fetched too early, it throws.
StartCleanup(d) ==
    /\ cleanupJob[d].state = "created"
    /\ time + ClockSkew >= cleanupJob[d].startAfter
    /\ tx[d].pc = "idle"
    /\ \E now \in time .. time + ClockSkew :
         \/ /\ now < Deadline(row[d])
            /\ cleanupJob' = [cleanupJob EXCEPT ![d] = Retried(@)]
            /\ UNCHANGED tx
         \/ /\ now >= Deadline(row[d])
            /\ cleanupJob' = [cleanupJob EXCEPT ![d].state = "active"]
            /\ tx' = [tx EXCEPT ![d].pc = "staging"]
    /\ UNCHANGED <<time, row, staging, final, puts, slow, processFile, reply>>

\* Mutant: the copy of a rolled-back confirmation is forgotten.
DeleteStaging_Only(d) ==
    /\ tx[d].pc = "staging"
    /\ staging' = [staging EXCEPT ![d] = NoContent]
    /\ tx' = [tx EXCEPT ![d].pc = "clean"]
    /\ UNCHANGED <<time, row, final, puts, slow, cleanupJob, processFile,
                   reply>>

\* Mutant: the final key is cleaned whether the depot is confirmed or not.
DeleteStaging_ThenFinal(d) ==
    /\ tx[d].pc = "staging"
    /\ staging' = [staging EXCEPT ![d] = NoContent]
    /\ tx' = [tx EXCEPT ![d].pc = "final"]
    /\ UNCHANGED <<time, row, final, puts, slow, cleanupJob, processFile,
                   reply>>

DeleteStaging(d) ==
    /\ tx[d].pc = "staging"
    /\ staging' = [staging EXCEPT ![d] = NoContent]
    /\ tx' = [tx EXCEPT ![d].pc = IF row[d].path THEN "clean" ELSE "final"]
    /\ UNCHANGED <<time, row, final, puts, slow, cleanupJob, processFile,
                   reply>>

DeleteFinal(d) ==
    /\ tx[d].pc = "final"
    /\ final' = [final EXCEPT ![d] = NoContent]
    /\ tx' = [tx EXCEPT ![d].pc = "clean"]
    /\ UNCHANGED <<time, row, staging, puts, slow, cleanupJob, processFile,
                   reply>>

\* Mutant: confirmed depots are rejected too.
CommitCleanup_RejectsAll(d) ==
    /\ tx[d].pc = "clean"
    /\ row' = [row EXCEPT ![d].status = "REJETE", ![d].error = TRUE]
    /\ tx' = [tx EXCEPT ![d] = NoTx]
    /\ cleanupJob' = [cleanupJob EXCEPT ![d].state = "completed"]
    /\ UNCHANGED <<time, staging, final, puts, slow, processFile, reply>>

\* Mutant: the objects are deleted and the row is not saved.
CommitCleanup_NotSaved(d) ==
    /\ tx[d].pc = "clean"
    /\ tx' = [tx EXCEPT ![d] = NoTx]
    /\ cleanupJob' = [cleanupJob EXCEPT ![d].state = "completed"]
    /\ UNCHANGED <<time, row, staging, final, puts, slow, processFile, reply>>

\* A worker that stops after COMMIT leaves the job to be retried.
CommitCleanup(d) ==
    /\ tx[d].pc = "clean"
    /\ row' = IF row[d].path THEN row
              ELSE [row EXCEPT ![d].status = "REJETE", ![d].error = TRUE]
    /\ tx' = [tx EXCEPT ![d] = NoTx]
    /\ \/ cleanupJob' = [cleanupJob EXCEPT ![d].state = "completed"]
       \/ cleanupJob' = [cleanupJob EXCEPT ![d] = Retried(@)]
    /\ UNCHANGED <<time, staging, final, puts, slow, processFile, reply>>

AbortCleanup(d) ==
    /\ tx[d].pc \in Cleaning
    /\ tx' = [tx EXCEPT ![d] = NoTx]
    /\ cleanupJob' = [cleanupJob EXCEPT ![d] = Retried(@)]
    /\ UNCHANGED <<time, row, staging, final, puts, slow, processFile, reply>>

----------------------------------------------------------------------------
Tick ==
    /\ time < MaxTime
    /\ time' = time + 1
    /\ UNCHANGED <<row, staging, final, puts, slow, tx, cleanupJob,
                   processFile, reply>>

Browser(d) ==
    \/ \E u \in Users : Initialize(d, u) \/ StartComplete(d, u)
    \/ \E c \in Contents : StartPut(d, c)

CompleteStep(d) ==
    HeadStaging(d) \/ CopyToFinal(d) \/ CommitComplete(d) \/ AbortComplete(d)

CleanupStep(d) ==
    DeleteStaging(d) \/ DeleteFinal(d) \/ CommitCleanup(d) \/ AbortCleanup(d)

Next ==
    \/ Tick
    \/ \E d \in Depots :
         \/ Browser(d)
         \/ \E p \in puts[d] : FinishPut(d, p)
         \/ CompleteStep(d)
         \/ StartCleanup(d)
         \/ CleanupStep(d)

Spec == Init /\ [][Next]_vars

\* Handlers that have started end, jobs that are due are fetched and time
\* passes; nobody has to open, send or confirm anything, and no PUT to end.
FairSpec ==
    /\ Spec
    /\ WF_vars(Tick)
    /\ \A d \in Depots :
         /\ WF_vars(CompleteStep(d))
         /\ WF_vars(StartCleanup(d))
         /\ WF_vars(CleanupStep(d))

----------------------------------------------------------------------------
TypeOK ==
    /\ time \in Nat
    /\ row \in [Depots -> Row]
    /\ staging \in [Depots -> Contents \cup {NoContent}]
    /\ final \in [Depots -> Contents \cup {NoContent}]
    /\ puts \in [Depots -> SUBSET Put]
    /\ slow \subseteq Depots
    /\ tx \in [Depots -> Tx]
    /\ cleanupJob \in [Depots -> CleanupJob]
    /\ processFile \in [Depots -> Seq(Users \cup {NoUser})]
    /\ reply \in [Depots -> Replies]

Confirmed(d) == row[d].path /\ row[d].uploadExpiresAt # 0

\* Repeated, concurrent and retried confirmations enqueue exactly one
\* process_file job, on behalf of the depositor, and only with the row
\* saying so; a depot without an upload session is never enqueued
\* (depotUpload.service.ts, complete).
ConfirmedOnce ==
    \A d \in Depots :
        /\ Confirmed(d) => processFile[d] = <<row[d].userId>>
        /\ ~Confirmed(d) => processFile[d] = << >>

\* The file of a confirmed depot exists, and is one whose size and type were
\* verified, whatever was PUT meanwhile and whatever the cleanup deleted.
ConfirmedFileKept == \A d \in Depots : Confirmed(d) => final[d] \in WellFormed

\* A depot whose file was written after the cleanup could have deleted it,
\* while the clocks of the worker and of the API disagree.
Overtaken(d) == d \in slow /\ ClockSkew > 0

\* A depot rejected by the cleanup is confirmed afterwards, although complete
\* never looks at the status, only if both a transfer outlasted the delay
\* before cleanup and the worker's clock was ahead of the API's.
RejectedNeverConfirmed ==
    \A d \in Depots :
        row[d].status = "REJETE" /\ row[d].path => Overtaken(d)

\* Once the cleanup job has completed, what the bucket holds of the depot
\* beside the file of a confirmed one comes from transfers that outlasted the
\* delay before cleanup: under uploads/, where the lifecycle rule of the
\* bucket removes it, or, if the clocks disagree as well, under depots/.
NothingLeftBehind ==
    \A d \in Depots : cleanupJob[d].state = "completed" =>
        /\ staging[d] = NoContent \/ d \in slow
        /\ \A p \in puts[d] : Slow(p)
        /\ final[d] = NoContent \/ Confirmed(d) \/ Overtaken(d)

\* To the depositor a confirmed depot stays confirmed: repeating the request,
\* even after the deadline, is never refused.
ConfirmationIsIdempotent ==
    [][\A d \in Depots : Confirmed(d) /\ reply'[d] # reply[d]
          => reply'[d] \in {"ok", "error", "forbidden"}]_vars

\* Every session ends: confirmed, rejected, or left by a cleanup job that
\* pg-boss has given up.
SessionEnds ==
    \A d \in Depots : cleanupJob[d].state # "absent" ~>
        (row[d].path \/ row[d].status = "REJETE" \/ cleanupJob[d].state = "failed")

----------------------------------------------------------------------------
(* The refinement mapping to DepotIntake.  A legacy depot has no session.  *)

phaseOf(r) ==
    IF r.uploadExpiresAt = 0 THEN "absent"
    ELSE IF r.path THEN "accepted"
    ELSE IF r.status = "REJETE" THEN "expired"
    ELSE "open"

Intake == INSTANCE DepotIntake WITH
    Verified <- WellFormed,
    phase <- [d \in Depots |-> phaseOf(row[d])],
    depositor <- [d \in Depots |-> IF row[d].uploadExpiresAt = 0
                                   THEN NoUser ELSE row[d].userId],
    file <- [d \in Depots |-> IF Confirmed(d) THEN final[d] ELSE NoContent],
    requests <- processFile,
    late <- {d \in Depots : Overtaken(d)}

\* Opening, sending, confirming, expiring, failing and retrying in any order
\* is, for the depositor and the worker, the abstract intake: in particular a
\* confirmed file never changes although its URL may still be valid.
ImplementsIntake == Intake!IntakeSpec

============================================================================
