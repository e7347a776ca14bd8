---------------------------- MODULE DepotPipeline ----------------------------
(***************************************************************************)
(* What the worker does with a depot once its upload is confirmed          *)
(* (apps/back/src/worker), and the return of the Agent Verseau             *)
(* (apps/back/src/dossier/masa).                                           *)
(*                                                                         *)
(* The depot goes from one pg-boss queue to the next:                      *)
(*                                                                         *)
(*   process_file -> controle_metier -> controle_sandre_upload             *)
(*     -> controle_sandre_poll (repeated) -> send_to_sftp                  *)
(*     -> (webhook) process_after_masa_webhook -> diffusion_rapport        *)
(*     -> email                                                            *)
(*                                                                         *)
(* and a rejection goes to diffusion_rapport directly.  A handler is a     *)
(* sequence of awaited calls, each with one effect; every such call is one *)
(* action here, so that a failure, a crash or an expiry may fall between   *)
(* any two of them.  pg-boss delivers a job at least once: an attempt that *)
(* throws, dies with the process or outlives its time limit is made again, *)
(* up to RetryLimit times, and an attempt that outlived its limit runs on. *)
(*                                                                         *)
(* The queues of two depots share nothing but the order in which the       *)
(* worker takes their jobs: the module follows one depot, whose file is    *)
(* known by the answers it would get (dossier).                            *)
(***************************************************************************)
EXTENDS Integers, FiniteSets, Bags, BagsExt, FiniteSetsExt

CONSTANTS
    Dossiers,    \* the files considered, by the answers they get
    RetryLimit,  \* retryLimit of the queues (2 in the code)
    MaxAttempts, \* MAX_ATTEMPTS, last poll of SANDRE (240 in the code)
    MaxCalls,    \* bound: calls of the webhook
    Fragile,     \* bound: queues whose handlers may fail, "worker" if the
                 \* process may die, "webhook" if a call of it may fail
    MaxFaults    \* bound: failures of any kind

Answers == [droits : {"accorde", "refuse", "illisible"},
            controles : {"valide", "invalide", "erreur"},
            sandre : {"conforme", "nonConforme", "FAILED"},
            user : {"complet", "sansContact", "sansEmail"}]

ASSUME BoundsAssumption ==
    /\ Dossiers \subseteq Answers
    /\ RetryLimit \in Nat /\ MaxAttempts \in Nat /\ MaxFaults \in Nat
    /\ MaxCalls \in Nat

VARIABLES
    dossier,  \* the answers this depot's file and user get, for good
    depot,    \* the row of the depot table
    recorded, \* rows of controle and reponse_sandre for the depot
    masa,     \* MasaStatus saved for the depot, or "none"
    jobs,     \* the bag of the depot's jobs, with the handlers that run them
    failed,   \* queues where a job of the depot used up its retries
    calls,    \* calls of the webhook, by number
    remote,   \* what the Agent Verseau's SFTP directory holds
    pdf,      \* the report under the depot's report key
    agence,   \* the archive was sent to the agence de l'eau
    mails,    \* mails handed to the provider, by kind
    faults    \* failures so far

vars == <<dossier, depot, recorded, masa, jobs, failed, calls, remote, pdf,
          agence, mails, faults>>

Queues == {"process_file", "controle_metier", "controle_sandre_upload",
           "controle_sandre_poll", "send_to_sftp",
           "process_after_masa_webhook", "diffusion_rapport", "email"}
MasaStatuses == {"INTEGRE", "INTEGRATION_PARTIELLE", "REFUSE"}
WebhookStatuses ==
    {"INITIALISE", "INTEGRE", "ARCHIVE_NON_ACCEPTE", "DEPOSE", "REJETE", "INTEGRABLE",
     "A_INTEGRER", "ARCHIVE_ACCEPTE_PARTIELLEMENT", "ARCHIVE_ACCEPTE", "ARCHIVE_REJETE",
     "ERREUR_BLOQUANTE"}
Kinds == {"rejet", "masa"}

Depot == [status : {"EN_COURS_DE_TRAITEMENT", "INTEGRE",
                    "INTEGRE_PARTIELLEMENT", "REJETE"},
          step : {"PENDING", "CONTROLE_IN_PROGRESS", "CONTROLE_COMPLETED",
                  "CONTROLE_FAILED", "PARSER_SANDRE_IN_PROGRESS",
                  "CONTROLE_SANDRE_COMPLETED", "CONTROLE_SANDRE_FAILED",
                  "READY_FOR_SFTP", "SFTP_IN_PROGRESS", "SFTP_COMPLETED",
                  "SFTP_FAILED", "MASA_CALLED_ENPOINT",
                  "SEND_EMAIL_TO_DEPOSANT"},
          etapeMetier : {"none", "CONTROLE_REFERENTIEL", "CONTROLE_METIER",
                         "SCENARIO_SANDRE", "FINALISATION_IMPORT"},
          controleStatus : {"none", "PENDING", "SUCCESS", "FAILED"},
          controleSandreStatus : {"none", "PENDING", "SUCCESS", "FAILED"},
          error : {"none", "DROITS", "CONTROLE_METIER_TECHNICAL_FAILURE",
                   "SANDRE_UPLOAD_FAILED", "SANDRE_POLL_TIMEOUT",
                   "SANDRE_POLL_FAILED"},
          rapportPath : BOOLEAN]

Recorded == [controles : Nat, technique : BOOLEAN, reponse : BOOLEAN]

\* A job: "attempt" is the attemptCount of a poll, "masa" whether the data
\* carries a masaId (or, for a mail, the MASA fields), "agence" whether the
\* destinataires include AGENCE_EAU.  "pc" is the next call of the handler
\* that runs the job, "none" when no handler does.  An active job without
\* handler is one whose worker died; a record in state "expired" is no job
\* any more, only a handler whose attempt outlived its limit.
Job == [queue : Queues, state : {"created", "active", "expired"},
        retryCount : Nat, attempt : Nat, masa : BOOLEAN, agence : BOOLEAN,
        pc : {"none", "start", "rights", "controls", "verdict", "ready",
              "upload", "enqueue", "send", "ack", "complete", "report",
              "agence", "email", "mark", "follow", "catch", "reject", "abandon"}]

Call == [pc : {"idle", "save", "send", "ok", "error"}, statut : MasaStatuses]
Calls == 1..MaxCalls

NewJob(q) == [queue |-> q, state |-> "created", retryCount |-> 0,
              attempt |-> 0, masa |-> FALSE, agence |-> FALSE,
              pc |-> "none"]

Init ==
    /\ dossier \in Dossiers
    /\ depot = [status |-> "EN_COURS_DE_TRAITEMENT", step |-> "PENDING",
                etapeMetier |-> "none", controleStatus |-> "none",
                controleSandreStatus |-> "none", error |-> "none",
                rapportPath |-> FALSE]
    /\ recorded = [controles |-> 0, technique |-> FALSE, reponse |-> FALSE]
    /\ masa = "none"
    /\ jobs = BagAdd(EmptyBag, NewJob("process_file"))
    /\ failed = {}
    /\ calls = [c \in Calls |-> [pc |-> "idle", statut |-> "REFUSE"]]
    /\ remote = "none"
    /\ pdf = "none"
    /\ agence = FALSE
    /\ mails = [k \in Kinds |-> 0]
    /\ faults = 0

----------------------------------------------------------------------------
(* Jobs and the handlers that run them.                                    *)

At(j, q, pc) == j.queue = q /\ j.pc = pc

Fault(place) ==
    place \in Fragile /\ faults < MaxFaults /\ faults' = faults + 1

Become(j, k) == BagAdd(BagRemove(jobs, j), k)

\* The handler that runs j goes on to its next call, or there is one less.
Goto(j, pc) ==
    jobs' = Become(j, [j EXCEPT !.pc = pc]) /\ UNCHANGED <<failed, faults>>

\* queueService.send: the new job is committed on its own, whatever becomes
\* of the handler that sends it.
GotoSending(j, pc, new) ==
    /\ jobs' = BagAdd(Become(j, [j EXCEPT !.pc = pc]), new)
    /\ UNCHANGED <<failed, faults>>

\* The job once its handler is gone without a word to pg-boss.
Dead(j) == [j EXCEPT !.pc = "none"]

\* The handler returns: pg-boss completes the job (or has given this attempt
\* up already).  If the process dies between the last call and that, the job
\* stays active.
Return(j, after) ==
    /\ \/ jobs' = after /\ UNCHANGED faults
       \/ j.state = "active" /\ Fault(j.queue) /\ jobs' = BagAdd(after, Dead(j))
    /\ UNCHANGED failed

Done(j) == Return(j, BagRemove(jobs, j))
DoneSending(j, new) == Return(j, BagAdd(BagRemove(jobs, j), new))

\* The attempt failed: the job waits for the next one, or has none left.
Again(j) == [j EXCEPT !.state = "created", !.retryCount = @ + 1, !.pc = "none"]

Requeue(j, others) ==
    IF j.retryCount < RetryLimit
    THEN jobs' = BagAdd(others, Again(j)) /\ UNCHANGED failed
    ELSE jobs' = others /\ failed' = failed \cup {j.queue}

\* Mutant: a worker that catches what its handler throws completes the job instead.
FailAttempt_Swallows(j) == jobs' = BagRemove(jobs, j) /\ UNCHANGED failed

\* The handler throws: pg-boss fails the attempt it still waits for.
FailAttempt(j) ==
    IF j.state = "active"
    THEN Requeue(j, BagRemove(jobs, j))
    ELSE jobs' = BagRemove(jobs, j) /\ UNCHANGED failed

\* The awaited calls a handler makes inside its try block.
Guarded ==
    [q \in Queues |->
        CASE q = "process_file" -> {"rights"}
          [] q = "controle_metier" -> {"controls", "verdict"}
          [] q = "controle_sandre_upload" -> {"upload", "enqueue"}
          [] q = "controle_sandre_poll" -> {"start", "verdict", "ready", "follow"}
          [] q = "send_to_sftp" -> {"send", "ack", "complete"}
          [] OTHER -> {}]

\* Where a handler resumes when an awaited call rejects, "out" if it is left.
\* Two failures are only logged: of the row that records a technical error,
\* and of the transfer to the agence de l'eau.
Resume(j) ==
    CASE j.pc \in Guarded[j.queue] -> "catch"
      [] At(j, "controle_metier", "catch") -> "reject"
      [] At(j, "diffusion_rapport", "agence") -> "email"
      [] OTHER -> "out"

----------------------------------------------------------------------------
(* pg-boss and the worker process: one job at a time of each queue.        *)

Fetch(j) ==
    /\ j.state = "created"
    /\ \A k \in DOMAIN jobs :
           k.queue = j.queue /\ k.state = "active" => k.pc = "none"
    /\ jobs' = Become(j, [j EXCEPT !.state = "active", !.pc = "start"])
    /\ UNCHANGED <<failed, faults>>

\* The running handler outlives expireInSeconds: the attempt counts as
\* failed, and the handler goes on beside the next one.
Outlive(j) ==
    /\ j.state = "active" /\ j.pc # "none"
    /\ Fault(j.queue)
    /\ Requeue(j, Become(j, [j EXCEPT !.state = "expired"]))

\* pg-boss finds an active job whose handler is gone.
ExpireDead(j) ==
    /\ j.state = "active" /\ j.pc = "none"
    /\ Requeue(j, BagRemove(jobs, j))
    /\ UNCHANGED faults

\* The awaited call rejects: database, bucket, SANDRE, SFTP, mail or pg-boss.
Throw(j) ==
    /\ j.pc # "none"
    /\ Fault(j.queue)
    /\ IF Resume(j) # "out"
       THEN jobs' = Become(j, [j EXCEPT !.pc = Resume(j)]) /\ UNCHANGED failed
       ELSE FailAttempt(j)

\* How many jobs are in one of the states S.
Count(S) == MapThenSumSet(LAMBDA j : jobs[j], S)

\* The worker process dies, with all it runs; the jobs stay active.
Crash ==
    /\ \E j \in DOMAIN jobs : j.pc # "none"
    /\ Fault("worker")
    /\ LET left == {j \in DOMAIN jobs : j.state # "expired"}
       IN  jobs' = [k \in {Dead(j) : j \in left} |->
                       Count({j \in left : Dead(j) = k})]
    /\ UNCHANGED failed

----------------------------------------------------------------------------
(* process_file: rights of the depositor on the works the file names.      *)

StartProcessFile(j) ==
    /\ At(j, "process_file", "start")
    /\ depot' = [depot EXCEPT !.status = "EN_COURS_DE_TRAITEMENT",
                              !.step = "CONTROLE_IN_PROGRESS",
                              !.etapeMetier = "CONTROLE_REFERENTIEL",
                              !.controleStatus = "PENDING",
                              !.controleSandreStatus = "PENDING"]
    /\ Goto(j, "rights")

CheckRights(j) ==
    /\ At(j, "process_file", "rights")
    /\ \/ /\ dossier.droits = "accorde"
          /\ DoneSending(j, NewJob("controle_metier"))
          /\ UNCHANGED depot
       \/ /\ dossier.droits = "refuse"
          /\ depot' = [depot EXCEPT !.status = "REJETE", !.error = "DROITS",
                                    !.step = "CONTROLE_FAILED"]
          /\ Done(j)
       \/ /\ dossier.droits = "illisible"
          /\ Goto(j, "catch")
          /\ UNCHANGED depot

CatchProcessFile(j) ==
    /\ At(j, "process_file", "catch")
    /\ depot' = [depot EXCEPT !.status = "REJETE", !.step = "CONTROLE_FAILED"]
    /\ FailAttempt(j) /\ UNCHANGED faults

ProcessFile(j) ==
    /\ StartProcessFile(j) \/ CheckRights(j) \/ CatchProcessFile(j)
    /\ UNCHANGED <<dossier, recorded, masa, calls, remote, pdf, agence, mails>>

----------------------------------------------------------------------------
(* controle_metier: controls V1 and V2, recorded in one transaction.       *)

StartControleMetier(j) ==
    /\ At(j, "controle_metier", "start")
    /\ depot' = [depot EXCEPT !.status = "EN_COURS_DE_TRAITEMENT",
                              !.step = "CONTROLE_IN_PROGRESS"]
    /\ Goto(j, "controls")
    /\ UNCHANGED recorded

\* Nothing looks for the rows of an earlier attempt: each adds its own.
ExecuteControles(j) ==
    /\ At(j, "controle_metier", "controls")
    /\ \/ /\ dossier.controles = "erreur"
          /\ Goto(j, "catch")
          /\ UNCHANGED recorded
       \/ /\ dossier.controles # "erreur"
          /\ recorded' = [recorded EXCEPT !.controles = @ + 1]
          /\ Goto(j, "verdict")
    /\ UNCHANGED depot

ControleVerdict(j) ==
    /\ At(j, "controle_metier", "verdict")
    /\ depot' = IF dossier.controles = "valide"
                THEN [depot EXCEPT !.controleStatus = "SUCCESS",
                                   !.step = "CONTROLE_COMPLETED",
                                   !.etapeMetier = "CONTROLE_METIER"]
                ELSE [depot EXCEPT !.status = "REJETE",
                                   !.controleStatus = "FAILED",
                                   !.step = "CONTROLE_FAILED",
                                   !.etapeMetier = "CONTROLE_REFERENTIEL"]
    /\ Goto(j, "follow")
    /\ UNCHANGED recorded

\* Mutant: both controls in parallel, as they once were, without the coordinator.
FollowControle_Always(j) ==
    /\ At(j, "controle_metier", "follow")
    /\ DoneSending(j, NewJob("controle_sandre_upload"))
    /\ UNCHANGED <<depot, recorded>>

FollowControle(j) ==
    /\ At(j, "controle_metier", "follow")
    /\ DoneSending(j, IF dossier.controles = "valide"
                              THEN NewJob("controle_sandre_upload")
                              ELSE NewJob("diffusion_rapport"))
    /\ UNCHANGED <<depot, recorded>>

RecordTechnicalError(j) ==
    /\ At(j, "controle_metier", "catch")
    /\ recorded' = [recorded EXCEPT !.technique = TRUE]
    /\ Goto(j, "reject")
    /\ UNCHANGED depot

\* A technical failure rejects the depot and ends the job: no retry.
RejectTechnically(j) ==
    /\ At(j, "controle_metier", "reject")
    /\ depot' = [depot EXCEPT !.status = "REJETE", !.step = "CONTROLE_FAILED",
                              !.controleStatus = "FAILED",
                              !.error = "CONTROLE_METIER_TECHNICAL_FAILURE"]
    /\ Done(j)
    /\ UNCHANGED recorded

ControleMetier(j) ==
    /\ \/ StartControleMetier(j) \/ ExecuteControles(j) \/ ControleVerdict(j)
       \/ FollowControle(j) \/ RecordTechnicalError(j) \/ RejectTechnically(j)
    /\ UNCHANGED <<dossier, masa, calls, remote, pdf, agence, mails>>

----------------------------------------------------------------------------
(* controle_sandre_upload: the file is submitted, and a poll scheduled.    *)

StartUpload(j) ==
    /\ At(j, "controle_sandre_upload", "start")
    /\ depot' = [depot EXCEPT !.status = "EN_COURS_DE_TRAITEMENT",
                              !.step = "PARSER_SANDRE_IN_PROGRESS"]
    /\ Goto(j, "upload")

\* validateFile: SANDRE opens a task, which nothing but the poll job names.
ValidateFile(j) ==
    /\ At(j, "controle_sandre_upload", "upload")
    /\ Goto(j, "enqueue")
    /\ UNCHANGED depot

EnqueuePoll(j) ==
    /\ At(j, "controle_sandre_upload", "enqueue")
    /\ DoneSending(j, NewJob("controle_sandre_poll"))
    /\ UNCHANGED depot

CatchUpload(j) ==
    /\ At(j, "controle_sandre_upload", "catch")
    /\ depot' = IF j.retryCount >= RetryLimit
                THEN [depot EXCEPT !.status = "REJETE",
                                   !.step = "CONTROLE_SANDRE_FAILED",
                                   !.controleSandreStatus = "FAILED",
                                   !.error = "SANDRE_UPLOAD_FAILED"]
                ELSE depot
    /\ FailAttempt(j) /\ UNCHANGED faults

SandreUpload(j) ==
    /\ StartUpload(j) \/ ValidateFile(j) \/ EnqueuePoll(j) \/ CatchUpload(j)
    /\ UNCHANGED <<dossier, recorded, masa, calls, remote, pdf, agence, mails>>

----------------------------------------------------------------------------
(* controle_sandre_poll: one look at the SANDRE task per job; while there  *)
(* is no answer, each job schedules the next.                              *)

\* Mutant: attemptCount passed on as it is.
NextPoll_SameAttempt(j) ==
    [NewJob("controle_sandre_poll") EXCEPT !.attempt = j.attempt]

NextPoll(j) == [NewJob("controle_sandre_poll") EXCEPT !.attempt = j.attempt + 1]

SandreFailed(error) ==
    [depot EXCEPT !.status = "REJETE", !.step = "CONTROLE_SANDRE_FAILED",
                  !.controleSandreStatus = "FAILED", !.error = error]

\* Mutant: the last poll returns without marking the depot.
PollPending_ForgetsTimeout(j) ==
    /\ At(j, "controle_sandre_poll", "start")
    /\ IF j.attempt >= MaxAttempts THEN Done(j) ELSE DoneSending(j, NextPoll(j))
    /\ UNCHANGED <<depot, recorded>>

PollPending(j) ==
    /\ At(j, "controle_sandre_poll", "start")
    /\ \/ /\ j.attempt >= MaxAttempts
          /\ depot' = SandreFailed("SANDRE_POLL_TIMEOUT")
          /\ Done(j)
       \/ /\ j.attempt < MaxAttempts
          /\ DoneSending(j, NextPoll(j))
          /\ UNCHANGED depot
    /\ UNCHANGED recorded

\* The answer is recorded once: a second insert is refused and ignored.  A
\* task that SANDRE could not run throws SandreTaskFailedError.
PollAnswered(j) ==
    /\ At(j, "controle_sandre_poll", "start")
    /\ \/ /\ dossier.sandre = "FAILED"
          /\ Goto(j, "abandon")
          /\ UNCHANGED recorded
       \/ /\ dossier.sandre # "FAILED"
          /\ recorded' = [recorded EXCEPT !.reponse = TRUE]
          /\ Goto(j, "verdict")
    /\ UNCHANGED depot

SandreVerdict(j) ==
    /\ At(j, "controle_sandre_poll", "verdict")
    /\ \/ /\ dossier.sandre = "conforme"
          /\ depot' = [depot EXCEPT !.controleSandreStatus = "SUCCESS",
                                    !.step = "CONTROLE_SANDRE_COMPLETED",
                                    !.etapeMetier = "SCENARIO_SANDRE"]
          /\ Goto(j, "ready")
       \/ /\ dossier.sandre = "nonConforme"
          /\ depot' = [depot EXCEPT !.status = "REJETE",
                                    !.controleSandreStatus = "FAILED",
                                    !.step = "CONTROLE_SANDRE_FAILED",
                                    !.etapeMetier = "CONTROLE_METIER"]
          /\ Goto(j, "follow")
    /\ UNCHANGED recorded

ReadyForSftp(j) ==
    /\ At(j, "controle_sandre_poll", "ready")
    /\ depot' = [depot EXCEPT !.status = "EN_COURS_DE_TRAITEMENT",
                              !.step = "READY_FOR_SFTP",
                              !.etapeMetier = "FINALISATION_IMPORT"]
    /\ Goto(j, "follow")
    /\ UNCHANGED recorded

FollowPoll(j) ==
    /\ At(j, "controle_sandre_poll", "follow")
    /\ DoneSending(j, IF dossier.sandre = "conforme"
                              THEN NewJob("send_to_sftp")
                              ELSE NewJob("diffusion_rapport"))
    /\ UNCHANGED <<depot, recorded>>

\* Whatever the call that threw, the poll starts over from the next attempt,
\* until the last one; a task SANDRE could not run is not tried again.
CatchPoll(j) ==
    /\ \/ /\ At(j, "controle_sandre_poll", "catch")
          /\ j.attempt < MaxAttempts
          /\ DoneSending(j, NextPoll(j))
          /\ UNCHANGED depot
       \/ /\ \/ At(j, "controle_sandre_poll", "abandon")
             \/ /\ At(j, "controle_sandre_poll", "catch")
                /\ j.attempt >= MaxAttempts
          /\ depot' = SandreFailed("SANDRE_POLL_FAILED")
          /\ Done(j)
    /\ UNCHANGED recorded

SandrePoll(j) ==
    /\ \/ PollPending(j) \/ PollAnswered(j) \/ SandreVerdict(j)
       \/ ReadyForSftp(j) \/ FollowPoll(j) \/ CatchPoll(j)
    /\ UNCHANGED <<dossier, masa, calls, remote, pdf, agence, mails>>

----------------------------------------------------------------------------
(* send_to_sftp: the file, then an empty .ack that makes it readable.      *)

StartSftp(j) ==
    /\ At(j, "send_to_sftp", "start")
    /\ depot' = [depot EXCEPT !.status = "EN_COURS_DE_TRAITEMENT",
                              !.step = "SFTP_IN_PROGRESS",
                              !.etapeMetier = "FINALISATION_IMPORT"]
    /\ Goto(j, "send")
    /\ UNCHANGED remote

\* The contact of the depositor is looked up first, and goes in the file.
SendFile(j) ==
    /\ At(j, "send_to_sftp", "send")
    /\ \/ /\ dossier.user = "complet"
          /\ remote' = IF remote = "none" THEN "file" ELSE remote
          /\ Goto(j, "ack")
       \/ /\ dossier.user # "complet"
          /\ Goto(j, "catch")
          /\ UNCHANGED remote
    /\ UNCHANGED depot

SendAck(j) ==
    /\ At(j, "send_to_sftp", "ack")
    /\ remote' = "ack"
    /\ Goto(j, "complete")
    /\ UNCHANGED depot

\* Mutant: the whole state of the depot written again, the status included.
CompleteSftp_SetsStatus(j) ==
    /\ At(j, "send_to_sftp", "complete")
    /\ depot' = [depot EXCEPT !.status = "EN_COURS_DE_TRAITEMENT",
                              !.step = "SFTP_COMPLETED"]
    /\ Done(j)
    /\ UNCHANGED remote

CompleteSftp(j) ==
    /\ At(j, "send_to_sftp", "complete")
    /\ depot' = [depot EXCEPT !.step = "SFTP_COMPLETED"]
    /\ Done(j)
    /\ UNCHANGED remote

CatchSftp(j) ==
    /\ At(j, "send_to_sftp", "catch")
    /\ depot' = [depot EXCEPT !.status = "REJETE", !.step = "SFTP_FAILED"]
    /\ FailAttempt(j) /\ UNCHANGED faults
    /\ UNCHANGED remote

SendToSftp(j) ==
    /\ \/ StartSftp(j) \/ SendFile(j) \/ SendAck(j) \/ CompleteSftp(j)
       \/ CatchSftp(j)
    /\ UNCHANGED <<dossier, recorded, masa, calls, pdf, agence, mails>>

----------------------------------------------------------------------------
(* The webhook of the Agent Verseau, served by the API.  It answers for a  *)
(* file it could read, as often as it likes.                               *)

\* What is not an integration is a refusal, also what is not decided yet.
MapWebhookStatusToMasaStatus(statut) ==
    IF statut \in {"INTEGRE", "ARCHIVE_ACCEPTE"} THEN "INTEGRE"
    ELSE IF statut = "ARCHIVE_ACCEPTE_PARTIELLEMENT" THEN "INTEGRATION_PARTIELLE"
    ELSE "REFUSE"

WebhookCall(c) ==
    /\ calls[c].pc = "idle" /\ \A b \in Calls : b < c => calls[b].pc # "idle"
    /\ remote = "ack"
    /\ IF masa # "none"
       THEN calls' = [calls EXCEPT ![c].pc = "ok"]
       ELSE \E statut \in WebhookStatuses :
                calls' = [calls EXCEPT ![c] =
                   [pc |-> "save", statut |-> MapWebhookStatusToMasaStatus(statut)]]
    /\ UNCHANGED <<masa, jobs, faults>>

\* Mutant: an upsert: the later of two calls wins.
SaveMasaRetour_Overwrites(c) ==
    /\ calls[c].pc = "save"
    /\ masa' = calls[c].statut
    /\ calls' = [calls EXCEPT ![c].pc = "send"]
    /\ UNCHANGED <<jobs, faults>>

\* Mutant: the row of the other call is taken for this one's.
SaveMasaRetour_Ignores(c) ==
    /\ calls[c].pc = "save"
    /\ masa' = IF masa = "none" THEN calls[c].statut ELSE masa
    /\ calls' = [calls EXCEPT ![c].pc = "send"]
    /\ UNCHANGED <<jobs, faults>>

\* The depot_id of masa is unique: of two calls that found no row, the second
\* to save gets an error.
SaveMasaRetour(c) ==
    /\ calls[c].pc = "save"
    /\ IF masa = "none"
       THEN /\ masa' = calls[c].statut
            /\ calls' = [calls EXCEPT ![c].pc = "send"]
       ELSE /\ calls' = [calls EXCEPT ![c].pc = "error"]
            /\ UNCHANGED masa
    /\ UNCHANGED <<jobs, faults>>

EnqueueMasa(c) ==
    /\ calls[c].pc = "send"
    /\ jobs' = BagAdd(jobs, [NewJob("process_after_masa_webhook") EXCEPT !.masa = TRUE])
    /\ calls' = [calls EXCEPT ![c].pc = "ok"]
    /\ UNCHANGED <<masa, faults>>

\* The API dies, or its call to the database or to pg-boss is refused.
FailCall(c) ==
    /\ calls[c].pc \in {"save", "send"}
    /\ Fault("webhook")
    /\ calls' = [calls EXCEPT ![c].pc = "error"]
    /\ UNCHANGED <<masa, jobs>>

Webhook(c) ==
    /\ WebhookCall(c) \/ SaveMasaRetour(c) \/ EnqueueMasa(c) \/ FailCall(c)
    /\ UNCHANGED <<dossier, depot, recorded, failed, remote, pdf, agence, mails>>

----------------------------------------------------------------------------
(* process_after_masa_webhook: the status MASA gives, then the report.     *)

\* Mutant: MasaStatus taken for a DepotStatus.
StatusOf_Same(statut) == statut

StatusOf(statut) ==
    CASE statut = "INTEGRE" -> "INTEGRE"
      [] statut = "INTEGRATION_PARTIELLE" -> "INTEGRE_PARTIELLEMENT"
      [] statut = "REFUSE" -> "REJETE"

\* Mutant: only what was accepted changes the status.
StartMasa_AcceptedOnly(j) ==
    /\ At(j, "process_after_masa_webhook", "start")
    /\ depot' = [depot EXCEPT !.status = IF masa = "REFUSE" THEN @ ELSE StatusOf(masa),
                              !.step = "MASA_CALLED_ENPOINT",
                              !.etapeMetier = "none"]
    /\ Goto(j, "follow")

StartMasa(j) ==
    /\ At(j, "process_after_masa_webhook", "start")
    /\ depot' = [depot EXCEPT !.status = StatusOf(masa),
                              !.step = "MASA_CALLED_ENPOINT",
                              !.etapeMetier = "none"]
    /\ Goto(j, "follow")

\* Mutant: the same addressees whatever MASA answered.
FollowMasa_Everyone(j) ==
    /\ At(j, "process_after_masa_webhook", "follow")
    /\ DoneSending(j, [NewJob("diffusion_rapport") EXCEPT
                           !.masa = TRUE, !.agence = TRUE])
    /\ UNCHANGED depot

FollowMasa(j) ==
    /\ At(j, "process_after_masa_webhook", "follow")
    /\ DoneSending(j, [NewJob("diffusion_rapport") EXCEPT
                                  !.masa = TRUE, !.agence = masa # "REFUSE"])
    /\ UNCHANGED depot

ProcessMasa(j) ==
    /\ StartMasa(j) \/ FollowMasa(j)
    /\ UNCHANGED <<dossier, recorded, masa, calls, remote, pdf, agence, mails>>

----------------------------------------------------------------------------
(* diffusion_rapport: report, agence de l'eau, mail to the depositor.      *)

KindOf(job) == IF job.masa THEN "masa" ELSE "rejet"

GenerateReport(j) ==
    /\ At(j, "diffusion_rapport", "start")
    /\ pdf' = KindOf(j)
    /\ Goto(j, "report")
    /\ UNCHANGED <<depot, agence>>

SaveRapportPath(j) ==
    /\ At(j, "diffusion_rapport", "report")
    /\ depot' = [depot EXCEPT !.rapportPath = TRUE]
    /\ Goto(j, IF j.agence THEN "agence" ELSE "email")
    /\ UNCHANGED <<pdf, agence>>

\* An agency without code, name rule or client is passed over, and so is an
\* error of its SFTP server.
SendToAgence(j) ==
    /\ At(j, "diffusion_rapport", "agence")
    /\ agence' \in {agence, TRUE}
    /\ Goto(j, "email")
    /\ UNCHANGED <<depot, pdf>>

EnqueueMail(j) ==
    /\ At(j, "diffusion_rapport", "email")
    /\ IF dossier.user = "sansEmail"
       THEN Done(j)
       ELSE GotoSending(j, "mark", [NewJob("email") EXCEPT !.masa = j.masa])
    /\ UNCHANGED <<depot, pdf, agence>>

MarkMail(j) ==
    /\ At(j, "diffusion_rapport", "mark")
    /\ depot' = [depot EXCEPT !.step = "SEND_EMAIL_TO_DEPOSANT"]
    /\ Done(j)
    /\ UNCHANGED <<pdf, agence>>

DiffuseRapport(j) ==
    /\ \/ GenerateReport(j) \/ SaveRapportPath(j) \/ SendToAgence(j)
       \/ EnqueueMail(j) \/ MarkMail(j)
    /\ UNCHANGED <<dossier, recorded, masa, calls, remote, mails>>

SendMail(j) ==
    /\ At(j, "email", "start")
    /\ mails' = [mails EXCEPT ![KindOf(j)] = @ + 1]
    /\ Done(j)
    /\ UNCHANGED <<dossier, depot, recorded, masa, calls, remote, pdf, agence>>

----------------------------------------------------------------------------

\* What a job does when nothing goes wrong.
Handle(j) ==
    \/ ProcessFile(j) \/ ControleMetier(j) \/ SandreUpload(j) \/ SandrePoll(j)
    \/ SendToSftp(j) \/ ProcessMasa(j) \/ DiffuseRapport(j) \/ SendMail(j)

Schedule(j) ==
    /\ Fetch(j) \/ ExpireDead(j)
    /\ UNCHANGED <<dossier, depot, recorded, masa, calls, remote, pdf, agence,
                   mails>>

Fail ==
    /\ Crash \/ \E j \in DOMAIN jobs : Outlive(j) \/ Throw(j)
    /\ UNCHANGED <<dossier, depot, recorded, masa, calls, remote, pdf, agence,
                   mails>>

Next ==
    \/ \E j \in DOMAIN jobs : Schedule(j) \/ Handle(j)
    \/ Fail
    \/ \E c \in Calls : Webhook(c)

Spec == Init /\ [][Next]_vars

\* Every queue has its worker, pg-boss and the API keep running; the Agent
\* Verseau need not call.
FairSpec ==
    /\ Spec
    /\ \A q \in Queues :
           WF_vars(\E j \in DOMAIN jobs :
                       j.queue = q /\ (Schedule(j) \/ Handle(j)))
    /\ \A c \in Calls : WF_vars(calls[c].pc # "idle" /\ Webhook(c))

----------------------------------------------------------------------------
(* What must never happen.                                                 *)

\* Every variable keeps its shape.
TypeOK ==
    /\ dossier \in Answers
    /\ depot \in Depot
    /\ recorded \in Recorded
    /\ masa \in MasaStatuses \cup {"none"}
    /\ BagToSet(jobs) \subseteq Job
    /\ failed \subseteq Queues
    /\ calls \in [Calls -> Call]
    /\ remote \in {"none", "file", "ack"}
    /\ pdf \in Kinds \cup {"none"}
    /\ agence \in BOOLEAN
    /\ mails \in [Kinds -> Nat]
    /\ faults \in 0..MaxFaults

Valid == dossier.droits = "accorde" /\ dossier.controles = "valide"
         /\ dossier.sandre = "conforme"

\* Whatever is retried, run twice or lost, the Agent Verseau is only sent a
\* file that passed the rights, the business controls and SANDRE.
DeliveredOnlyValid == remote # "none" => Valid

\* A depot is shown as integrated only when the MASA row says so, and that row
\* answers a file that was delivered with its .ack.
IntegratedOnlyByMasa ==
    /\ depot.status \in {"INTEGRE", "INTEGRE_PARTIELLEMENT"}
           => masa # "none" /\ depot.status = StatusOf(masa)
    /\ masa # "none" => remote = "ack"

\* The agence de l'eau only gets files that MASA took, and every report has
\* a reason that can be read back: the MASA row, or rows of failed controls,
\* or the refusal of SANDRE.
ReportJustified ==
    /\ agence => masa \in {"INTEGRE", "INTEGRATION_PARTIELLE"}
    /\ pdf = "masa" \/ mails["masa"] > 0 => masa # "none"
    /\ pdf = "rejet" \/ mails["rejet"] > 0 =>
           \/ dossier.controles = "invalide" /\ recorded.controles > 0
           \/ dossier.sandre = "nonConforme" /\ recorded.reponse

Alive == jobs # EmptyBag

\* Until MASA answers, a depot "en cours" is somewhere: in a job, or at the
\* Agent Verseau.  One failure, wherever it strikes, never leaves it behind;
\* only a job that used up its retries may.
NoSilentStop ==
    faults <= 1 /\ depot.status = "EN_COURS_DE_TRAITEMENT" /\ masa = "none"
        => Alive \/ remote = "ack" \/ failed # {}

\* While nothing has failed, a decision is final: an integrated depot stays
\* so, whatever the webhook and the end of the transfer do at the same time.
DecisionIsFinal ==
    [][faults' = 0 /\ depot.status \in {"INTEGRE", "INTEGRE_PARTIELLEMENT"}
           => depot'.status = depot.status]_vars

\* While nothing has failed, a depot gets one mail at most, however often and
\* however concurrently the webhook is called.
OneMail == faults = 0 => mails["rejet"] + mails["masa"] <= 1

----------------------------------------------------------------------------
(* What must happen.                                                       *)

\* The jobs of a depot come to an end: polls are counted, even those that a
\* failure schedules.
ComesToRest == <>[](~Alive)

\* The status that MASA gives is the one the depot ends with, although the
\* handlers around it are run again.  (Failures of the transfer itself and of
\* the webhook are another matter: see the README.)
AnswerIsHonoured ==
    \A m \in MasaStatuses : masa = m ~> [](depot.status = StatusOf(m))

\* A depositor who has an address gets the report of a depot that MASA has
\* answered or that a control rejected, unless a technical failure took the
\* place of the rejection.
BusinessRejection ==
    /\ depot.status = "REJETE" /\ depot.error = "none"
    /\ "FAILED" \in {depot.controleStatus, depot.controleSandreStatus}

OutcomeIsMailed ==
    (masa # "none" \/ BusinessRejection) /\ dossier.user # "sansEmail"
        ~> mails["rejet"] + mails["masa"] > 0 \/ depot.error # "none"

\* A depot that its controls reject stops its jobs and its depositor is told: neither
\* the counted polls nor the diffusion run again stands in the way of the other.
RestsAndIsMailed == ComesToRest /\ OutcomeIsMailed

=============================================================================
