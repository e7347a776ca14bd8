----------------------- MODULE DepotPipeline_proofs ------------------------
(***************************************************************************)
(* Proofs about DepotPipeline, for every set of files, every number of     *)
(* retries, polls, webhook calls and failures, wherever these strike: what *)
(* each status, row and message has behind it, then how a depot ends (its  *)
(* jobs pass on one baton, which a single failure never drops).            *)
(***************************************************************************)
EXTENDS DepotPipeline, TLAPS

Accepting == {"INTEGRE", "INTEGRATION_PARTIELLE"}

\* A reason to reject that can be read back.
Reason(d, r) ==
    \/ d.controles = "invalide" /\ r.controles > 0
    \/ d.sandre = "nonConforme" /\ r.reponse

\* What the existence of a job, and the place its handler is at, say of the
\* file (d), of the rows recorded (r) and of the MASA row (m).
Route(j, d, r, m) ==
    /\ j.queue \in {"controle_metier", "controle_sandre_upload",
                    "controle_sandre_poll", "send_to_sftp"}
           => d.droits = "accorde"
    /\ j.queue \in {"controle_sandre_upload", "controle_sandre_poll",
                    "send_to_sftp"}
           => d.controles = "valide"
    /\ j.queue = "send_to_sftp" => d.sandre = "conforme"
    /\ j.queue = "controle_metier" /\ j.pc \in {"verdict", "follow"}
           => d.controles # "erreur" /\ r.controles > 0
    /\ j.queue = "controle_sandre_poll" /\ j.pc \in {"verdict", "ready", "follow"}
           => d.sandre # "FAILED" /\ r.reponse
    /\ j.queue = "controle_sandre_poll" /\ j.pc = "ready" => d.sandre = "conforme"
    /\ j.queue = "process_after_masa_webhook" => m # "none"
    /\ j.queue \in {"diffusion_rapport", "email"} =>
           /\ j.masa => m # "none"
           /\ ~j.masa => Reason(d, r)
           /\ j.agence \/ j.pc = "agence" => m \in Accepting

Routes == \A j \in DOMAIN jobs : Route(j, dossier, recorded, masa)

\* The webhook only answers what was delivered.
Answered ==
    /\ masa # "none" => remote = "ack"
    /\ \A c \in Calls : calls[c].pc \in {"save", "send"} => remote = "ack"
    /\ \A c \in Calls : calls[c].pc = "send" => masa # "none"

Integrated == depot.status \in {"INTEGRE", "INTEGRE_PARTIELLEMENT"}
                  => masa # "none" /\ depot.status = StatusOf(masa)

PInv == Routes /\ Answered /\ Integrated /\ DeliveredOnlyValid /\ ReportJustified

IInv == TypeOK /\ PInv

----------------------------------------------------------------------------
(* Bags, as sets of what they hold.                                        *)

LEMMA BagDomains ==
    \A B, x : /\ DOMAIN BagAdd(B, x) = DOMAIN B \cup {x}
              /\ DOMAIN BagRemove(B, x) \subseteq DOMAIN B
BY DEF BagAdd, BagRemove

\* What each way of changing the bag may add to it.
LEMMA BecomeAdds ==
    ASSUME NEW j, NEW k
    PROVE  DOMAIN Become(j, k) \subseteq DOMAIN jobs \cup {k}
BY DEF Become, BagAdd, BagRemove

LEMMA GotoAdds ==
    ASSUME NEW j, NEW pc, Goto(j, pc)
    PROVE  DOMAIN jobs' \subseteq DOMAIN jobs \cup {[j EXCEPT !.pc = pc]}
BY BecomeAdds DEF Goto

LEMMA GotoSendingAdds ==
    ASSUME NEW j, NEW pc, NEW new, GotoSending(j, pc, new)
    PROVE  DOMAIN jobs' \subseteq DOMAIN jobs \cup {[j EXCEPT !.pc = pc], new}
<1> DEFINE k == [j EXCEPT !.pc = pc]
<1>1. jobs' = BagAdd(Become(j, k), new)
  BY DEF GotoSending
<1>2. DOMAIN BagAdd(Become(j, k), new) = DOMAIN Become(j, k) \cup {new}
  BY BagDomains
<1> QED BY <1>1, <1>2, BecomeAdds

\* A handler that returned leaves at most a job that has no handler.
LEMMA ReturnAdds ==
    ASSUME NEW j, NEW after, Return(j, after)
    PROVE  DOMAIN jobs' \subseteq DOMAIN after \cup {Dead(j)}
<1>1. DOMAIN BagAdd(after, Dead(j)) = DOMAIN after \cup {Dead(j)}
  BY BagDomains
<1> QED BY <1>1 DEF Return

LEMMA DoneAdds ==
    ASSUME NEW j, Done(j)
    PROVE  DOMAIN jobs' \subseteq DOMAIN jobs \cup {Dead(j)}
<1>1. DOMAIN BagRemove(jobs, j) \subseteq DOMAIN jobs
  BY BagDomains
<1> QED BY <1>1, ReturnAdds DEF Done

LEMMA DoneSendingAdds ==
    ASSUME NEW j, NEW new, DoneSending(j, new)
    PROVE  DOMAIN jobs' \subseteq DOMAIN jobs \cup {Dead(j), new}
<1>1. DOMAIN BagRemove(jobs, j) \subseteq DOMAIN jobs
  BY BagDomains
<1>2. DOMAIN BagAdd(BagRemove(jobs, j), new) = DOMAIN BagRemove(jobs, j) \cup {new}
  BY BagDomains
<1> QED BY <1>1, <1>2, ReturnAdds DEF DoneSending

LEMMA RequeueAdds ==
    ASSUME NEW j, NEW others, Requeue(j, others)
    PROVE  DOMAIN jobs' \subseteq DOMAIN others \cup {Again(j)}
<1>1. DOMAIN BagAdd(others, Again(j)) = DOMAIN others \cup {Again(j)}
  BY BagDomains
<1> QED BY <1>1 DEF Requeue

LEMMA FailAttemptAdds ==
    ASSUME NEW j, FailAttempt(j)
    PROVE  DOMAIN jobs' \subseteq DOMAIN jobs \cup {Again(j)}
<1>1. DOMAIN BagRemove(jobs, j) \subseteq DOMAIN jobs
  BY BagDomains
<1> QED BY <1>1, RequeueAdds DEF FailAttempt

----------------------------------------------------------------------------
(* Jobs.                                                                   *)

LEMMA NewJobType ==
    ASSUME NEW q \in Queues
    PROVE  NewJob(q) \in Job
BY DEF NewJob, Job

Pcs == {"none", "start", "rights", "controls", "verdict", "ready",
        "upload", "enqueue", "send", "ack", "complete", "report",
        "agence", "email", "mark", "follow", "catch", "reject", "abandon"}

LEMMA PcType ==
    ASSUME NEW j \in Job, NEW pc \in Pcs
    PROVE  [j EXCEPT !.pc = pc] \in Job
BY DEF Job, Pcs

LEMMA StateType ==
    ASSUME NEW j \in Job, NEW state \in {"created", "active", "expired"}
    PROVE  [j EXCEPT !.state = state] \in Job
BY DEF Job

LEMMA DeadType ==
    ASSUME NEW j \in Job
    PROVE  Dead(j) \in Job
BY PcType DEF Dead, Pcs

LEMMA RetryType ==
    ASSUME NEW j \in Job, NEW n \in Nat
    PROVE  [j EXCEPT !.retryCount = n] \in Job
BY DEF Job

LEMMA AgainType ==
    ASSUME NEW j \in Job
    PROVE  Again(j) \in Job
<1> DEFINE k == [j EXCEPT !.state = "created"]
<1>1. k \in Job
  BY StateType
<1>2. [k EXCEPT !.retryCount = j.retryCount + 1] \in Job
  <2>1. j.retryCount + 1 \in Nat
    BY DEF Job
  <2> QED BY <1>1, <2>1, RetryType
<1>3. [[k EXCEPT !.retryCount = j.retryCount + 1] EXCEPT !.pc = "none"] \in Job
  BY <1>2, PcType DEF Pcs
<1>4. Again(j) = [[k EXCEPT !.retryCount = j.retryCount + 1] EXCEPT !.pc = "none"]
  BY DEF Again, Job
<1> QED BY <1>3, <1>4

\* A job keeps its reasons when its handler is gone, and when the handler
\* moves to a place that says nothing more.
LEMMA RouteRests ==
    ASSUME NEW j \in Job, NEW d, NEW r, NEW m, Route(j, d, r, m)
    PROVE  /\ Route(Dead(j), d, r, m)
           /\ Route(Again(j), d, r, m)
           /\ \A pc \in Pcs \ {"verdict", "ready", "follow", "agence"} :
                  Route([j EXCEPT !.pc = pc], d, r, m)
           /\ Route([j EXCEPT !.state = "expired"], d, r, m)
BY DEF Job, Again, Dead, Route, Pcs

\* Rows are only added, and the MASA row is written once.
LEMMA RouteStays ==
    ASSUME NEW j \in Job, NEW d, NEW r \in Recorded, NEW s \in Recorded,
           NEW m, NEW n, Route(j, d, r, m),
           r.controles <= s.controles, r.reponse => s.reponse,
           m # "none" => n = m
    PROVE  Route(j, d, s, n)
BY DEF Job, Route, Reason, Recorded, Accepting

\* The frame of a step: the new jobs are all there is to look at.
LEMMA RoutesKept ==
    ASSUME IInv, NEW New,
           DOMAIN jobs' \subseteq DOMAIN jobs \cup New,
           dossier' = dossier, recorded' \in Recorded,
           recorded.controles <= recorded'.controles,
           recorded.reponse => recorded'.reponse,
           masa # "none" => masa' = masa,
           \A k \in New : k \in Job /\ Route(k, dossier', recorded', masa')
    PROVE  Routes' /\ (BagToSet(jobs) \subseteq Job)'
<1> USE DEF IInv, PInv
<1>1. ASSUME NEW j \in DOMAIN jobs PROVE Route(j, dossier', recorded', masa')
  <2>1. j \in Job /\ Route(j, dossier, recorded, masa)
    BY DEF TypeOK, Routes, BagToSet
  <2>2. recorded \in Recorded
    BY DEF TypeOK
  <2> QED BY <2>1, <2>2, RouteStays
<1> QED BY <1>1 DEF Routes, TypeOK, BagToSet

----------------------------------------------------------------------------
(* Steps of a handler: the frame, the ways it moves its job, the rest.     *)

Frame ==
    /\ dossier' = dossier
    /\ recorded' \in Recorded
    /\ recorded.controles <= recorded'.controles
    /\ recorded.reponse => recorded'.reponse
    /\ masa # "none" => masa' = masa

JobsOK ==
    /\ BagToSet(jobs) \subseteq Job
    /\ Routes
    /\ failed \subseteq Queues
    /\ faults \in 0..MaxFaults

LEMMA JobFacts ==
    ASSUME IInv, NEW j \in DOMAIN jobs
    PROVE  j \in Job /\ Route(j, dossier, recorded, masa)
BY DEF IInv, PInv, TypeOK, Routes, BagToSet

LEMMA FrameFacts ==
    ASSUME IInv, Frame, NEW j \in DOMAIN jobs
    PROVE  Route(j, dossier', recorded', masa')
<1>1. j \in Job /\ Route(j, dossier, recorded, masa)
  BY JobFacts
<1>2. recorded \in Recorded
  BY DEF IInv, TypeOK
<1> QED BY <1>1, <1>2, RouteStays DEF Frame

LEMMA FrameUnchanged ==
    ASSUME IInv, UNCHANGED <<dossier, recorded, masa>>
    PROVE  Frame
BY DEF IInv, TypeOK, Frame, Recorded

LEMMA FaultCounts ==
    ASSUME IInv, NEW place, Fault(place)
    PROVE  faults' \in 0..MaxFaults
BY BoundsAssumption DEF IInv, TypeOK, Fault

LEMMA GotoKeeps ==
    ASSUME IInv, Frame, NEW j \in DOMAIN jobs, NEW pc \in Pcs, Goto(j, pc),
           Route([j EXCEPT !.pc = pc], dossier', recorded', masa')
    PROVE  JobsOK'
<1> DEFINE k == [j EXCEPT !.pc = pc]
<1>1. k \in Job
  BY JobFacts, PcType
<1>2. DOMAIN jobs' \subseteq DOMAIN jobs \cup {k}
  BY GotoAdds
<1>3. Routes' /\ (BagToSet(jobs) \subseteq Job)'
  BY <1>1, <1>2, RoutesKept DEF Frame
<1> QED BY <1>3 DEF JobsOK, IInv, TypeOK, Goto

LEMMA GotoPlainKeeps ==
    ASSUME IInv, Frame, NEW j \in DOMAIN jobs,
           NEW pc \in Pcs \ {"verdict", "ready", "follow", "agence"}, Goto(j, pc)
    PROVE  JobsOK'
<1>1. Route([j EXCEPT !.pc = pc], dossier', recorded', masa')
  BY JobFacts, FrameFacts, RouteRests
<1> QED BY <1>1, GotoKeeps

LEMMA GotoSendingKeeps ==
    ASSUME IInv, Frame, NEW j \in DOMAIN jobs,
           NEW pc \in Pcs \ {"verdict", "ready", "follow", "agence"}, NEW new \in Job,
           GotoSending(j, pc, new), Route(new, dossier', recorded', masa')
    PROVE  JobsOK'
<1> DEFINE k == [j EXCEPT !.pc = pc]
<1>1. k \in Job /\ Route(k, dossier', recorded', masa')
  BY JobFacts, FrameFacts, RouteRests, PcType
<1>2. DOMAIN jobs' \subseteq DOMAIN jobs \cup {k, new}
  BY GotoSendingAdds
<1>3. Routes' /\ (BagToSet(jobs) \subseteq Job)'
  BY <1>1, <1>2, RoutesKept DEF Frame
<1> QED BY <1>3 DEF JobsOK, IInv, TypeOK, GotoSending

LEMMA DoneSendingKeeps ==
    ASSUME IInv, Frame, NEW j \in DOMAIN jobs, NEW new \in Job,
           DoneSending(j, new), Route(new, dossier', recorded', masa')
    PROVE  JobsOK'
<1>1. Dead(j) \in Job /\ Route(Dead(j), dossier', recorded', masa')
  BY JobFacts, FrameFacts, RouteRests, DeadType
<1>2. DOMAIN jobs' \subseteq DOMAIN jobs \cup {Dead(j), new}
  BY DoneSendingAdds
<1>3. Routes' /\ (BagToSet(jobs) \subseteq Job)'
  BY <1>1, <1>2, RoutesKept DEF Frame
<1>4. failed' = failed /\ faults' \in 0..MaxFaults
  BY FaultCounts DEF DoneSending, Return, IInv, TypeOK
<1> QED BY <1>3, <1>4 DEF JobsOK, IInv, TypeOK

LEMMA DoneKeeps ==
    ASSUME IInv, Frame, NEW j \in DOMAIN jobs, Done(j)
    PROVE  JobsOK'
<1>1. Dead(j) \in Job /\ Route(Dead(j), dossier', recorded', masa')
  BY JobFacts, FrameFacts, RouteRests, DeadType
<1>2. DOMAIN jobs' \subseteq DOMAIN jobs \cup {Dead(j)}
  BY DoneAdds
<1>3. Routes' /\ (BagToSet(jobs) \subseteq Job)'
  BY <1>1, <1>2, RoutesKept DEF Frame
<1>4. failed' = failed /\ faults' \in 0..MaxFaults
  BY FaultCounts DEF Done, Return, IInv, TypeOK
<1> QED BY <1>3, <1>4 DEF JobsOK, IInv, TypeOK

LEMMA RequeueKeeps ==
    ASSUME IInv, Frame, NEW j \in DOMAIN jobs, NEW others, NEW New,
           Requeue(j, others), DOMAIN others \subseteq DOMAIN jobs \cup New,
           \A k \in New : k \in Job /\ Route(k, dossier', recorded', masa'),
           faults' \in 0..MaxFaults
    PROVE  JobsOK'
<1>1. Again(j) \in Job /\ Route(Again(j), dossier', recorded', masa')
  BY JobFacts, FrameFacts, RouteRests, AgainType
<1>2. DOMAIN jobs' \subseteq DOMAIN jobs \cup (New \cup {Again(j)})
  BY RequeueAdds
<1>3. \A k \in New \cup {Again(j)} : k \in Job /\ Route(k, dossier', recorded', masa')
  BY <1>1
<1>4. Routes' /\ (BagToSet(jobs) \subseteq Job)'
  BY <1>2, <1>3, RoutesKept DEF Frame
<1>5. j.queue \in Queues
  BY JobFacts DEF Job
<1>6. failed' \subseteq Queues
  BY <1>5 DEF Requeue, IInv, TypeOK
<1> QED BY <1>4, <1>6 DEF JobsOK

LEMMA FailAttemptKeeps ==
    ASSUME IInv, Frame, NEW j \in DOMAIN jobs, FailAttempt(j),
           faults' \in 0..MaxFaults
    PROVE  JobsOK'
<1>1. DOMAIN BagRemove(jobs, j) \subseteq DOMAIN jobs
  BY BagDomains
<1> DEFINE New == {}
<1>2. \A k \in New : k \in Job /\ Route(k, dossier', recorded', masa')
  OBVIOUS
<1>3. DOMAIN BagRemove(jobs, j) \subseteq DOMAIN jobs \cup New
  BY <1>1
<1> HIDE DEF New
<1>4. CASE Requeue(j, BagRemove(jobs, j))
  BY <1>2, <1>3, <1>4, RequeueKeeps
<1>5. CASE jobs' = BagRemove(jobs, j) /\ UNCHANGED failed
  <2>1. DOMAIN jobs' \subseteq DOMAIN jobs \cup New
    BY <1>3, <1>5
  <2>2. Routes' /\ (BagToSet(jobs) \subseteq Job)'
    BY <1>2, <2>1, RoutesKept DEF Frame
  <2> QED BY <1>5, <2>2 DEF JobsOK, IInv, TypeOK
<1> QED BY <1>4, <1>5 DEF FailAttempt

\* What is left of a step that neither saves an answer of MASA nor sends a
\* report: the depot stays the one MASA made it, or leaves that status.
Undecided ==
    /\ depot' \in Depot
    /\ depot'.status = depot.status
           \/ depot'.status \in {"EN_COURS_DE_TRAITEMENT", "REJETE"}

Delivery ==
    /\ remote' \in {"none", "file", "ack"}
    /\ remote' # "none" => Valid
    /\ remote = "ack" => remote' = "ack"

LEMMA StepKeeps ==
    ASSUME IInv, Frame, JobsOK', Undecided, Delivery,
           UNCHANGED <<dossier, masa, calls, pdf, agence, mails>>
    PROVE  IInv'
<1>1. TypeOK'
  BY DEF IInv, TypeOK, JobsOK, Frame, Undecided, Delivery, BagToSet
<1>2. Routes'
  BY DEF JobsOK
<1>3. Answered'
  BY DEF IInv, PInv, Answered, Delivery
<1>4. Integrated'
  BY DEF IInv, PInv, Integrated, Undecided
<1>5. DeliveredOnlyValid'
  BY DEF DeliveredOnlyValid, Delivery, Valid
<1>6. ReportJustified'
  <2>1. recorded.controles \in Nat /\ recorded'.controles \in Nat
    BY DEF IInv, TypeOK, Recorded, Frame
  <2> QED BY <2>1 DEF IInv, PInv, ReportJustified, Frame
<1> QED BY <1>1, <1>2, <1>3, <1>4, <1>5, <1>6 DEF IInv, PInv

LEMMA DeliveryUnchanged ==
    ASSUME IInv, UNCHANGED remote
    PROVE  Delivery
BY DEF IInv, PInv, TypeOK, DeliveredOnlyValid, Delivery

LEMMA UndecidedUnchanged ==
    ASSUME IInv, UNCHANGED depot
    PROVE  Undecided
BY DEF IInv, TypeOK, Undecided

----------------------------------------------------------------------------
(* The handlers, queue by queue.                                           *)

LEMMA ProcessFileKeeps ==
    ASSUME IInv, NEW j \in DOMAIN jobs, ProcessFile(j)
    PROVE  IInv'
<1>1. Frame /\ Delivery
  BY FrameUnchanged, DeliveryUnchanged DEF ProcessFile
<1>2. depot \in Depot
  BY DEF IInv, TypeOK
<1>3. CASE StartProcessFile(j)
  <2>1. JobsOK'
    BY <1>1, <1>3, GotoPlainKeeps DEF StartProcessFile, Pcs
  <2>2. Undecided
    BY <1>2, <1>3 DEF StartProcessFile, Depot, Undecided
  <2> QED BY <1>1, <2>1, <2>2, StepKeeps DEF ProcessFile
<1>4. CASE CheckRights(j)
  <2>1. JobsOK'
    <3> DEFINE new == NewJob("controle_metier")
    <3>1. new \in Job
      BY NewJobType DEF Queues
    <3>2. ASSUME dossier.droits = "accorde"
          PROVE  Route(new, dossier', recorded', masa')
      BY <1>1, <3>2 DEF Route, NewJob, Frame
    <3> HIDE DEF new
    <3>3. CASE dossier.droits = "accorde" /\ DoneSending(j, new)
      BY <1>1, <3>1, <3>2, <3>3, DoneSendingKeeps
    <3>4. CASE Done(j)
      BY <1>1, <3>4, DoneKeeps
    <3>5. CASE Goto(j, "catch")
      BY <1>1, <3>5, GotoPlainKeeps DEF Pcs
    <3> QED BY <1>4, <3>3, <3>4, <3>5 DEF CheckRights, new
  <2>2. Undecided
    <3>1. CASE UNCHANGED depot
      BY <3>1, UndecidedUnchanged
    <3>2. CASE depot' = [depot EXCEPT !.status = "REJETE", !.error = "DROITS",
                                      !.step = "CONTROLE_FAILED"]
      BY <1>2, <3>2 DEF Depot, Undecided
    <3> QED BY <1>4, <3>1, <3>2 DEF CheckRights
  <2> QED BY <1>1, <2>1, <2>2, StepKeeps DEF ProcessFile
<1>5. CASE CatchProcessFile(j)
  <2>1. faults' \in 0..MaxFaults
    BY <1>5 DEF CatchProcessFile, IInv, TypeOK
  <2>2. JobsOK'
    BY <1>1, <1>5, <2>1, FailAttemptKeeps DEF CatchProcessFile
  <2>3. Undecided
    BY <1>2, <1>5 DEF CatchProcessFile, Depot, Undecided
  <2> QED BY <1>1, <2>2, <2>3, StepKeeps DEF ProcessFile
<1> QED BY <1>3, <1>4, <1>5 DEF ProcessFile

LEMMA ControleMetierKeeps ==
    ASSUME IInv, NEW j \in DOMAIN jobs, ControleMetier(j)
    PROVE  IInv'
<1>1. Delivery
  BY DeliveryUnchanged DEF ControleMetier
<1>2. depot \in Depot /\ recorded \in Recorded
  BY DEF IInv, TypeOK
<1>3. j \in Job /\ Route(j, dossier, recorded, masa)
  BY JobFacts
<1>4. UNCHANGED recorded => Frame
  BY FrameUnchanged DEF ControleMetier
<1>5. CASE StartControleMetier(j)
  <2>1. Frame
    BY <1>4, <1>5 DEF StartControleMetier
  <2>2. JobsOK'
    BY <2>1, <1>5, GotoPlainKeeps DEF StartControleMetier, Pcs
  <2>3. Undecided
    BY <1>2, <1>5 DEF StartControleMetier, Depot, Undecided
  <2> QED BY <1>1, <2>1, <2>2, <2>3, StepKeeps DEF ControleMetier
<1>6. CASE ExecuteControles(j)
  <2>1. Undecided
    BY <1>6, UndecidedUnchanged DEF ExecuteControles
  <2>2. CASE dossier.controles = "erreur"
    <3>1. Frame
      BY <1>4, <1>6, <2>2 DEF ExecuteControles
    <3>2. JobsOK'
      BY <1>6, <2>2, <3>1, GotoPlainKeeps DEF ExecuteControles, Pcs
    <3> QED BY <1>1, <2>1, <3>1, <3>2, StepKeeps DEF ControleMetier
  <2>3. CASE dossier.controles # "erreur"
    <3>1. recorded' = [recorded EXCEPT !.controles = @ + 1]
      BY <1>6, <2>3 DEF ExecuteControles
    <3>2. recorded' \in Recorded /\ recorded'.controles = recorded.controles + 1
          /\ recorded'.reponse = recorded.reponse
      BY <1>2, <3>1 DEF Recorded
    <3>3. Frame
      BY <1>2, <3>2 DEF Frame, ControleMetier, Recorded
    <3>4. Route([j EXCEPT !.pc = "verdict"], dossier', recorded', masa')
      <4>1. recorded'.controles > 0
        BY <1>2, <3>2 DEF Recorded
      <4>2. Route(j, dossier', recorded', masa') /\ j.queue = "controle_metier"
        BY <1>6, <3>3, FrameFacts DEF ExecuteControles, At
      <4>3. dossier'.controles # "erreur"
        BY <2>3 DEF ControleMetier
      <4> DEFINE k == [j EXCEPT !.pc = "verdict"]
      <4>4. k.queue = "controle_metier"
        BY <1>3, <4>2 DEF Job
      <4>5. dossier'.droits = "accorde"
        BY <4>2 DEF Route
      <4> HIDE DEF k
      <4> QED BY <4>1, <4>3, <4>4, <4>5 DEF Route, k
    <3>5. JobsOK'
      BY <1>6, <2>3, <3>3, <3>4, GotoKeeps DEF ExecuteControles, Pcs
    <3> QED BY <1>1, <2>1, <3>3, <3>5, StepKeeps DEF ControleMetier
  <2> QED BY <2>2, <2>3
<1>7. CASE ControleVerdict(j)
  <2>1. Frame
    BY <1>4, <1>7 DEF ControleVerdict
  <2>2. Route([j EXCEPT !.pc = "follow"], dossier', recorded', masa')
    <3>1. Route(j, dossier', recorded', masa') /\ At(j, "controle_metier", "verdict")
      BY <1>7, <2>1, FrameFacts DEF ControleVerdict
    <3> DEFINE k == [j EXCEPT !.pc = "follow"]
    <3>2. k.queue = "controle_metier"
      BY <1>3, <3>1 DEF Job, At
    <3>3. dossier'.droits = "accorde" /\ dossier'.controles # "erreur"
          /\ recorded'.controles > 0
      BY <3>1 DEF Route, At
    <3> HIDE DEF k
    <3> QED BY <3>2, <3>3 DEF Route, k
  <2>3. JobsOK'
    BY <1>7, <2>1, <2>2, GotoKeeps DEF ControleVerdict, Pcs
  <2>4. Undecided
    <3>1. CASE depot' = [depot EXCEPT !.controleStatus = "SUCCESS",
                                      !.step = "CONTROLE_COMPLETED",
                                      !.etapeMetier = "CONTROLE_METIER"]
      BY <1>2, <3>1 DEF Depot, Undecided
    <3>2. CASE depot' = [depot EXCEPT !.status = "REJETE",
                                      !.controleStatus = "FAILED",
                                      !.step = "CONTROLE_FAILED",
                                      !.etapeMetier = "CONTROLE_REFERENTIEL"]
      BY <1>2, <3>2 DEF Depot, Undecided
    <3> QED BY <1>7, <3>1, <3>2 DEF ControleVerdict
  <2> QED BY <1>1, <2>1, <2>3, <2>4, StepKeeps DEF ControleMetier
<1>8. CASE FollowControle(j)
  <2>1. Frame /\ Undecided
    BY <1>4, <1>8, UndecidedUnchanged DEF FollowControle
  <2> DEFINE new == IF dossier.controles = "valide"
                    THEN NewJob("controle_sandre_upload")
                    ELSE NewJob("diffusion_rapport")
  <2>2. new \in Job
    BY NewJobType DEF Queues
  <2>3. Route(new, dossier', recorded', masa')
    <3>1. Route(j, dossier', recorded', masa') /\ At(j, "controle_metier", "follow")
      BY <1>8, <2>1, FrameFacts DEF FollowControle
    <3>2. dossier'.droits = "accorde" /\ dossier'.controles # "erreur"
          /\ recorded'.controles > 0
      BY <3>1 DEF Route, At
    <3>3. dossier' = dossier /\ dossier \in Answers
      BY <2>1 DEF Frame, IInv, TypeOK
    <3>4. CASE dossier.controles = "valide"
      BY <3>2, <3>3, <3>4 DEF Route, NewJob
    <3>5. CASE dossier.controles # "valide"
      <4>1. dossier'.controles = "invalide"
        BY <3>2, <3>3, <3>5 DEF Answers
      <4> QED BY <3>2, <3>5, <4>1 DEF Route, NewJob, Reason
    <3> QED BY <3>4, <3>5
  <2>4. DoneSending(j, new)
    BY <1>8 DEF FollowControle
  <2> HIDE DEF new
  <2>5. JobsOK'
    BY <2>1, <2>2, <2>3, <2>4, DoneSendingKeeps
  <2> QED BY <1>1, <2>1, <2>5, StepKeeps DEF ControleMetier
<1>9. CASE RecordTechnicalError(j)
  <2>1. recorded' \in Recorded /\ recorded'.controles = recorded.controles
        /\ recorded'.reponse = recorded.reponse
    BY <1>2, <1>9 DEF RecordTechnicalError, Recorded
  <2>2. Frame
    BY <1>2, <2>1 DEF Frame, ControleMetier, Recorded
  <2>3. Undecided
    BY <1>9, UndecidedUnchanged DEF RecordTechnicalError
  <2>4. JobsOK'
    BY <1>9, <2>2, GotoPlainKeeps DEF RecordTechnicalError, Pcs
  <2> QED BY <1>1, <2>2, <2>3, <2>4, StepKeeps DEF ControleMetier
<1>10. CASE RejectTechnically(j)
  <2>1. Frame
    BY <1>4, <1>10 DEF RejectTechnically
  <2>2. JobsOK'
    BY <1>10, <2>1, DoneKeeps DEF RejectTechnically
  <2>3. Undecided
    BY <1>2, <1>10 DEF RejectTechnically, Depot, Undecided
  <2> QED BY <1>1, <2>1, <2>2, <2>3, StepKeeps DEF ControleMetier
<1> QED BY <1>5, <1>6, <1>7, <1>8, <1>9, <1>10 DEF ControleMetier

LEMMA SandreUploadKeeps ==
    ASSUME IInv, NEW j \in DOMAIN jobs, SandreUpload(j)
    PROVE  IInv'
<1>1. Frame /\ Delivery
  BY FrameUnchanged, DeliveryUnchanged DEF SandreUpload
<1>2. depot \in Depot
  BY DEF IInv, TypeOK
<1>3. CASE StartUpload(j)
  <2>1. JobsOK'
    BY <1>1, <1>3, GotoPlainKeeps DEF StartUpload, Pcs
  <2>2. Undecided
    BY <1>2, <1>3 DEF StartUpload, Depot, Undecided
  <2> QED BY <1>1, <2>1, <2>2, StepKeeps DEF SandreUpload
<1>4. CASE ValidateFile(j)
  <2>1. JobsOK'
    BY <1>1, <1>4, GotoPlainKeeps DEF ValidateFile, Pcs
  <2>2. Undecided
    BY <1>4, UndecidedUnchanged DEF ValidateFile
  <2> QED BY <1>1, <2>1, <2>2, StepKeeps DEF SandreUpload
<1>5. CASE EnqueuePoll(j)
  <2> DEFINE new == NewJob("controle_sandre_poll")
  <2>1. new \in Job
    BY NewJobType DEF Queues
  <2>2. Route(j, dossier', recorded', masa') /\ At(j, "controle_sandre_upload", "enqueue")
    BY <1>1, <1>5, FrameFacts DEF EnqueuePoll
  <2>3. Route(new, dossier', recorded', masa')
    BY <2>2 DEF Route, NewJob, At
  <2>4. DoneSending(j, new)
    BY <1>5 DEF EnqueuePoll
  <2> HIDE DEF new
  <2>5. JobsOK'
    BY <1>1, <2>1, <2>3, <2>4, DoneSendingKeeps
  <2>6. Undecided
    BY <1>5, UndecidedUnchanged DEF EnqueuePoll
  <2> QED BY <1>1, <2>5, <2>6, StepKeeps DEF SandreUpload
<1>6. CASE CatchUpload(j)
  <2>1. faults' \in 0..MaxFaults
    BY <1>6 DEF CatchUpload, IInv, TypeOK
  <2>2. JobsOK'
    BY <1>1, <1>6, <2>1, FailAttemptKeeps DEF CatchUpload
  <2>3. Undecided
    <3>1. CASE UNCHANGED depot
      BY <3>1, UndecidedUnchanged
    <3>2. CASE depot' = [depot EXCEPT !.status = "REJETE",
                                      !.step = "CONTROLE_SANDRE_FAILED",
                                      !.controleSandreStatus = "FAILED",
                                      !.error = "SANDRE_UPLOAD_FAILED"]
      BY <1>2, <3>2 DEF Depot, Undecided
    <3> QED BY <1>6, <3>1, <3>2 DEF CatchUpload
  <2> QED BY <1>1, <2>2, <2>3, StepKeeps DEF SandreUpload
<1> QED BY <1>3, <1>4, <1>5, <1>6 DEF SandreUpload

LEMMA NextPollFits ==
    ASSUME IInv, Frame, NEW j \in DOMAIN jobs, j.queue = "controle_sandre_poll"
    PROVE  NextPoll(j) \in Job /\ Route(NextPoll(j), dossier', recorded', masa')
<1>1. j \in Job /\ Route(j, dossier', recorded', masa')
  BY JobFacts, FrameFacts
<1>2. j.attempt + 1 \in Nat
  BY <1>1 DEF Job
<1> DEFINE new == NewJob("controle_sandre_poll")
<1>3. new \in Job /\ new.queue = "controle_sandre_poll" /\ new.pc = "none"
  BY NewJobType DEF Queues, NewJob
<1> HIDE DEF new
<1>4. \A n \in Nat : /\ [new EXCEPT !.attempt = n] \in Job
                     /\ [new EXCEPT !.attempt = n].queue = new.queue
                     /\ [new EXCEPT !.attempt = n].pc = new.pc
  BY <1>3 DEF Job
<1>5. /\ NextPoll(j) \in Job
      /\ NextPoll(j).queue = "controle_sandre_poll"
      /\ NextPoll(j).pc = "none"
  BY <1>2, <1>3, <1>4 DEF NextPoll, new
<1>6. Route(NextPoll(j), dossier', recorded', masa')
  BY <1>1, <1>5 DEF Route
<1> QED BY <1>5, <1>6

LEMMA SandrePollKeeps ==
    ASSUME IInv, NEW j \in DOMAIN jobs, SandrePoll(j)
    PROVE  IInv'
<1>1. Delivery
  BY DeliveryUnchanged DEF SandrePoll
<1>2. depot \in Depot /\ recorded \in Recorded
  BY DEF IInv, TypeOK
<1>3. j \in Job /\ Route(j, dossier, recorded, masa)
  BY JobFacts
<1>4. UNCHANGED recorded => Frame
  BY FrameUnchanged DEF SandrePoll
<1>5. \A error \in {"SANDRE_POLL_TIMEOUT", "SANDRE_POLL_FAILED"} :
          SandreFailed(error) \in Depot /\ SandreFailed(error).status = "REJETE"
  BY <1>2 DEF SandreFailed, Depot
<1>6. CASE PollPending(j)
  <2>1. Frame
    BY <1>4, <1>6 DEF PollPending
  <2>2. NextPoll(j) \in Job /\ Route(NextPoll(j), dossier', recorded', masa')
    BY <1>6, <2>1, NextPollFits DEF PollPending, At
  <2>3. JobsOK'
    BY <1>6, <2>1, <2>2, DoneKeeps, DoneSendingKeeps DEF PollPending
  <2>4. Undecided
    BY <1>2, <1>5, <1>6 DEF PollPending, Undecided
  <2> QED BY <1>1, <2>1, <2>3, <2>4, StepKeeps DEF SandrePoll
<1>7. CASE PollAnswered(j)
  <2>1. Undecided
    BY <1>7, UndecidedUnchanged DEF PollAnswered
  <2>2. CASE dossier.sandre = "FAILED"
    <3>1. Frame
      BY <1>4, <1>7, <2>2 DEF PollAnswered
    <3>2. JobsOK'
      BY <1>7, <2>2, <3>1, GotoPlainKeeps DEF PollAnswered, Pcs
    <3> QED BY <1>1, <2>1, <3>1, <3>2, StepKeeps DEF SandrePoll
  <2>3. CASE dossier.sandre # "FAILED"
    <3>1. recorded' = [recorded EXCEPT !.reponse = TRUE]
      BY <1>7, <2>3 DEF PollAnswered
    <3>2. recorded' \in Recorded /\ recorded'.controles = recorded.controles
          /\ recorded'.reponse
      BY <1>2, <3>1 DEF Recorded
    <3>3. Frame
      BY <1>2, <3>2 DEF Frame, SandrePoll, Recorded
    <3>4. Route([j EXCEPT !.pc = "verdict"], dossier', recorded', masa')
      <4>1. Route(j, dossier', recorded', masa') /\ j.queue = "controle_sandre_poll"
        BY <1>7, <3>3, FrameFacts DEF PollAnswered, At
      <4> DEFINE k == [j EXCEPT !.pc = "verdict"]
      <4>2. k.queue = "controle_sandre_poll"
        BY <1>3, <4>1 DEF Job
      <4>3. dossier'.droits = "accorde" /\ dossier'.controles = "valide"
        BY <4>1 DEF Route
      <4>4. dossier'.sandre # "FAILED"
        BY <2>3 DEF SandrePoll
      <4> HIDE DEF k
      <4> QED BY <3>2, <4>2, <4>3, <4>4 DEF Route, k
    <3>5. JobsOK'
      BY <1>7, <2>3, <3>3, <3>4, GotoKeeps DEF PollAnswered, Pcs
    <3> QED BY <1>1, <2>1, <3>3, <3>5, StepKeeps DEF SandrePoll
  <2> QED BY <2>2, <2>3
<1>8. ASSUME NEW pc \in {"verdict", "ready", "follow"}, UNCHANGED recorded,
             j.queue = "controle_sandre_poll", j.pc \in {"verdict", "ready"},
             pc = "ready" => dossier.sandre = "conforme"
      PROVE  Route([j EXCEPT !.pc = pc], dossier', recorded', masa')
  <2>1. Route(j, dossier', recorded', masa')
    BY <1>4, <1>8, FrameFacts
  <2> DEFINE k == [j EXCEPT !.pc = pc]
  <2>2. k.queue = "controle_sandre_poll"
    BY <1>3, <1>8 DEF Job
  <2>3. dossier'.droits = "accorde" /\ dossier'.controles = "valide"
        /\ dossier'.sandre # "FAILED" /\ recorded'.reponse
    BY <1>8, <2>1 DEF Route
  <2>4. k.pc = pc /\ (pc = "ready" => dossier'.sandre = "conforme")
    BY <1>3, <1>8 DEF Job, SandrePoll
  <2> HIDE DEF k
  <2> QED BY <2>2, <2>3, <2>4 DEF Route, k
<1>9. CASE SandreVerdict(j)
  <2>1. Frame
    BY <1>4, <1>9 DEF SandreVerdict
  <2>2. UNCHANGED recorded /\ At(j, "controle_sandre_poll", "verdict")
        /\ \/ Goto(j, "ready") /\ dossier.sandre = "conforme"
           \/ Goto(j, "follow")
    BY <1>9 DEF SandreVerdict
  <2>3. ASSUME NEW pc \in {"ready", "follow"}, pc = "ready" => dossier.sandre = "conforme"
        PROVE  Route([j EXCEPT !.pc = pc], dossier', recorded', masa')
    BY <1>8, <2>2, <2>3 DEF At
  <2>4. JobsOK'
    <3>1. CASE Goto(j, "ready") /\ dossier.sandre = "conforme"
      BY <2>1, <2>3, <3>1, GotoKeeps DEF Pcs
    <3>2. CASE Goto(j, "follow")
      BY <2>1, <2>3, <3>2, GotoKeeps DEF Pcs
    <3> QED BY <2>2, <3>1, <3>2
  <2>5. Undecided
    <3>1. CASE depot' = [depot EXCEPT !.controleSandreStatus = "SUCCESS",
                                      !.step = "CONTROLE_SANDRE_COMPLETED",
                                      !.etapeMetier = "SCENARIO_SANDRE"]
      BY <1>2, <3>1 DEF Depot, Undecided
    <3>2. CASE depot' = [depot EXCEPT !.status = "REJETE",
                                      !.controleSandreStatus = "FAILED",
                                      !.step = "CONTROLE_SANDRE_FAILED",
                                      !.etapeMetier = "CONTROLE_METIER"]
      BY <1>2, <3>2 DEF Depot, Undecided
    <3> QED BY <1>9, <3>1, <3>2 DEF SandreVerdict
  <2> QED BY <1>1, <2>1, <2>4, <2>5, StepKeeps DEF SandrePoll
<1>10. CASE ReadyForSftp(j)
  <2>1. Frame
    BY <1>4, <1>10 DEF ReadyForSftp
  <2>2. JobsOK'
    BY <1>8, <1>10, <2>1, GotoKeeps DEF ReadyForSftp, At, Pcs
  <2>3. Undecided
    BY <1>2, <1>10 DEF ReadyForSftp, Depot, Undecided
  <2> QED BY <1>1, <2>1, <2>2, <2>3, StepKeeps DEF SandrePoll
<1>11. CASE FollowPoll(j)
  <2>1. Frame /\ Undecided
    BY <1>4, <1>11, UndecidedUnchanged DEF FollowPoll
  <2> DEFINE new == IF dossier.sandre = "conforme"
                    THEN NewJob("send_to_sftp")
                    ELSE NewJob("diffusion_rapport")
  <2>2. new \in Job
    BY NewJobType DEF Queues
  <2>3. Route(new, dossier', recorded', masa')
    <3>1. Route(j, dossier', recorded', masa') /\ At(j, "controle_sandre_poll", "follow")
      BY <1>11, <2>1, FrameFacts DEF FollowPoll
    <3>2. dossier'.droits = "accorde" /\ dossier'.controles = "valide"
          /\ dossier'.sandre # "FAILED" /\ recorded'.reponse
      BY <3>1 DEF Route, At
    <3>3. dossier' = dossier /\ dossier \in Answers
      BY <2>1 DEF Frame, IInv, TypeOK
    <3>4. CASE dossier.sandre = "conforme"
      BY <3>2, <3>3, <3>4 DEF Route, NewJob
    <3>5. CASE dossier.sandre # "conforme"
      <4>1. dossier'.sandre = "nonConforme"
        BY <3>2, <3>3, <3>5 DEF Answers
      <4> QED BY <3>2, <3>5, <4>1 DEF Route, NewJob, Reason
    <3> QED BY <3>4, <3>5
  <2>4. DoneSending(j, new)
    BY <1>11 DEF FollowPoll
  <2> HIDE DEF new
  <2>5. JobsOK'
    BY <2>1, <2>2, <2>3, <2>4, DoneSendingKeeps
  <2> QED BY <1>1, <2>1, <2>5, StepKeeps DEF SandrePoll
<1>12. CASE CatchPoll(j)
  <2>1. Frame
    BY <1>4, <1>12 DEF CatchPoll
  <2>2. NextPoll(j) \in Job /\ Route(NextPoll(j), dossier', recorded', masa')
    BY <1>12, <2>1, NextPollFits DEF CatchPoll, At
  <2>3. JobsOK'
    BY <1>12, <2>1, <2>2, DoneKeeps, DoneSendingKeeps DEF CatchPoll
  <2>4. Undecided
    BY <1>2, <1>5, <1>12 DEF CatchPoll, Undecided
  <2> QED BY <1>1, <2>1, <2>3, <2>4, StepKeeps DEF SandrePoll
<1> QED BY <1>6, <1>7, <1>9, <1>10, <1>11, <1>12 DEF SandrePoll

LEMMA SendToSftpKeeps ==
    ASSUME IInv, NEW j \in DOMAIN jobs, SendToSftp(j)
    PROVE  IInv'
<1>1. Frame
  BY FrameUnchanged DEF SendToSftp
<1>2. depot \in Depot /\ remote \in {"none", "file", "ack"}
  BY DEF IInv, TypeOK
<1>3. Valid
  <2>1. Route(j, dossier, recorded, masa) /\ j.queue = "send_to_sftp"
    BY JobFacts DEF SendToSftp, StartSftp, SendFile, SendAck, CompleteSftp,
                    CatchSftp, At
  <2> QED BY <2>1 DEF Route, Valid
<1>4. CASE StartSftp(j)
  <2>1. JobsOK'
    BY <1>1, <1>4, GotoPlainKeeps DEF StartSftp, Pcs
  <2>2. Undecided /\ Delivery
    BY <1>2, <1>3, <1>4 DEF StartSftp, Depot, Undecided, Delivery
  <2> QED BY <1>1, <2>1, <2>2, StepKeeps DEF SendToSftp
<1>5. CASE SendFile(j)
  <2>1. JobsOK'
    BY <1>1, <1>5, GotoPlainKeeps DEF SendFile, Pcs
  <2>2. Undecided /\ Delivery
    BY <1>2, <1>3, <1>5 DEF SendFile, Undecided, Delivery
  <2> QED BY <1>1, <2>1, <2>2, StepKeeps DEF SendToSftp
<1>6. CASE SendAck(j)
  <2>1. JobsOK'
    BY <1>1, <1>6, GotoPlainKeeps DEF SendAck, Pcs
  <2>2. Undecided /\ Delivery
    BY <1>2, <1>3, <1>6 DEF SendAck, Undecided, Delivery
  <2> QED BY <1>1, <2>1, <2>2, StepKeeps DEF SendToSftp
<1>7. CASE CompleteSftp(j)
  <2>1. JobsOK'
    BY <1>1, <1>7, DoneKeeps DEF CompleteSftp
  <2>2. Undecided /\ Delivery
    BY <1>2, <1>3, <1>7 DEF CompleteSftp, Depot, Undecided, Delivery
  <2> QED BY <1>1, <2>1, <2>2, StepKeeps DEF SendToSftp
<1>8. CASE CatchSftp(j)
  <2>1. faults' \in 0..MaxFaults
    BY <1>8 DEF CatchSftp, IInv, TypeOK
  <2>2. JobsOK'
    BY <1>1, <1>8, <2>1, FailAttemptKeeps DEF CatchSftp
  <2>3. Undecided /\ Delivery
    BY <1>2, <1>3, <1>8 DEF CatchSftp, Depot, Undecided, Delivery
  <2> QED BY <1>1, <2>2, <2>3, StepKeeps DEF SendToSftp
<1> QED BY <1>4, <1>5, <1>6, <1>7, <1>8 DEF SendToSftp

LEMMA StatusOfType ==
    ASSUME NEW m \in MasaStatuses
    PROVE  StatusOf(m) \in {"INTEGRE", "INTEGRE_PARTIELLEMENT", "REJETE"}
BY DEF StatusOf, MasaStatuses

LEMMA ProcessMasaKeeps ==
    ASSUME IInv, NEW j \in DOMAIN jobs, ProcessMasa(j)
    PROVE  IInv'
<1>1. Frame /\ Delivery
  BY FrameUnchanged, DeliveryUnchanged DEF ProcessMasa
<1>2. j.queue = "process_after_masa_webhook"
  BY DEF ProcessMasa, StartMasa, FollowMasa, At
<1>3. masa \in MasaStatuses
  BY <1>2, JobFacts DEF Route, IInv, TypeOK
<1>4. CASE StartMasa(j)
  <2>1. Route([j EXCEPT !.pc = "follow"], dossier', recorded', masa')
    <3> DEFINE k == [j EXCEPT !.pc = "follow"]
    <3>1. k.queue = "process_after_masa_webhook"
      BY <1>2, JobFacts DEF Job
    <3>2. masa' # "none"
      BY <1>3 DEF ProcessMasa, MasaStatuses
    <3> HIDE DEF k
    <3> QED BY <3>1, <3>2 DEF Route, k
  <2>2. JobsOK'
    BY <1>1, <1>4, <2>1, GotoKeeps DEF StartMasa, Pcs
  <2>3. depot' \in Depot /\ depot'.status = StatusOf(masa)
    <3>1. depot \in Depot /\ StatusOf(masa) \in {"INTEGRE", "INTEGRE_PARTIELLEMENT", "REJETE"}
      BY <1>3, StatusOfType DEF IInv, TypeOK
    <3> HIDE DEF StatusOf
    <3> QED BY <1>4, <3>1 DEF StartMasa, Depot
  <2>4. TypeOK'
    BY <1>1, <2>2, <2>3 DEF IInv, TypeOK, JobsOK, Frame, Delivery, ProcessMasa, BagToSet
  <2>5. Integrated'
    BY <1>3, <2>3 DEF Integrated, ProcessMasa, MasaStatuses
  <2>6. Answered' /\ DeliveredOnlyValid' /\ ReportJustified'
    BY DEF IInv, PInv, Answered, DeliveredOnlyValid, Valid, ReportJustified, ProcessMasa
  <2> QED BY <2>2, <2>4, <2>5, <2>6 DEF IInv, PInv, JobsOK
<1>5. CASE FollowMasa(j)
  <2> DEFINE base == NewJob("diffusion_rapport")
             new == [base EXCEPT !.masa = TRUE, !.agence = masa # "REFUSE"]
  <2>1. base \in Job /\ base.queue = "diffusion_rapport" /\ base.pc = "none"
    BY NewJobType DEF Queues, NewJob
  <2> HIDE DEF base
  <2>2. new \in Job /\ new.queue = "diffusion_rapport" /\ new.masa
        /\ (new.agence <=> masa # "REFUSE") /\ new.pc = "none"
    BY <2>1 DEF Job
  <2>3. DoneSending(j, new)
    BY <1>5 DEF FollowMasa, base
  <2> HIDE DEF new
  <2>4. masa' # "none" /\ (masa # "REFUSE" => masa' \in Accepting)
    BY <1>3 DEF ProcessMasa, MasaStatuses, Accepting
  <2>5. Route(new, dossier', recorded', masa')
    BY <2>2, <2>4 DEF Route
  <2>6. JobsOK'
    BY <1>1, <2>2, <2>3, <2>5, DoneSendingKeeps
  <2>7. Undecided
    BY <1>5, UndecidedUnchanged DEF FollowMasa
  <2> QED BY <1>1, <2>6, <2>7, StepKeeps DEF ProcessMasa
<1> QED BY <1>4, <1>5 DEF ProcessMasa

LEMMA DiffuseRapportKeeps ==
    ASSUME IInv, NEW j \in DOMAIN jobs, DiffuseRapport(j)
    PROVE  IInv'
<1>1. Frame /\ Delivery
  BY FrameUnchanged, DeliveryUnchanged DEF DiffuseRapport
<1>2. depot \in Depot
  BY DEF IInv, TypeOK
<1>3. j \in Job /\ j.queue = "diffusion_rapport" /\ Route(j, dossier, recorded, masa)
  BY JobFacts DEF DiffuseRapport, GenerateReport, SaveRapportPath, SendToAgence,
                  EnqueueMail, MarkMail, At
<1>4. /\ j.masa \in BOOLEAN
      /\ j.masa => masa # "none"
      /\ ~j.masa => Reason(dossier, recorded)
      /\ j.agence \/ j.pc = "agence" => masa \in Accepting
  BY <1>3 DEF Route, Job
<1>5. JobsOK'
  <2>1. CASE GenerateReport(j)
    BY <1>1, <2>1, GotoPlainKeeps DEF GenerateReport, Pcs
  <2>2. CASE SaveRapportPath(j)
    <3>1. CASE j.agence
      <4>1. Route([j EXCEPT !.pc = "agence"], dossier', recorded', masa')
        <5> DEFINE k == [j EXCEPT !.pc = "agence"]
        <5>1. k.queue = "diffusion_rapport" /\ k.masa = j.masa
          BY <1>3 DEF Job
        <5> HIDE DEF k
        <5> QED BY <1>4, <3>1, <5>1 DEF Route, DiffuseRapport, k
      <4> QED BY <1>1, <2>2, <3>1, <4>1, GotoKeeps DEF SaveRapportPath, Pcs
    <3>2. CASE ~j.agence
      BY <1>1, <2>2, <3>2, GotoPlainKeeps DEF SaveRapportPath, Pcs
    <3> QED BY <3>1, <3>2
  <2>3. CASE SendToAgence(j)
    BY <1>1, <2>3, GotoPlainKeeps DEF SendToAgence, Pcs
  <2>4. CASE EnqueueMail(j)
    <3> DEFINE base == NewJob("email")
               new == [base EXCEPT !.masa = j.masa]
    <3>1. base \in Job /\ base.queue = "email" /\ base.agence = FALSE
          /\ base.pc = "none"
      BY NewJobType DEF Queues, NewJob
    <3> HIDE DEF base
    <3>2. new \in Job /\ new.queue = "email" /\ new.masa = j.masa
          /\ new.agence = FALSE /\ new.pc = "none"
      BY <1>4, <3>1 DEF Job
    <3>3. Done(j) \/ GotoSending(j, "mark", new)
      BY <2>4 DEF EnqueueMail, base
    <3> HIDE DEF new
    <3>4. Route(new, dossier', recorded', masa')
      BY <1>4, <3>2 DEF Route, DiffuseRapport
    <3> QED BY <1>1, <3>2, <3>3, <3>4, DoneKeeps, GotoSendingKeeps DEF Pcs
  <2>5. CASE MarkMail(j)
    BY <1>1, <2>5, DoneKeeps DEF MarkMail
  <2> QED BY <2>1, <2>2, <2>3, <2>4, <2>5 DEF DiffuseRapport
<1>6. depot' \in Depot /\ depot'.status = depot.status
  <2>1. [depot EXCEPT !.rapportPath = TRUE] \in Depot
        /\ [depot EXCEPT !.rapportPath = TRUE].status = depot.status
    BY <1>2 DEF Depot
  <2>2. [depot EXCEPT !.step = "SEND_EMAIL_TO_DEPOSANT"] \in Depot
        /\ [depot EXCEPT !.step = "SEND_EMAIL_TO_DEPOSANT"].status = depot.status
    BY <1>2 DEF Depot
  <2> QED BY <1>2, <2>1, <2>2 DEF DiffuseRapport, GenerateReport, SaveRapportPath,
                           SendToAgence, EnqueueMail, MarkMail
<1>7. /\ pdf' = pdf \/ pdf' = KindOf(j)
      /\ agence' = agence \/ (agence' = TRUE /\ masa \in Accepting)
  BY <1>4 DEF DiffuseRapport, GenerateReport, SaveRapportPath, SendToAgence,
              EnqueueMail, MarkMail, At
<1>8. TypeOK'
  <2>1. KindOf(j) \in Kinds
    BY DEF KindOf, Kinds
  <2>2. pdf' \in Kinds \cup {"none"} /\ agence' \in BOOLEAN
    BY <1>7, <2>1 DEF IInv, TypeOK
  <2> QED BY <1>1, <1>5, <1>6, <2>2
          DEF IInv, TypeOK, JobsOK, Frame, Delivery, DiffuseRapport, BagToSet
<1>9. Answered' /\ Integrated' /\ DeliveredOnlyValid'
  BY <1>6 DEF IInv, PInv, Answered, Integrated, DeliveredOnlyValid, Valid, DiffuseRapport
<1>10. ReportJustified'
  <2>1. UNCHANGED <<dossier, recorded, masa, mails>>
    BY DEF DiffuseRapport
  <2>2. agence' => masa' \in {"INTEGRE", "INTEGRATION_PARTIELLE"}
    BY <1>7, <2>1 DEF IInv, PInv, ReportJustified, Accepting
  <2>3. pdf' = "masa" => masa' # "none"
    BY <1>4, <1>7, <2>1 DEF IInv, PInv, ReportJustified, KindOf
  <2>4. pdf' = "rejet" => Reason(dossier', recorded')
    BY <1>4, <1>7, <2>1 DEF IInv, PInv, ReportJustified, KindOf, Reason
  <2> QED BY <2>1, <2>2, <2>3, <2>4 DEF IInv, PInv, ReportJustified, Reason
<1> QED BY <1>5, <1>8, <1>9, <1>10 DEF IInv, PInv, JobsOK

LEMMA SendMailKeeps ==
    ASSUME IInv, NEW j \in DOMAIN jobs, SendMail(j)
    PROVE  IInv'
<1>1. Frame /\ Delivery
  BY FrameUnchanged, DeliveryUnchanged DEF SendMail
<1>2. JobsOK'
  BY <1>1, DoneKeeps DEF SendMail
<1>3. /\ j.masa \in BOOLEAN
      /\ j.masa => masa # "none"
      /\ ~j.masa => Reason(dossier, recorded)
  BY JobFacts DEF SendMail, At, Route, Job
<1>4. mails \in [Kinds -> Nat] /\ KindOf(j) \in Kinds
  BY DEF IInv, TypeOK, KindOf, Kinds
<1>5. mails' = [mails EXCEPT ![KindOf(j)] = @ + 1]
  BY DEF SendMail
<1>6. mails' \in [Kinds -> Nat]
      /\ \A k \in Kinds : mails'[k] > 0 => mails[k] > 0 \/ k = KindOf(j)
  BY <1>4, <1>5
<1>7. TypeOK'
  BY <1>1, <1>2, <1>6 DEF IInv, TypeOK, JobsOK, Frame, Delivery, SendMail, BagToSet
<1>8. Answered' /\ Integrated' /\ DeliveredOnlyValid'
  BY DEF IInv, PInv, Answered, Integrated, DeliveredOnlyValid, Valid, SendMail
<1>9. ReportJustified'
  <2>1. UNCHANGED <<dossier, recorded, masa, pdf, agence>>
    BY DEF SendMail
  <2>2. mails'["masa"] > 0 => masa # "none"
    BY <1>3, <1>6 DEF IInv, PInv, ReportJustified, KindOf, Kinds
  <2>3. mails'["rejet"] > 0 => Reason(dossier, recorded)
    BY <1>3, <1>6 DEF IInv, PInv, ReportJustified, KindOf, Kinds, Reason
  <2> QED BY <2>1, <2>2, <2>3 DEF IInv, PInv, ReportJustified, Reason
<1> QED BY <1>2, <1>7, <1>8, <1>9 DEF IInv, PInv, JobsOK

----------------------------------------------------------------------------
(* pg-boss, failures, the webhook.                                         *)

LEMMA ScheduleKeeps ==
    ASSUME IInv, NEW j \in DOMAIN jobs, Schedule(j)
    PROVE  IInv'
<1>1. Frame /\ Delivery /\ Undecided
  BY FrameUnchanged, DeliveryUnchanged, UndecidedUnchanged DEF Schedule
<1>2. CASE Fetch(j)
  <2> DEFINE a == [j EXCEPT !.state = "active"]
             k == [j EXCEPT !.state = "active", !.pc = "start"]
  <2>1. j \in Job /\ Route(j, dossier', recorded', masa')
    BY <1>1, JobFacts, FrameFacts
  <2>2. a \in Job
    BY <2>1, StateType
  <2>3. k = [a EXCEPT !.pc = "start"]
    BY <2>1 DEF Job
  <2>4. k \in Job
    BY <2>2, <2>3, PcType DEF Pcs
  <2>5. k.queue = j.queue /\ k.masa = j.masa /\ k.agence = j.agence /\ k.pc = "start"
    BY <2>1 DEF Job
  <2>6. DOMAIN jobs' \subseteq DOMAIN jobs \cup {k}
    BY <1>2, BecomeAdds DEF Fetch
  <2> HIDE DEF k
  <2>7. Route(k, dossier', recorded', masa')
    BY <2>1, <2>5 DEF Route
  <2>8. Routes' /\ (BagToSet(jobs) \subseteq Job)'
    BY <1>1, <2>4, <2>6, <2>7, RoutesKept DEF Frame
  <2>9. JobsOK'
    BY <1>2, <2>8 DEF Fetch, JobsOK, IInv, TypeOK
  <2> QED BY <1>1, <2>9, StepKeeps DEF Schedule
<1>3. CASE ExpireDead(j)
  <2> DEFINE New == {}
  <2>1. \A k \in New : k \in Job /\ Route(k, dossier', recorded', masa')
    OBVIOUS
  <2>2. DOMAIN BagRemove(jobs, j) \subseteq DOMAIN jobs \cup New
    BY BagDomains
  <2> HIDE DEF New
  <2>3. Requeue(j, BagRemove(jobs, j)) /\ faults' \in 0..MaxFaults
    BY <1>3 DEF ExpireDead, IInv, TypeOK
  <2>4. JobsOK'
    BY <1>1, <2>1, <2>2, <2>3, RequeueKeeps
  <2> QED BY <1>1, <2>4, StepKeeps DEF Schedule
<1> QED BY <1>2, <1>3 DEF Schedule

LEMMA FailKeeps ==
    ASSUME IInv, Fail
    PROVE  IInv'
<1>1. Frame /\ Delivery /\ Undecided
  BY FrameUnchanged, DeliveryUnchanged, UndecidedUnchanged DEF Fail
<1>2. ASSUME JobsOK' PROVE IInv'
  BY <1>1, <1>2, StepKeeps DEF Fail
<1>3. ASSUME NEW j \in DOMAIN jobs, Outlive(j) PROVE JobsOK'
  <2> DEFINE k == [j EXCEPT !.state = "expired"]
             New == {k}
  <2>1. k \in Job /\ Route(k, dossier', recorded', masa')
    BY <1>1, JobFacts, FrameFacts, RouteRests, StateType
  <2>2. DOMAIN Become(j, k) \subseteq DOMAIN jobs \cup New
    BY BecomeAdds
  <2>3. \A i \in New : i \in Job /\ Route(i, dossier', recorded', masa')
    BY <2>1
  <2>4. Requeue(j, Become(j, k)) /\ faults' \in 0..MaxFaults
    BY <1>3, FaultCounts DEF Outlive
  <2> HIDE DEF New, k
  <2> QED BY <1>1, <2>2, <2>3, <2>4, RequeueKeeps
<1>4. ASSUME NEW j \in DOMAIN jobs, Throw(j) PROVE JobsOK'
  <2>1. faults' \in 0..MaxFaults
    BY <1>4, FaultCounts DEF Throw
  <2>2. CASE Resume(j) # "out"
    <3> DEFINE k == [j EXCEPT !.pc = Resume(j)]
    <3>1. Resume(j) \in {"catch", "reject", "email"}
      BY <2>2 DEF Resume
    <3>2. k \in Job /\ Route(k, dossier', recorded', masa')
      <4>1. Resume(j) \in Pcs \ {"verdict", "ready", "follow", "agence"}
        BY <3>1 DEF Pcs
      <4> QED BY <1>1, <4>1, JobFacts, FrameFacts, RouteRests, PcType
    <3>3. DOMAIN jobs' \subseteq DOMAIN jobs \cup {k}
      BY <1>4, <2>2, BecomeAdds DEF Throw
    <3> HIDE DEF k
    <3>4. Routes' /\ (BagToSet(jobs) \subseteq Job)'
      BY <1>1, <3>2, <3>3, RoutesKept DEF Frame
    <3>5. failed' = failed
      BY <1>4, <2>2 DEF Throw
    <3> QED BY <2>1, <3>4, <3>5 DEF JobsOK, IInv, TypeOK
  <2>3. CASE Resume(j) = "out"
    <3>1. FailAttempt(j)
      BY <1>4, <2>3 DEF Throw
    <3> QED BY <1>1, <2>1, <3>1, FailAttemptKeeps
  <2> QED BY <2>2, <2>3
<1>5. ASSUME Crash PROVE JobsOK'
  <2> DEFINE left == {j \in DOMAIN jobs : j.state # "expired"}
             New == {Dead(j) : j \in left}
  <2>1. DOMAIN jobs' = New
    BY <1>5 DEF Crash
  <2>2. \A k \in New : k \in Job /\ Route(k, dossier', recorded', masa')
    <3>1. ASSUME NEW j \in left
          PROVE  Dead(j) \in Job /\ Route(Dead(j), dossier', recorded', masa')
      <4>1. j \in DOMAIN jobs
        OBVIOUS
      <4> QED BY <1>1, <4>1, JobFacts, FrameFacts, RouteRests, DeadType
    <3> QED BY <3>1
  <2>3. DOMAIN jobs' \subseteq DOMAIN jobs \cup New
    BY <2>1
  <2> HIDE DEF New
  <2>4. Routes' /\ (BagToSet(jobs) \subseteq Job)'
    BY <1>1, <2>2, <2>3, RoutesKept DEF Frame
  <2>5. failed' = failed /\ faults' \in 0..MaxFaults
    BY <1>5, FaultCounts DEF Crash
  <2> QED BY <2>4, <2>5 DEF JobsOK, IInv, TypeOK
<1> QED BY <1>2, <1>3, <1>4, <1>5 DEF Fail

\* A call reads that the file was delivered before it saves anything, and the
\* row it saves is never written again.
LEMMA WebhookKeeps ==
    ASSUME IInv, NEW c \in Calls, Webhook(c)
    PROVE  IInv'
<1>1. calls \in [Calls -> Call] /\ masa \in MasaStatuses \cup {"none"}
  BY DEF IInv, TypeOK
<1>2. UNCHANGED <<dossier, depot, recorded, failed, remote, pdf, agence, mails>>
  BY DEF Webhook
<1>3. faults' \in 0..MaxFaults
  BY FaultCounts DEF Webhook, WebhookCall, SaveMasaRetour, EnqueueMasa, FailCall,
                     IInv, TypeOK
<1>4. masa # "none" => masa' = masa
  BY DEF Webhook, WebhookCall, SaveMasaRetour, EnqueueMasa, FailCall
<1>5. Frame
  BY <1>2, <1>4 DEF Frame, IInv, TypeOK, Recorded
<1>6. /\ masa' \in MasaStatuses \cup {"none"}
      /\ calls' \in [Calls -> Call]
      /\ masa' # "none" => remote = "ack"
      /\ \A b \in Calls : calls'[b].pc \in {"save", "send"} => remote = "ack"
      /\ \A b \in Calls : calls'[b].pc = "send" => masa' # "none"
  <2>1. Answered
    BY DEF IInv, PInv
  <2>2. CASE WebhookCall(c)
    BY <1>1, <2>1, <2>2
       DEF WebhookCall, MapWebhookStatusToMasaStatus, Answered, Call, MasaStatuses
  <2>3. CASE SaveMasaRetour(c)
    BY <1>1, <2>1, <2>3 DEF SaveMasaRetour, Answered, Call, MasaStatuses
  <2>4. CASE EnqueueMasa(c)
    BY <1>1, <2>1, <2>4 DEF EnqueueMasa, Answered, Call
  <2>5. CASE FailCall(c)
    BY <1>1, <2>1, <2>5 DEF FailCall, Answered, Call
  <2> QED BY <2>2, <2>3, <2>4, <2>5 DEF Webhook
<1>7. Routes' /\ (BagToSet(jobs) \subseteq Job)'
  <2> DEFINE base == NewJob("process_after_masa_webhook")
             new == [base EXCEPT !.masa = TRUE]
  <2>1. base \in Job /\ base.queue = "process_after_masa_webhook"
    BY NewJobType DEF Queues, NewJob
  <2> HIDE DEF base
  <2>2. new \in Job /\ new.queue = "process_after_masa_webhook"
    BY <2>1 DEF Job
  <2>3. EnqueueMasa(c) => jobs' = BagAdd(jobs, new)
    BY DEF EnqueueMasa, base
  <2> HIDE DEF new
  <2>4. CASE EnqueueMasa(c)
    <3>1. masa' # "none"
      BY <2>4 DEF EnqueueMasa, IInv, PInv, Answered
    <3>2. DOMAIN jobs' \subseteq DOMAIN jobs \cup {new}
      BY <2>3, <2>4, BagDomains
    <3>3. Route(new, dossier', recorded', masa')
      BY <2>2, <3>1 DEF Route
    <3> QED BY <1>5, <2>2, <3>2, <3>3, RoutesKept DEF Frame
  <2>5. CASE UNCHANGED jobs
    <3> DEFINE New == {}
    <3>1. \A k \in New : k \in Job /\ Route(k, dossier', recorded', masa')
      OBVIOUS
    <3>2. DOMAIN jobs' \subseteq DOMAIN jobs \cup New
      BY <2>5
    <3> HIDE DEF New
    <3> QED BY <1>5, <3>1, <3>2, RoutesKept DEF Frame
  <2> QED BY <2>4, <2>5 DEF Webhook, WebhookCall, SaveMasaRetour, FailCall
<1>8. TypeOK'
  BY <1>2, <1>3, <1>6, <1>7 DEF IInv, TypeOK
<1>9. Answered' /\ DeliveredOnlyValid'
  BY <1>2, <1>6 DEF IInv, PInv, Answered, DeliveredOnlyValid, Valid
<1>10. Integrated' /\ ReportJustified'
  BY <1>2, <1>4 DEF IInv, PInv, Integrated, ReportJustified
<1> QED BY <1>7, <1>8, <1>9, <1>10 DEF IInv, PInv

----------------------------------------------------------------------------
(* The theorems.                                                           *)

LEMMA InitInvariant == Init => IInv
<1> SUFFICES ASSUME Init PROVE IInv
  OBVIOUS
<1> DEFINE first == NewJob("process_file")
<1>1. first \in Job /\ first.queue = "process_file"
  BY NewJobType DEF Queues, NewJob
<1>2. DOMAIN jobs = {first}
  <2>1. jobs = BagAdd(EmptyBag, first)
    BY DEF Init
  <2>2. DOMAIN BagAdd(EmptyBag, first) = DOMAIN EmptyBag \cup {first}
    BY BagDomains
  <2>3. DOMAIN EmptyBag = {}
    BY DEF EmptyBag, SetToBag
  <2> QED BY <2>1, <2>2, <2>3
<1> HIDE DEF first
<1>3. Routes /\ BagToSet(jobs) \subseteq Job
  BY <1>1, <1>2 DEF Routes, Route, BagToSet
<1>4. depot \in Depot /\ depot.status = "EN_COURS_DE_TRAITEMENT"
  BY DEF Init, Depot
<1>5. calls \in [Calls -> Call] /\ \A c \in Calls : calls[c].pc = "idle"
  BY DEF Init, Call, MasaStatuses
<1>6. TypeOK
  <2>1. dossier \in Answers /\ faults \in 0..MaxFaults
    BY BoundsAssumption DEF Init
  <2>2. recorded \in Recorded
    BY DEF Init, Recorded
  <2>3. mails \in [Kinds -> Nat]
    BY DEF Init
  <2> QED BY <1>3, <1>4, <1>5, <2>1, <2>2, <2>3 DEF Init, TypeOK
<1>7. Answered /\ Integrated /\ DeliveredOnlyValid /\ ReportJustified
  BY <1>4, <1>5 DEF Init, Answered, Integrated, DeliveredOnlyValid,
                    ReportJustified, Kinds
<1> QED BY <1>3, <1>6, <1>7 DEF IInv, PInv

LEMMA NextInvariant == IInv /\ [Next]_vars => IInv'
<1> SUFFICES ASSUME IInv, [Next]_vars PROVE IInv'
  OBVIOUS
<1>1. ASSUME NEW j \in DOMAIN jobs, Schedule(j) PROVE IInv'
  BY <1>1, ScheduleKeeps
<1>2. ASSUME NEW j \in DOMAIN jobs, Handle(j) PROVE IInv'
  BY <1>2, ProcessFileKeeps, ControleMetierKeeps, SandreUploadKeeps,
     SandrePollKeeps, SendToSftpKeeps, ProcessMasaKeeps, DiffuseRapportKeeps,
     SendMailKeeps DEF Handle
<1>3. CASE Fail
  BY <1>3, FailKeeps
<1>4. ASSUME NEW c \in Calls, Webhook(c) PROVE IInv'
  BY <1>4, WebhookKeeps
<1>5. CASE UNCHANGED vars
  <2>1. Frame /\ Delivery /\ Undecided
    BY <1>5, FrameUnchanged, DeliveryUnchanged, UndecidedUnchanged DEF vars
  <2>2. JobsOK'
    BY <1>5 DEF vars, JobsOK, IInv, PInv, TypeOK, Routes, BagToSet
  <2> QED BY <1>5, <2>1, <2>2, StepKeeps DEF vars
<1> QED BY <1>1, <1>2, <1>3, <1>4, <1>5 DEF Next

\* The inductive invariant holds of every reachable state: whatever is sent,
\* retried, run twice or lost, a job exists only where its route allows it.
THEOREM Invariant == Spec => []IInv
<1>1. Init => IInv
  BY InitInvariant
<1>2. IInv /\ [Next]_vars => IInv'
  BY NextInvariant
<1> QED BY <1>1, <1>2, PTL DEF Spec

\* Every variable keeps its type; among them the row of the depot, whose
\* columns only hold values of their enumerations.
THEOREM TypeCorrect == Spec => []TypeOK
<1>1. IInv => TypeOK
  BY DEF IInv
<1> QED BY <1>1, Invariant, PTL

\* The file reaches the SFTP directory of the Agent Verseau only after the
\* rights, the business controls and SANDRE all accepted it.
THEOREM DeliveredOnlyValidHolds == Spec => []DeliveredOnlyValid
<1>1. IInv => DeliveredOnlyValid
  BY DEF IInv, PInv
<1> QED BY <1>1, Invariant, PTL

\* An integrated status comes from the MASA row, and that row from the answer
\* to a delivered file.
THEOREM IntegratedOnlyByMasaHolds == Spec => []IntegratedOnlyByMasa
<1>1. IInv => IntegratedOnlyByMasa
  BY DEF IInv, PInv, Answered, Integrated, IntegratedOnlyByMasa
<1> QED BY <1>1, Invariant, PTL

\* Reports, mails and transfers to the agence de l'eau have their reason in
\* the rows of the database.
THEOREM ReportJustifiedHolds == Spec => []ReportJustified
<1>1. IInv => ReportJustified
  BY DEF IInv, PInv
<1> QED BY <1>1, Invariant, PTL

----------------------------------------------------------------------------
(* The baton.                                                              *)

AfterMasa == {"process_after_masa_webhook", "diffusion_rapport", "email"}

\* All that is left to these two handlers is to write where the depot is: the
\* .ack is there, and the mail is in its own job.
Carries(j) ==
    /\ ~At(j, "send_to_sftp", "complete")
    /\ ~At(j, "diffusion_rapport", "mark")

Carriers(B) == {j \in DOMAIN B : Carries(j)}

Lone(B) == \A j, k \in Carriers(B) : j = k /\ B[j] = 1

Mailed == mails["rejet"] + mails["masa"]

\* Nothing is under way that could mail, and nothing was mailed.
Unsent == Carriers(jobs) = {} /\ Mailed = 0

\* While nothing has failed, a depot is in one job, which has not mailed yet;
\* at the Agent Verseau; or in the one call of the webhook that saved the row.
Single == faults = 0 =>
    /\ Lone(jobs)
    /\ Mailed <= 1
    /\ Carriers(jobs) # {} => Mailed = 0
    /\ remote = "ack" => \A j \in Carriers(jobs) : j.queue \in AfterMasa
    /\ remote = "ack" /\ masa = "none" => Unsent
    /\ \A c \in Calls : calls[c].pc = "send" =>
           Unsent /\ \A b \in Calls : calls[b].pc = "send" => b = c

CatchesUpload(j) == At(j, "controle_sandre_upload", "catch")

\* No handler runs a job that waits.  While nothing has failed, none outlives
\* its time and the submission to SANDRE throws nothing; one failure does not
\* make its handler do both.
OrdinaryJob(j, n) ==
    /\ j.state = "created" => j.pc = "none"
    /\ n = 0 => j.state # "expired" /\ ~CatchesUpload(j)
    /\ n <= 1 => ~(CatchesUpload(j) /\ j.state = "expired")

Ordinary == \A j \in DOMAIN jobs : OrdinaryJob(j, faults)

\* The bag without a job, and with one more.
LEMMA LoneRemoved ==
    ASSUME NEW B, NEW j \in DOMAIN B, Lone(B)
    PROVE  /\ Carries(j) => Carriers(BagRemove(B, j)) = {}
           /\ ~Carries(j) => /\ Carriers(BagRemove(B, j)) = Carriers(B)
                             /\ Lone(BagRemove(B, j))
<1>1. CASE Carries(j)
  <2>1. B[j] = 1 /\ \A k \in Carriers(B) : k = j
    BY <1>1 DEF Lone, Carriers
  <2>2. DOMAIN BagRemove(B, j) = DOMAIN B \ {j}
    BY <2>1 DEF BagRemove
  <2> QED BY <1>1, <2>1, <2>2 DEF Carriers
<1>2. CASE ~Carries(j)
  <2>1. \A k \in DOMAIN B : k # j => k \in DOMAIN BagRemove(B, j) /\ BagRemove(B, j)[k] = B[k]
    BY DEF BagRemove
  <2>2. DOMAIN BagRemove(B, j) \subseteq DOMAIN B
    BY BagDomains
  <2>3. Carriers(BagRemove(B, j)) = Carriers(B)
    BY <1>2, <2>1, <2>2 DEF Carriers
  <2>4. \A k \in Carriers(B) : BagRemove(B, j)[k] = B[k]
    BY <1>2, <2>1 DEF Carriers
  <2> QED BY <1>2, <2>3, <2>4 DEF Lone
<1> QED BY <1>1, <1>2

LEMMA LoneAdded ==
    ASSUME NEW B, NEW k, Carriers(B) = {}
    PROVE  /\ Lone(BagAdd(B, k))
           /\ Carriers(BagAdd(B, k)) \subseteq {k}
           /\ ~Carries(k) => Carriers(BagAdd(B, k)) = {}
<1>1. DOMAIN BagAdd(B, k) = DOMAIN B \cup {k}
  BY BagDomains
<1>2. Carriers(BagAdd(B, k)) = IF Carries(k) THEN {k} ELSE {}
  BY <1>1 DEF Carriers
<1>3. Carries(k) => BagAdd(B, k)[k] = 1
  BY DEF Carriers, BagAdd
<1> QED BY <1>2, <1>3 DEF Lone

----------------------------------------------------------------------------
(* While nothing has failed, a handler takes the baton on, hands it over   *)
(* or lets it go.                                                          *)

\* Where the baton may be after the carrier j moved: nowhere, or in one of the jobs S.
Baton(S) == Lone(jobs') /\ Carriers(jobs') \subseteq S

LEMMA BatonReplaced ==
    ASSUME Lone(jobs), NEW j \in DOMAIN jobs, Carries(j), NEW k
    PROVE  LET B == BagAdd(BagRemove(jobs, j), k)
           IN  Lone(B) /\ Carriers(B) \subseteq {k} /\ (~Carries(k) => Carriers(B) = {})
BY LoneRemoved, LoneAdded

LEMMA BatonGone ==
    ASSUME Lone(jobs), NEW j \in DOMAIN jobs, Carries(j), jobs' = BagRemove(jobs, j)
    PROVE  Baton({})
BY LoneRemoved DEF Baton, Lone

LEMMA BatonGoto ==
    ASSUME Lone(jobs), NEW j \in DOMAIN jobs, Carries(j), NEW pc, Goto(j, pc)
    PROVE  /\ Baton({[j EXCEPT !.pc = pc]})
           /\ ~Carries([j EXCEPT !.pc = pc]) => Baton({})
BY BatonReplaced DEF Goto, Become, Baton

LEMMA BatonGotoSending ==
    ASSUME Lone(jobs), NEW j \in DOMAIN jobs, Carries(j), NEW pc, NEW new,
           GotoSending(j, pc, new), ~Carries([j EXCEPT !.pc = pc])
    PROVE  Baton({new})
<1> DEFINE B == Become(j, [j EXCEPT !.pc = pc])
<1>1. Carriers(B) = {}
  BY BatonReplaced DEF Become
<1>2. jobs' = BagAdd(B, new)
  BY DEF GotoSending
<1> QED BY <1>1, <1>2, LoneAdded DEF Baton

LEMMA FaultNotFree ==
    ASSUME IInv, NEW place, Fault(place)
    PROVE  faults' # 0 /\ faults' = faults + 1
BY DEF IInv, TypeOK, Fault

LEMMA BatonDone ==
    ASSUME IInv, Lone(jobs), NEW j \in DOMAIN jobs, Carries(j), faults' = 0, Done(j)
    PROVE  Baton({})
<1>1. jobs' = BagRemove(jobs, j)
  BY FaultNotFree DEF Done, Return
<1> QED BY <1>1, BatonGone

LEMMA BatonDoneSending ==
    ASSUME IInv, Lone(jobs), NEW j \in DOMAIN jobs, Carries(j), faults' = 0, NEW new,
           DoneSending(j, new)
    PROVE  Baton({new})
<1>1. jobs' = BagAdd(BagRemove(jobs, j), new)
  BY FaultNotFree DEF DoneSending, Return
<1> QED BY <1>1, BatonReplaced DEF Baton

LEMMA BatonRequeue ==
    ASSUME Lone(jobs), NEW j \in DOMAIN jobs, Carries(j), Requeue(j, BagRemove(jobs, j))
    PROVE  Baton({Again(j)})
<1>1. CASE jobs' = BagAdd(BagRemove(jobs, j), Again(j))
  BY <1>1, BatonReplaced DEF Baton
<1>2. CASE jobs' = BagRemove(jobs, j)
  BY <1>2, BatonGone DEF Baton
<1> QED BY <1>1, <1>2 DEF Requeue

LEMMA BatonFailAttempt ==
    ASSUME Lone(jobs), NEW j \in DOMAIN jobs, Carries(j), FailAttempt(j)
    PROVE  Baton({Again(j)})
BY BatonRequeue, BatonGone DEF FailAttempt, Baton

----------------------------------------------------------------------------
(* Every step keeps the baton single.                                      *)

\* What a handler that carries the baton owes: it hands on one at most, in its
\* part of the pipeline, and lets it go when the .ack is written.
LEMMA CarrierMoves ==
    ASSUME IInv, Single, NEW j \in Carriers(jobs), faults = 0,
           UNCHANGED <<masa, calls, mails>>,
           NEW S, Baton(S),
           j.queue \in AfterMasa => \A k \in S : k.queue \in AfterMasa,
           remote' = "ack" => remote = "ack" \/ S = {}
    PROVE  Single'
<1>1. Lone(jobs') /\ Carriers(jobs') \subseteq S
  BY DEF Baton
<1>2. Mailed = 0 /\ Mailed' = Mailed /\ ~(remote = "ack" /\ masa = "none")
      /\ \A c \in Calls : calls[c].pc # "send"
  BY DEF Single, Unsent, Mailed
<1>3. remote' = "ack" => \A k \in Carriers(jobs') : k.queue \in AfterMasa
  BY <1>1 DEF Single
<1>4. remote' = "ack" /\ masa' = "none" => Carriers(jobs') = {}
  BY <1>1, <1>2
<1>5. Unsent' <=> Carriers(jobs') = {} /\ Mailed' = 0
  BY DEF Unsent
<1>6. \A c \in Calls : calls'[c].pc # "send"
  BY <1>2
<1> QED BY <1>1, <1>2, <1>3, <1>4, <1>5, <1>6 DEF Single

\* A handler without the baton just ends.
LEMMA OtherEnds ==
    ASSUME IInv, Single, NEW j \in DOMAIN jobs, ~Carries(j), faults' = 0, faults = 0, Done(j),
           UNCHANGED <<masa, calls, mails, remote>>
    PROVE  Single'
<1>1. jobs' = BagRemove(jobs, j)
  BY FaultNotFree DEF Done, Return
<1>2. Lone(jobs') /\ Carriers(jobs') = Carriers(jobs)
  BY <1>1, LoneRemoved DEF Single
<1>3. Mailed' = Mailed
  BY DEF Mailed
<1>4. Unsent' = Unsent
  BY <1>2, <1>3 DEF Unsent
<1> QED BY <1>2, <1>3, <1>4 DEF Single

\* The handlers before the delivery.
LEMMA BeforeMoves ==
    ASSUME IInv, Single, NEW j \in Carriers(jobs), faults = 0, faults' = 0,
           j.queue \notin AfterMasa,
           UNCHANGED <<masa, calls, mails>>,
           remote' = "ack" => remote = "ack",
           \/ \E pc : Goto(j, pc)
           \/ \E new : DoneSending(j, new)
           \/ Done(j)
           \/ FailAttempt(j)
    PROVE  Single'
<1>1. Lone(jobs) /\ j \in DOMAIN jobs /\ Carries(j)
  BY DEF Single, Carriers
<1>2. \E S : Baton(S)
  BY <1>1, BatonGoto, BatonDoneSending, BatonDone, BatonFailAttempt
<1> QED BY <1>2, CarrierMoves

LEMMA CarrierAt ==
    ASSUME NEW j \in DOMAIN jobs,
           ~At(j, "send_to_sftp", "complete"), ~At(j, "diffusion_rapport", "mark")
    PROVE  j \in Carriers(jobs)
BY DEF Carriers, Carries

LEMMA ProcessFileSingle ==
    ASSUME IInv, Single, faults = 0, faults' = 0, NEW j \in DOMAIN jobs, ProcessFile(j)
    PROVE  Single'
<1>1. j.queue = "process_file"
  BY DEF ProcessFile, StartProcessFile, CheckRights, CatchProcessFile, At
<1>2. j \in Carriers(jobs) /\ j.queue \notin AfterMasa
  BY <1>1, CarrierAt DEF At, AfterMasa
<1>3. (\E pc : Goto(j, pc)) \/ (\E new : DoneSending(j, new)) \/ Done(j) \/ FailAttempt(j)
  BY DEF ProcessFile, StartProcessFile, CheckRights, CatchProcessFile
<1> QED BY <1>2, <1>3, BeforeMoves DEF ProcessFile

LEMMA ControleMetierSingle ==
    ASSUME IInv, Single, faults = 0, faults' = 0, NEW j \in DOMAIN jobs, ControleMetier(j)
    PROVE  Single'
<1>1. j.queue = "controle_metier"
  BY DEF ControleMetier, StartControleMetier, ExecuteControles, ControleVerdict,
         FollowControle, RecordTechnicalError, RejectTechnically, At
<1>2. j \in Carriers(jobs) /\ j.queue \notin AfterMasa
  BY <1>1, CarrierAt DEF At, AfterMasa
<1>3. (\E pc : Goto(j, pc)) \/ (\E new : DoneSending(j, new)) \/ Done(j)
  BY DEF ControleMetier, StartControleMetier, ExecuteControles, ControleVerdict,
         FollowControle, RecordTechnicalError, RejectTechnically
<1> QED BY <1>2, <1>3, BeforeMoves DEF ControleMetier

LEMMA SandreUploadSingle ==
    ASSUME IInv, Single, faults = 0, faults' = 0, NEW j \in DOMAIN jobs, SandreUpload(j)
    PROVE  Single'
<1>1. j.queue = "controle_sandre_upload"
  BY DEF SandreUpload, StartUpload, ValidateFile, EnqueuePoll, CatchUpload, At
<1>2. j \in Carriers(jobs) /\ j.queue \notin AfterMasa
  BY <1>1, CarrierAt DEF At, AfterMasa
<1>3. (\E pc : Goto(j, pc)) \/ (\E new : DoneSending(j, new)) \/ FailAttempt(j)
  BY DEF SandreUpload, StartUpload, ValidateFile, EnqueuePoll, CatchUpload
<1> QED BY <1>2, <1>3, BeforeMoves DEF SandreUpload

LEMMA SandrePollSingle ==
    ASSUME IInv, Single, faults = 0, faults' = 0, NEW j \in DOMAIN jobs, SandrePoll(j)
    PROVE  Single'
<1>1. j.queue = "controle_sandre_poll"
  BY DEF SandrePoll, PollPending, PollAnswered, SandreVerdict, ReadyForSftp, FollowPoll,
         CatchPoll, At
<1>2. j \in Carriers(jobs) /\ j.queue \notin AfterMasa
  BY <1>1, CarrierAt DEF At, AfterMasa
<1>3. (\E pc : Goto(j, pc)) \/ (\E new : DoneSending(j, new)) \/ Done(j)
  BY DEF SandrePoll, PollPending, PollAnswered, SandreVerdict, ReadyForSftp, FollowPoll,
         CatchPoll
<1> QED BY <1>2, <1>3, BeforeMoves DEF SandrePoll

LEMMA SendToSftpSingle ==
    ASSUME IInv, Single, faults = 0, faults' = 0, NEW j \in DOMAIN jobs, SendToSftp(j)
    PROVE  Single'
<1>1. j.queue = "send_to_sftp" /\ UNCHANGED <<masa, calls, mails>>
  BY DEF SendToSftp, StartSftp, SendFile, SendAck, CompleteSftp, CatchSftp, At
<1>2. CASE CompleteSftp(j)
  <2>1. ~Carries(j)
    BY <1>2 DEF CompleteSftp, Carries
  <2> QED BY <1>1, <1>2, <2>1, OtherEnds DEF CompleteSftp
<1>3. CASE StartSftp(j) \/ SendFile(j) \/ CatchSftp(j)
  <2>1. j \in Carriers(jobs) /\ j.queue \notin AfterMasa
    BY <1>1, <1>3, CarrierAt DEF StartSftp, SendFile, CatchSftp, At, AfterMasa
  <2>2. (\E pc : Goto(j, pc)) \/ FailAttempt(j)
    BY <1>3 DEF StartSftp, SendFile, CatchSftp
  <2>3. remote' = "ack" => remote = "ack"
    BY <1>3 DEF StartSftp, SendFile, CatchSftp
  <2> QED BY <1>1, <2>1, <2>2, <2>3, BeforeMoves
<1>4. CASE SendAck(j)
  <2>1. j \in Carriers(jobs) /\ j.queue \notin AfterMasa
    BY <1>1, <1>4, CarrierAt DEF SendAck, At, AfterMasa
  <2> DEFINE k == [j EXCEPT !.pc = "complete"]
  <2>2. j \in Job /\ Lone(jobs) /\ Carries(j) /\ j \in DOMAIN jobs
    BY <2>1, JobFacts DEF Single, Carriers
  <2>3. k.queue = "send_to_sftp" /\ k.pc = "complete"
    BY <1>1, <2>2 DEF Job
  <2>4. ~Carries(k)
    BY <2>3 DEF Carries, At
  <2>5. Baton({})
    BY <1>4, <2>2, <2>4, BatonGoto DEF SendAck
  <2> QED BY <1>1, <2>1, <2>5, CarrierMoves
<1> QED BY <1>2, <1>3, <1>4 DEF SendToSftp

LEMMA ProcessMasaSingle ==
    ASSUME IInv, Single, faults = 0, faults' = 0, NEW j \in DOMAIN jobs, ProcessMasa(j)
    PROVE  Single'
<1>1. j.queue = "process_after_masa_webhook" /\ UNCHANGED <<masa, calls, mails, remote>>
  BY DEF ProcessMasa, StartMasa, FollowMasa, At
<1>2. j \in Carriers(jobs) /\ Lone(jobs) /\ Carries(j) /\ j \in Job
  BY <1>1, CarrierAt, JobFacts DEF At, Single, Carriers
<1>3. CASE StartMasa(j)
  <2> DEFINE k == [j EXCEPT !.pc = "follow"]
  <2>1. Baton({k})
    BY <1>2, <1>3, BatonGoto DEF StartMasa
  <2>2. k.queue \in AfterMasa
    BY <1>1, <1>2 DEF Job, AfterMasa
  <2> HIDE DEF k
  <2> QED BY <1>1, <1>2, <2>1, <2>2, CarrierMoves
<1>4. CASE FollowMasa(j)
  <2> DEFINE base == NewJob("diffusion_rapport")
             new == [base EXCEPT !.masa = TRUE, !.agence = masa # "REFUSE"]
  <2>1. new.queue = "diffusion_rapport"
    BY DEF NewJob
  <2>2. DoneSending(j, new)
    BY <1>4 DEF FollowMasa
  <2> HIDE DEF new
  <2>3. Baton({new}) /\ new.queue \in AfterMasa
    BY <1>2, <2>1, <2>2, BatonDoneSending DEF AfterMasa
  <2> QED BY <1>1, <1>2, <2>3, CarrierMoves
<1> QED BY <1>3, <1>4 DEF ProcessMasa

LEMMA DiffuseRapportSingle ==
    ASSUME IInv, Single, faults = 0, faults' = 0, NEW j \in DOMAIN jobs, DiffuseRapport(j)
    PROVE  Single'
<1>1. j.queue = "diffusion_rapport" /\ UNCHANGED <<masa, calls, mails, remote>>
  BY DEF DiffuseRapport, GenerateReport, SaveRapportPath, SendToAgence, EnqueueMail,
         MarkMail, At
<1>2. CASE MarkMail(j)
  <2>1. ~Carries(j)
    BY <1>2 DEF MarkMail, Carries
  <2> QED BY <1>1, <1>2, <2>1, OtherEnds DEF MarkMail
<1>3. ASSUME j.pc # "mark" PROVE j \in Carriers(jobs) /\ Lone(jobs) /\ Carries(j) /\ j \in Job
  BY <1>1, <1>3, CarrierAt, JobFacts DEF At, Single, Carriers
<1>4. CASE GenerateReport(j) \/ SaveRapportPath(j) \/ SendToAgence(j)
  <2>1. j.pc # "mark" /\ \E pc : Goto(j, pc)
    BY <1>4 DEF GenerateReport, SaveRapportPath, SendToAgence, At
  <2>2. PICK pc : Goto(j, pc)
    BY <2>1
  <2> DEFINE k == [j EXCEPT !.pc = pc]
  <2>3. Baton({k})
    BY <1>3, <2>1, <2>2, BatonGoto
  <2>4. k.queue \in AfterMasa
    BY <1>1, <1>3, <2>1 DEF Job, AfterMasa
  <2> HIDE DEF k
  <2> QED BY <1>1, <1>3, <2>1, <2>3, <2>4, CarrierMoves
<1>5. CASE EnqueueMail(j)
  <2>1. j.pc # "mark"
    BY <1>5 DEF EnqueueMail, At
  <2>2. j \in Carriers(jobs) /\ Lone(jobs) /\ Carries(j) /\ j \in Job
    BY <1>3, <2>1
  <2>3. CASE Done(j)
    <3>1. Baton({})
      BY <2>2, <2>3, BatonDone
    <3> QED BY <1>1, <2>2, <3>1, CarrierMoves
  <2>4. CASE GotoSending(j, "mark", [NewJob("email") EXCEPT !.masa = j.masa])
    <3> DEFINE k == [j EXCEPT !.pc = "mark"]
               new == [NewJob("email") EXCEPT !.masa = j.masa]
    <3>1. k.queue = "diffusion_rapport" /\ k.pc = "mark"
      BY <1>1, <2>2 DEF Job
    <3>2. new.queue \in AfterMasa
      BY DEF NewJob, AfterMasa
    <3>3. ~Carries(k)
      BY <3>1 DEF Carries, At
    <3>4. Baton({new})
      BY <2>2, <2>4, <3>3, BatonGotoSending
    <3> HIDE DEF new, k
    <3> QED BY <1>1, <2>2, <3>2, <3>4, CarrierMoves
  <2> QED BY <1>5, <2>3, <2>4 DEF EnqueueMail
<1> QED BY <1>2, <1>4, <1>5 DEF DiffuseRapport

\* The mail goes out with the baton.
LEMMA SendMailSingle ==
    ASSUME IInv, Single, faults = 0, faults' = 0, NEW j \in DOMAIN jobs, SendMail(j)
    PROVE  Single'
<1>1. j.queue = "email" /\ UNCHANGED <<masa, calls, remote>> /\ Done(j)
      /\ mails' = [mails EXCEPT ![KindOf(j)] = @ + 1]
  BY DEF SendMail, At
<1>2. j \in Carriers(jobs) /\ Lone(jobs) /\ Carries(j)
  BY <1>1, CarrierAt DEF At, Single, Carriers
<1>3. Lone(jobs') /\ Carriers(jobs') = {}
  BY <1>1, <1>2, BatonDone DEF Baton
<1>4. Mailed = 0 /\ ~(remote = "ack" /\ masa = "none") /\ \A c \in Calls : calls[c].pc # "send"
  BY <1>2 DEF Single, Unsent
<1>5. mails \in [{"rejet", "masa"} -> Nat] /\ KindOf(j) \in {"rejet", "masa"}
  BY DEF IInv, TypeOK, Kinds, KindOf
<1>6. Mailed' = Mailed + 1
  <2>1. CASE KindOf(j) = "rejet"
    BY <1>1, <1>5, <2>1 DEF Mailed
  <2>2. CASE KindOf(j) = "masa"
    BY <1>1, <1>5, <2>2 DEF Mailed
  <2> QED BY <1>5, <2>1, <2>2
<1>7. Mailed' = 1
  BY <1>4, <1>6
<1>8. Mailed' <= 1
  BY <1>7
<1> QED BY <1>1, <1>3, <1>4, <1>8 DEF Single

\* Fetching a carrier, or taking its job back from a dead worker, hands on the
\* same baton; while nothing has failed, no other job is fetched or dead.
LEMMA ScheduleSingle ==
    ASSUME IInv, Ordinary, Single, faults = 0, faults' = 0, NEW j \in DOMAIN jobs, Schedule(j)
    PROVE  Single'
<1>1. UNCHANGED <<masa, calls, mails, remote>>
  BY DEF Schedule
<1>2. j.pc = "none"
  BY DEF Schedule, Fetch, ExpireDead, Ordinary, OrdinaryJob
<1>3. j \in Carriers(jobs) /\ Lone(jobs) /\ Carries(j) /\ j \in Job
  BY <1>2, CarrierAt, JobFacts DEF At, Single, Carriers
<1>4. CASE Fetch(j)
  <2> DEFINE k == [j EXCEPT !.state = "active", !.pc = "start"]
  <2>1. k.queue = j.queue
    BY <1>3 DEF Job
  <2>2. jobs' = BagAdd(BagRemove(jobs, j), k)
    BY <1>4 DEF Fetch, Become
  <2> HIDE DEF k
  <2>3. Baton({k})
    BY <1>3, <2>2, BatonReplaced DEF Baton
  <2> QED BY <1>1, <1>3, <2>1, <2>3, CarrierMoves
<1>5. CASE ExpireDead(j)
  <2>1. Baton({Again(j)})
    BY <1>3, <1>5, BatonRequeue DEF ExpireDead
  <2>2. Again(j).queue = j.queue
    BY <1>3 DEF Again, Job
  <2> QED BY <1>1, <1>3, <2>1, <2>2, CarrierMoves
<1> QED BY <1>4, <1>5 DEF Schedule

\* The row of masa is saved once, and the call that saved it takes the baton.
LEMMA WebhookSingle ==
    ASSUME IInv, Single, faults = 0, faults' = 0, NEW c \in Calls, Webhook(c)
    PROVE  Single'
<1>1. calls \in [Calls -> Call] /\ masa \in MasaStatuses \cup {"none"}
      /\ UNCHANGED <<remote, mails>> /\ Mailed' = Mailed
  BY DEF IInv, TypeOK, Webhook, Mailed
<1>2. Lone(jobs) /\ Mailed <= 1
  BY DEF Single
<1>3. CASE WebhookCall(c)
  <2>1. \A b \in Calls : calls'[b].pc = "send" => calls[b].pc = "send"
    BY <1>1, <1>3 DEF WebhookCall, Call
  <2>2. UNCHANGED <<masa, jobs>>
    BY <1>3 DEF WebhookCall
  <2> QED BY <1>1, <2>1, <2>2 DEF Single, Unsent, Lone
<1>4. CASE SaveMasaRetour(c)
  <2>1. calls[c].pc = "save" /\ UNCHANGED jobs /\ remote = "ack"
    BY <1>4 DEF SaveMasaRetour, IInv, PInv, Answered
  <2>2. CASE masa = "none"
    <3>1. Unsent /\ Unsent'
      BY <1>1, <2>1, <2>2 DEF Single, Unsent
    <3>2. \A b \in Calls : calls[b].pc # "send"
      BY <2>2 DEF IInv, PInv, Answered
    <3>3. \A b \in Calls : calls'[b].pc = "send" => b = c
      BY <1>1, <1>4, <2>2, <3>2 DEF SaveMasaRetour
    <3> QED BY <1>1, <1>2, <2>1, <3>1, <3>3 DEF Single, Unsent
  <2>3. CASE masa # "none"
    <3>1. masa' = masa /\ \A b \in Calls : calls'[b].pc = "send" => calls[b].pc = "send"
      BY <1>1, <1>4, <2>3 DEF SaveMasaRetour, Call
    <3> QED BY <1>1, <2>1, <3>1 DEF Single, Unsent, Lone
  <2> QED BY <2>2, <2>3
<1>5. CASE EnqueueMasa(c)
  <2> DEFINE new == [NewJob("process_after_masa_webhook") EXCEPT !.masa = TRUE]
  <2>1. calls[c].pc = "send" /\ UNCHANGED masa /\ jobs' = BagAdd(jobs, new)
        /\ calls' = [calls EXCEPT ![c].pc = "ok"]
    BY <1>5 DEF EnqueueMasa
  <2>2. new.queue \in AfterMasa
    BY DEF NewJob, AfterMasa
  <2> HIDE DEF new
  <2>3. Unsent /\ masa # "none" /\ \A b \in Calls : calls[b].pc = "send" => b = c
    BY <2>1 DEF Single, IInv, PInv, Answered
  <2>4. Lone(jobs') /\ Carriers(jobs') \subseteq {new}
    BY <2>1, <2>3, LoneAdded DEF Unsent
  <2>5. \A b \in Calls : calls'[b].pc # "send"
    BY <1>1, <2>1, <2>3 DEF Call
  <2>6. Mailed' = 0 /\ Mailed' <= 1
    BY <1>1, <1>2, <2>3 DEF Unsent
  <2> QED BY <1>1, <2>1, <2>2, <2>3, <2>4, <2>5, <2>6 DEF Single
<1>6. CASE FailCall(c)
  BY <1>6, FaultNotFree DEF FailCall
<1> QED BY <1>3, <1>4, <1>5, <1>6 DEF Webhook

LEMMA FailIsFault ==
    ASSUME IInv, Fail
    PROVE  faults' = faults + 1 /\ faults' # 0
BY FaultNotFree DEF Fail, Crash, Outlive, Throw

\* Failures are only counted up.
LEMMA FaultsGrow ==
    ASSUME IInv, [Next]_vars
    PROVE  /\ faults' = 0 => faults = 0
           /\ faults' <= 1 => faults <= 1
<1>1. faults \in Nat
  BY DEF IInv, TypeOK
<1>2. faults' = faults \/ faults' = faults + 1
  <2>1. ASSUME NEW j \in DOMAIN jobs, Schedule(j) PROVE faults' = faults
    BY <2>1 DEF Schedule, Fetch, ExpireDead
  <2>2. ASSUME NEW j, \E pc : Goto(j, pc) PROVE faults' = faults
    BY <2>2 DEF Goto
  <2>3. ASSUME NEW j, \E new : DoneSending(j, new) PROVE faults' = faults \/ faults' = faults + 1
    BY <2>3 DEF DoneSending, Return, Fault
  <2>4. ASSUME NEW j, Done(j) PROVE faults' = faults \/ faults' = faults + 1
    BY <2>4 DEF Done, Return, Fault
  <2>5. ASSUME NEW j, \E pc, new : GotoSending(j, pc, new) PROVE faults' = faults
    BY <2>5 DEF GotoSending
  <2>6. ASSUME NEW j \in DOMAIN jobs, Handle(j) PROVE faults' = faults \/ faults' = faults + 1
    <3>1. CASE ProcessFile(j)
      BY <2>2, <2>3, <2>4, <3>1 DEF ProcessFile, StartProcessFile, CheckRights, CatchProcessFile
    <3>2. CASE ControleMetier(j)
      BY <2>2, <2>3, <2>4, <3>2
         DEF ControleMetier, StartControleMetier, ExecuteControles, ControleVerdict,
             FollowControle, RecordTechnicalError, RejectTechnically
    <3>3. CASE SandreUpload(j)
      BY <2>2, <2>3, <3>3 DEF SandreUpload, StartUpload, ValidateFile, EnqueuePoll, CatchUpload
    <3>4. CASE SandrePoll(j)
      BY <2>2, <2>3, <2>4, <3>4
         DEF SandrePoll, PollPending, PollAnswered, SandreVerdict, ReadyForSftp, FollowPoll,
             CatchPoll
    <3>5. CASE SendToSftp(j)
      BY <2>2, <2>4, <3>5 DEF SendToSftp, StartSftp, SendFile, SendAck, CompleteSftp, CatchSftp
    <3>6. CASE ProcessMasa(j)
      BY <2>2, <2>3, <3>6 DEF ProcessMasa, StartMasa, FollowMasa
    <3>7. CASE DiffuseRapport(j)
      BY <2>2, <2>4, <2>5, <3>7
         DEF DiffuseRapport, GenerateReport, SaveRapportPath, SendToAgence, EnqueueMail, MarkMail
    <3>8. CASE SendMail(j)
      BY <2>4, <3>8 DEF SendMail
    <3> QED BY <2>6, <3>1, <3>2, <3>3, <3>4, <3>5, <3>6, <3>7, <3>8 DEF Handle
  <2>7. ASSUME NEW c \in Calls, Webhook(c) PROVE faults' = faults \/ faults' = faults + 1
    BY <2>7 DEF Webhook, WebhookCall, SaveMasaRetour, EnqueueMasa, FailCall, Fault
  <2>8. CASE Fail
    BY <2>8, FailIsFault
  <2>9. CASE UNCHANGED vars
    BY <2>9 DEF vars
  <2> QED BY <2>1, <2>6, <2>7, <2>8, <2>9 DEF Next
<1> QED BY <1>1, <1>2

----------------------------------------------------------------------------
(* Every step keeps the jobs ordinary.                                     *)

Blank(k) == k.state = "created" /\ k.pc = "none"

LEMMA OrdinaryStep ==
    ASSUME Ordinary, faults' = 0 => faults = 0, faults' <= 1 => faults <= 1,
           \A k \in DOMAIN jobs' : k \in DOMAIN jobs \/ OrdinaryJob(k, faults')
    PROVE  Ordinary'
BY DEF Ordinary, OrdinaryJob

LEMMA BlankOrdinary ==
    ASSUME NEW k, Blank(k), NEW n
    PROVE  OrdinaryJob(k, n)
BY DEF Blank, OrdinaryJob, CatchesUpload, At

LEMMA AgainBlank ==
    ASSUME NEW j \in Job
    PROVE  Blank(Again(j))
BY DEF Blank, Again, Job

\* What a handler may do to its job.
LEMMA HandlerOrdinary ==
    ASSUME IInv, Ordinary, NEW j \in DOMAIN jobs, j.pc # "none",
           \/ \E pc : (pc = "catch" => j.queue # "controle_sandre_upload") /\ Goto(j, pc)
           \/ \E pc, new : pc # "catch" /\ Blank(new) /\ GotoSending(j, pc, new)
           \/ \E new : Blank(new) /\ DoneSending(j, new)
           \/ Done(j)
           \/ FailAttempt(j) /\ faults' = faults
    PROVE  Ordinary'
<1>1. j \in Job /\ faults \in Nat
  BY JobFacts DEF IInv, TypeOK
<1>2. j.state # "created" /\ (faults = 0 => j.state = "active")
  BY <1>1 DEF Ordinary, OrdinaryJob, Job
<1>3. ASSUME NEW pc, pc = "catch" => j.queue # "controle_sandre_upload"
      PROVE  OrdinaryJob([j EXCEPT !.pc = pc], faults)
  <2> DEFINE k == [j EXCEPT !.pc = pc]
  <2>1. k.state = j.state /\ k.queue = j.queue /\ k.pc = pc
    BY <1>1 DEF Job
  <2> HIDE DEF k
  <2> QED BY <1>2, <1>3, <2>1 DEF OrdinaryJob, CatchesUpload, At
<1>4. ASSUME NEW n, n = 0 => faults = 0 PROVE OrdinaryJob(Dead(j), n)
  <2>1. Dead(j).state = j.state /\ Dead(j).pc = "none"
    BY <1>1 DEF Dead, Job
  <2> QED BY <1>2, <1>4, <2>1 DEF OrdinaryJob, CatchesUpload, At
<1>5. ASSUME NEW pc, pc = "catch" => j.queue # "controle_sandre_upload", Goto(j, pc)
      PROVE  Ordinary'
  <2>1. DOMAIN jobs' \subseteq DOMAIN jobs \cup {[j EXCEPT !.pc = pc]} /\ faults' = faults
    BY <1>5, GotoAdds DEF Goto
  <2>2. OrdinaryJob([j EXCEPT !.pc = pc], faults')
    BY <1>3, <1>5, <2>1
  <2>3. \A k \in DOMAIN jobs' : k \in DOMAIN jobs \/ OrdinaryJob(k, faults')
    BY <2>1, <2>2
  <2> QED BY <2>1, <2>3, OrdinaryStep
<1>6. ASSUME NEW pc, NEW new, pc # "catch", Blank(new), GotoSending(j, pc, new)
      PROVE  Ordinary'
  <2>1. DOMAIN jobs' \subseteq DOMAIN jobs \cup {[j EXCEPT !.pc = pc], new} /\ faults' = faults
    BY <1>6, GotoSendingAdds DEF GotoSending
  <2>2. OrdinaryJob(new, faults')
    BY <1>6, BlankOrdinary
  <2>3. OrdinaryJob([j EXCEPT !.pc = pc], faults')
    BY <1>3, <1>6, <2>1
  <2>4. \A k \in DOMAIN jobs' : k \in DOMAIN jobs \/ OrdinaryJob(k, faults')
    BY <2>1, <2>2, <2>3
  <2> QED BY <2>1, <2>4, OrdinaryStep
<1>7. ASSUME Done(j) \/ \E new : DoneSending(j, new)
      PROVE  (faults' = 0 => faults = 0) /\ (faults' <= 1 => faults <= 1)
  <2>1. faults' = faults \/ faults' = faults + 1
    BY <1>7 DEF Done, DoneSending, Return, Fault
  <2> QED BY <1>1, <2>1
<1>8. ASSUME NEW new, Blank(new), DoneSending(j, new) PROVE Ordinary'
  <2>1. DOMAIN jobs' \subseteq DOMAIN jobs \cup {Dead(j), new}
    BY <1>8, DoneSendingAdds
  <2>2. (faults' = 0 => faults = 0) /\ (faults' <= 1 => faults <= 1)
    BY <1>7, <1>8
  <2>3. OrdinaryJob(new, faults') /\ OrdinaryJob(Dead(j), faults')
    BY <1>4, <1>8, <2>2, BlankOrdinary
  <2>4. \A k \in DOMAIN jobs' : k \in DOMAIN jobs \/ OrdinaryJob(k, faults')
    BY <2>1, <2>3
  <2> QED BY <2>2, <2>4, OrdinaryStep
<1>9. CASE Done(j)
  <2>1. DOMAIN jobs' \subseteq DOMAIN jobs \cup {Dead(j)}
    BY <1>9, DoneAdds
  <2>2. (faults' = 0 => faults = 0) /\ (faults' <= 1 => faults <= 1)
    BY <1>7, <1>9
  <2>3. OrdinaryJob(Dead(j), faults')
    BY <1>4, <2>2
  <2>4. \A k \in DOMAIN jobs' : k \in DOMAIN jobs \/ OrdinaryJob(k, faults')
    BY <2>1, <2>3
  <2> QED BY <2>2, <2>4, OrdinaryStep
<1>10. CASE FailAttempt(j) /\ faults' = faults
  <2>1. DOMAIN jobs' \subseteq DOMAIN jobs \cup {Again(j)}
    BY <1>10, FailAttemptAdds
  <2>2. OrdinaryJob(Again(j), faults')
    BY <1>1, AgainBlank, BlankOrdinary
  <2>3. \A k \in DOMAIN jobs' : k \in DOMAIN jobs \/ OrdinaryJob(k, faults')
    BY <2>1, <2>2
  <2> QED BY <1>10, <2>3, OrdinaryStep
<1> QED BY <1>5, <1>6, <1>8, <1>9, <1>10

LEMMA NewJobBlank ==
    /\ \A q \in Queues : Blank(NewJob(q)) /\ Blank([NewJob(q) EXCEPT !.masa = TRUE])
    /\ \A m : Blank([NewJob("email") EXCEPT !.masa = m])
    /\ \A a : Blank([NewJob("diffusion_rapport") EXCEPT !.masa = TRUE, !.agence = a])
    /\ \A n : Blank([NewJob("controle_sandre_poll") EXCEPT !.attempt = n])
BY DEF Blank, NewJob



LEMMA HandleOrdinary ==
    ASSUME IInv, Ordinary, NEW j \in DOMAIN jobs, Handle(j)
    PROVE  Ordinary'
<1>1. CASE ProcessFile(j)
  <2>1. j.pc # "none" /\ j.queue = "process_file"
    BY <1>1 DEF ProcessFile, StartProcessFile, CheckRights, CatchProcessFile, At
  <2>2. \/ \E pc : Goto(j, pc)
        \/ \E new : Blank(new) /\ DoneSending(j, new)
        \/ Done(j)
        \/ FailAttempt(j) /\ faults' = faults
    BY <1>1, NewJobBlank
       DEF ProcessFile, StartProcessFile, CheckRights, CatchProcessFile, Queues
  <2> QED BY <2>1, <2>2, HandlerOrdinary
<1>2. CASE ControleMetier(j)
  <2>1. j.pc # "none" /\ j.queue = "controle_metier"
    BY <1>2 DEF ControleMetier, StartControleMetier, ExecuteControles, ControleVerdict,
                FollowControle, RecordTechnicalError, RejectTechnically, At
  <2>2. (\E pc : Goto(j, pc)) \/ FollowControle(j) \/ Done(j)
    BY <1>2 DEF ControleMetier, StartControleMetier, ExecuteControles, ControleVerdict,
                RecordTechnicalError, RejectTechnically
  <2>3. FollowControle(j) => \E new : Blank(new) /\ DoneSending(j, new)
    BY NewJobBlank DEF FollowControle, Queues
  <2> QED BY <2>1, <2>2, <2>3, HandlerOrdinary
<1>3. CASE SandreUpload(j)
  <2>1. j.pc # "none"
    BY <1>3 DEF SandreUpload, StartUpload, ValidateFile, EnqueuePoll, CatchUpload, At
  <2>2. \/ \E pc : pc # "catch" /\ Goto(j, pc)
        \/ \E new : Blank(new) /\ DoneSending(j, new)
        \/ FailAttempt(j) /\ faults' = faults
    BY <1>3, NewJobBlank DEF SandreUpload, StartUpload, ValidateFile, EnqueuePoll, CatchUpload,
                             Queues
  <2> QED BY <2>1, <2>2, HandlerOrdinary
<1>4. CASE SandrePoll(j)
  <2>1. j.pc # "none" /\ j.queue = "controle_sandre_poll"
    BY <1>4 DEF SandrePoll, PollPending, PollAnswered, SandreVerdict, ReadyForSftp, FollowPoll,
                CatchPoll, At
  <2>2. (\E pc : Goto(j, pc)) \/ FollowPoll(j) \/ Done(j) \/ DoneSending(j, NextPoll(j))
    BY <1>4 DEF SandrePoll, PollPending, PollAnswered, SandreVerdict, ReadyForSftp, CatchPoll
  <2>3. FollowPoll(j) => \E new : Blank(new) /\ DoneSending(j, new)
    BY NewJobBlank DEF FollowPoll, Queues
  <2>4. Blank(NextPoll(j))
    BY NewJobBlank DEF NextPoll
  <2> QED BY <2>1, <2>2, <2>3, <2>4, HandlerOrdinary
<1>5. CASE SendToSftp(j)
  <2>1. j.pc # "none" /\ j.queue = "send_to_sftp"
    BY <1>5 DEF SendToSftp, StartSftp, SendFile, SendAck, CompleteSftp, CatchSftp, At
  <2>2. \/ \E pc : Goto(j, pc)
        \/ Done(j)
        \/ FailAttempt(j) /\ faults' = faults
    BY <1>5 DEF SendToSftp, StartSftp, SendFile, SendAck, CompleteSftp, CatchSftp
  <2> QED BY <2>1, <2>2, HandlerOrdinary
<1>6. CASE ProcessMasa(j)
  <2>1. j.pc # "none" /\ j.queue = "process_after_masa_webhook"
    BY <1>6 DEF ProcessMasa, StartMasa, FollowMasa, At
  <2>2. (\E pc : Goto(j, pc)) \/ \E new : Blank(new) /\ DoneSending(j, new)
    BY <1>6, NewJobBlank DEF ProcessMasa, StartMasa, FollowMasa
  <2> QED BY <2>1, <2>2, HandlerOrdinary
<1>7. CASE DiffuseRapport(j)
  <2>1. j.pc # "none" /\ j.queue = "diffusion_rapport"
    BY <1>7 DEF DiffuseRapport, GenerateReport, SaveRapportPath, SendToAgence, EnqueueMail,
                MarkMail, At
  <2>2. \/ \E pc : Goto(j, pc)
        \/ GotoSending(j, "mark", [NewJob("email") EXCEPT !.masa = j.masa])
        \/ Done(j)
    BY <1>7 DEF DiffuseRapport, GenerateReport, SaveRapportPath, SendToAgence, EnqueueMail,
                MarkMail
  <2>3. Blank([NewJob("email") EXCEPT !.masa = j.masa])
    BY NewJobBlank
  <2> QED BY <2>1, <2>2, <2>3, HandlerOrdinary
<1>8. CASE SendMail(j)
  <2>1. j.pc # "none" /\ Done(j)
    BY <1>8 DEF SendMail, At
  <2> QED BY <2>1, HandlerOrdinary
<1> QED BY <1>1, <1>2, <1>3, <1>4, <1>5, <1>6, <1>7, <1>8 DEF Handle

LEMMA ScheduleOrdinary ==
    ASSUME IInv, Ordinary, NEW j \in DOMAIN jobs, Schedule(j)
    PROVE  Ordinary'
<1>1. j \in Job /\ faults' = faults
  BY JobFacts DEF Schedule, Fetch, ExpireDead
<1>2. CASE Fetch(j)
  <2> DEFINE k == [j EXCEPT !.state = "active", !.pc = "start"]
  <2>1. k.state = "active" /\ k.pc = "start"
    BY <1>1 DEF Job
  <2>2. DOMAIN jobs' \subseteq DOMAIN jobs \cup {k}
    BY <1>2, BecomeAdds DEF Fetch
  <2> HIDE DEF k
  <2>3. OrdinaryJob(k, faults')
    BY <2>1 DEF OrdinaryJob, CatchesUpload, At
  <2>4. \A i \in DOMAIN jobs' : i \in DOMAIN jobs \/ OrdinaryJob(i, faults')
    BY <2>2, <2>3
  <2> QED BY <1>1, <2>4, OrdinaryStep
<1>3. CASE ExpireDead(j)
  <2>1. DOMAIN jobs' \subseteq DOMAIN BagRemove(jobs, j) \cup {Again(j)}
    BY <1>3, RequeueAdds DEF ExpireDead
  <2>2. OrdinaryJob(Again(j), faults')
    BY <1>1, AgainBlank, BlankOrdinary
  <2>3. \A i \in DOMAIN jobs' : i \in DOMAIN jobs \/ OrdinaryJob(i, faults')
    BY <2>1, <2>2, BagDomains
  <2> QED BY <1>1, <2>3, OrdinaryStep
<1> QED BY <1>2, <1>3 DEF Schedule

LEMMA FailOrdinary ==
    ASSUME IInv, Ordinary, Fail
    PROVE  Ordinary'
<1>1. faults \in Nat /\ faults' = faults + 1
  BY FailIsFault DEF IInv, TypeOK
<1>2. faults' # 0 /\ (faults' <= 1 => faults = 0 /\ faults <= 1)
  BY <1>1
<1>3. ASSUME NEW j \in DOMAIN jobs, Outlive(j) PROVE Ordinary'
  <2> DEFINE k == [j EXCEPT !.state = "expired"]
  <2>1. j \in Job /\ Blank(Again(j))
    BY JobFacts, AgainBlank
  <2>2. k.queue = j.queue /\ k.pc = j.pc /\ k.state = "expired"
    BY <2>1 DEF Job
  <2>3. DOMAIN Become(j, k) \subseteq DOMAIN jobs \cup {k}
    BY BecomeAdds
  <2>4. DOMAIN jobs' \subseteq DOMAIN Become(j, k) \cup {Again(j)}
    BY <1>3, RequeueAdds DEF Outlive
  <2> HIDE DEF k
  <2>5. faults = 0 => ~CatchesUpload(k)
    BY <2>2 DEF Ordinary, OrdinaryJob, CatchesUpload, At
  <2>6. OrdinaryJob(k, faults') /\ OrdinaryJob(Again(j), faults')
    BY <1>2, <2>1, <2>2, <2>5, BlankOrdinary DEF OrdinaryJob
  <2>7. \A i \in DOMAIN jobs' : i \in DOMAIN jobs \/ OrdinaryJob(i, faults')
    BY <2>3, <2>4, <2>6
  <2> QED BY <1>2, <2>7, OrdinaryStep
<1>4. ASSUME NEW j \in DOMAIN jobs, Throw(j) PROVE Ordinary'
  <2>1. j \in Job /\ j.pc # "none"
    BY <1>4, JobFacts DEF Throw
  <2>2. CASE Resume(j) # "out"
    <3> DEFINE k == [j EXCEPT !.pc = Resume(j)]
    <3>1. k.state = j.state
      BY <2>1 DEF Job
    <3>2. DOMAIN jobs' \subseteq DOMAIN jobs \cup {k}
      BY <1>4, <2>2, BecomeAdds DEF Throw
    <3> HIDE DEF k
    <3>3. k.state # "created" /\ (faults = 0 => k.state # "expired")
      BY <2>1, <3>1 DEF Ordinary, OrdinaryJob
    <3>4. OrdinaryJob(k, faults')
      BY <1>2, <3>3 DEF OrdinaryJob
    <3>5. \A i \in DOMAIN jobs' : i \in DOMAIN jobs \/ OrdinaryJob(i, faults')
      BY <3>2, <3>4
    <3> QED BY <1>2, <3>5, OrdinaryStep
  <2>3. CASE Resume(j) = "out"
    <3>1. DOMAIN jobs' \subseteq DOMAIN jobs \cup {Again(j)}
      BY <1>4, <2>3, FailAttemptAdds DEF Throw
    <3>2. OrdinaryJob(Again(j), faults')
      BY <2>1, AgainBlank, BlankOrdinary
    <3>3. \A i \in DOMAIN jobs' : i \in DOMAIN jobs \/ OrdinaryJob(i, faults')
      BY <3>1, <3>2
    <3> QED BY <1>2, <3>3, OrdinaryStep
  <2> QED BY <2>2, <2>3
<1>5. ASSUME Crash PROVE Ordinary'
  <2>1. DOMAIN jobs' = {Dead(j) : j \in {i \in DOMAIN jobs : i.state # "expired"}}
    BY <1>5 DEF Crash
  <2>2. ASSUME NEW j \in DOMAIN jobs PROVE OrdinaryJob(Dead(j), faults')
    <3>1. Dead(j).pc = "none"
      BY JobFacts DEF Dead, Job
    <3> QED BY <1>2, <3>1 DEF OrdinaryJob, CatchesUpload, At
  <2>3. \A i \in DOMAIN jobs' : i \in DOMAIN jobs \/ OrdinaryJob(i, faults')
    BY <2>1, <2>2
  <2> QED BY <1>2, <2>3, OrdinaryStep
<1> QED BY <1>3, <1>4, <1>5 DEF Fail

LEMMA WebhookOrdinary ==
    ASSUME IInv, Ordinary, NEW c \in Calls, Webhook(c)
    PROVE  Ordinary'
<1>1. faults \in Nat /\ (faults' = faults \/ faults' = faults + 1)
  BY DEF IInv, TypeOK, Webhook, WebhookCall, SaveMasaRetour, EnqueueMasa, FailCall, Fault
<1>2. (faults' = 0 => faults = 0) /\ (faults' <= 1 => faults <= 1)
  BY <1>1
<1> DEFINE new == [NewJob("process_after_masa_webhook") EXCEPT !.masa = TRUE]
<1>3. jobs' = jobs \/ jobs' = BagAdd(jobs, new)
  BY DEF Webhook, WebhookCall, SaveMasaRetour, EnqueueMasa, FailCall
<1>4. OrdinaryJob(new, faults')
  BY NewJobBlank, BlankOrdinary DEF Queues
<1> HIDE DEF new
<1>5. DOMAIN BagAdd(jobs, new) = DOMAIN jobs \cup {new}
  BY BagDomains
<1>6. \A i \in DOMAIN jobs' : i \in DOMAIN jobs \/ OrdinaryJob(i, faults')
  BY <1>3, <1>4, <1>5
<1> QED BY <1>2, <1>6, OrdinaryStep





----------------------------------------------------------------------------
(* One failure never drops the baton.                                      *)

BeforeMasa == {"process_file", "controle_metier", "controle_sandre_upload",
               "controle_sandre_poll", "send_to_sftp"}

\* A job before the delivery that has not come to the end of its part: what it
\* does next sends another, settles the depot or delivers it.
Pending(j) ==
    /\ j.queue \in BeforeMasa
    /\ At(j, "controle_metier", "follow") => dossier.controles = "valide"
    /\ At(j, "controle_sandre_poll", "follow") => dossier.sandre = "conforme"
    /\ ~At(j, "send_to_sftp", "complete")

\* What excuses a depot from having a pending job.
Settled ==
    \/ depot.status # "EN_COURS_DE_TRAITEMENT"
    \/ masa # "none"
    \/ remote = "ack"
    \/ failed # {}

Pursued == faults <= 1 => Settled \/ \E j \in DOMAIN jobs : Pending(j)

\* A job is only taken out of the bag by what is done with it.
Leaves(j) == DOMAIN jobs \ {j} \subseteq DOMAIN jobs'

\* What is not undone: an answer, a delivery, a job that used up its retries.
Lasting ==
    /\ dossier' = dossier
    /\ masa # "none" => masa' # "none"
    /\ remote = "ack" => remote' = "ack"
    /\ failed \subseteq failed'

LEMMA PursuedStep ==
    ASSUME Pursued, NEW j, Leaves(j), Lasting, faults' <= 1 => faults <= 1,
           \/ Settled'
           \/ \E k \in DOMAIN jobs' : Pending(k)
           \/ depot'.status = depot.status /\ ~Pending(j)
    PROVE  Pursued'
<1>1. \A k : Pending(k)' <=> Pending(k)
  BY DEF Lasting, Pending, At
<1>2. CASE depot'.status = depot.status /\ ~Pending(j)
  <2>1. Settled => Settled'
    BY <1>2 DEF Settled, Lasting
  <2>2. ASSUME NEW k \in DOMAIN jobs, Pending(k) PROVE k \in DOMAIN jobs'
    BY <1>2, <2>2 DEF Leaves
  <2> QED BY <1>1, <2>1, <2>2 DEF Pursued
<1> QED BY <1>1, <1>2 DEF Pursued

LEMMA AddKeeps ==
    ASSUME NEW B, NEW k
    PROVE  k \in DOMAIN BagAdd(B, k) /\ DOMAIN B \subseteq DOMAIN BagAdd(B, k)
BY BagDomains

LEMMA RemoveLeaves ==
    ASSUME NEW B, NEW j
    PROVE  DOMAIN B \ {j} \subseteq DOMAIN BagRemove(B, j)
BY DEF BagRemove

LEMMA BecomeLeaves ==
    ASSUME NEW j, NEW k
    PROVE  k \in DOMAIN Become(j, k) /\ DOMAIN jobs \ {j} \subseteq DOMAIN Become(j, k)
BY AddKeeps, RemoveLeaves DEF Become

LEMMA GotoLeaves ==
    ASSUME NEW j, NEW pc, Goto(j, pc)
    PROVE  /\ [j EXCEPT !.pc = pc] \in DOMAIN jobs' /\ Leaves(j)
           /\ failed' = failed /\ faults' = faults
BY BecomeLeaves DEF Goto, Leaves

LEMMA GotoSendingLeaves ==
    ASSUME NEW j, NEW pc, NEW new, GotoSending(j, pc, new)
    PROVE  Leaves(j) /\ failed' = failed /\ faults' = faults
<1>1. DOMAIN jobs \ {j} \subseteq DOMAIN Become(j, [j EXCEPT !.pc = pc])
  BY BecomeLeaves
<1>2. jobs' = BagAdd(Become(j, [j EXCEPT !.pc = pc]), new)
  BY DEF GotoSending
<1> QED BY <1>1, <1>2, AddKeeps DEF GotoSending, Leaves

LEMMA ReturnLeaves ==
    ASSUME IInv, NEW j, NEW after, Return(j, after)
    PROVE  /\ DOMAIN after \subseteq DOMAIN jobs'
           /\ failed' = failed /\ (faults' <= 1 => faults <= 1)
<1>1. faults \in Nat /\ (faults' = faults \/ faults' = faults + 1)
  BY DEF Return, Fault, IInv, TypeOK
<1>2. DOMAIN after \subseteq DOMAIN jobs'
  BY AddKeeps DEF Return
<1> QED BY <1>1, <1>2 DEF Return

LEMMA DoneLeaves ==
    ASSUME IInv, NEW j, Done(j)
    PROVE  Leaves(j) /\ failed' = failed /\ (faults' <= 1 => faults <= 1)
<1>1. DOMAIN jobs \ {j} \subseteq DOMAIN BagRemove(jobs, j)
  BY RemoveLeaves
<1> QED BY <1>1, ReturnLeaves DEF Done, Leaves

LEMMA DoneSendingLeaves ==
    ASSUME IInv, NEW j, NEW new, DoneSending(j, new)
    PROVE  /\ new \in DOMAIN jobs' /\ Leaves(j)
           /\ failed' = failed /\ (faults' <= 1 => faults <= 1)
<1> DEFINE B == BagRemove(jobs, j)
<1>1. DOMAIN jobs \ {j} \subseteq DOMAIN B
  BY RemoveLeaves
<1>2. new \in DOMAIN BagAdd(B, new) /\ DOMAIN B \subseteq DOMAIN BagAdd(B, new)
  BY AddKeeps
<1>3. /\ DOMAIN BagAdd(B, new) \subseteq DOMAIN jobs'
      /\ failed' = failed /\ (faults' <= 1 => faults <= 1)
  BY ReturnLeaves DEF DoneSending
<1> QED BY <1>1, <1>2, <1>3 DEF Leaves

LEMMA RequeueLeaves ==
    ASSUME NEW j, NEW others, Requeue(j, others), DOMAIN jobs \ {j} \subseteq DOMAIN others
    PROVE  /\ Leaves(j) /\ failed \subseteq failed' /\ DOMAIN others \subseteq DOMAIN jobs'
           /\ Again(j) \in DOMAIN jobs' \/ failed' # {}
<1>1. DOMAIN others \subseteq DOMAIN jobs'
  BY AddKeeps DEF Requeue
<1>2. failed \subseteq failed'
  BY DEF Requeue
<1>3. Again(j) \in DOMAIN jobs' \/ failed' # {}
  BY AddKeeps DEF Requeue
<1> QED BY <1>1, <1>2, <1>3 DEF Leaves

LEMMA FailAttemptLeaves ==
    ASSUME NEW j, FailAttempt(j)
    PROVE  /\ Leaves(j) /\ failed \subseteq failed'
           /\ j.state = "active" => Again(j) \in DOMAIN jobs' \/ failed' # {}
<1>1. DOMAIN jobs \ {j} \subseteq DOMAIN BagRemove(jobs, j)
  BY RemoveLeaves
<1>2. CASE j.state = "active"
  BY <1>1, <1>2, RequeueLeaves DEF FailAttempt
<1>3. CASE j.state # "active"
  BY <1>1, <1>3 DEF FailAttempt, Leaves
<1> QED BY <1>2, <1>3



----------------------------------------------------------------------------
(* The handlers, one by one.                                               *)

\* Jobs that are pending by their queue: new, to be run again, or moved to any
\* place but the last of their part.
LEMMA PendingJobs ==
    /\ \A q \in BeforeMasa : Pending(NewJob(q))
    /\ \A j : Pending(NextPoll(j))
    /\ \A j \in Job : j.queue \in BeforeMasa => Pending(Again(j)) /\ Pending(Dead(j))
    /\ \A j \in Job : j.queue \in BeforeMasa =>
           \A pc \in Pcs \ {"follow", "complete"} : Pending([j EXCEPT !.pc = pc])
<1>1. \A q \in BeforeMasa : Pending(NewJob(q))
  BY DEF NewJob, Pending, At
<1>2. ASSUME NEW j PROVE Pending(NextPoll(j))
  <2>1. NextPoll(j).queue = "controle_sandre_poll" /\ NextPoll(j).pc = "none"
    BY DEF NextPoll, NewJob
  <2> QED BY <2>1 DEF Pending, At, BeforeMasa
<1>3. ASSUME NEW j \in Job, j.queue \in BeforeMasa PROVE Pending(Again(j)) /\ Pending(Dead(j))
  <2>1. /\ Again(j).queue = j.queue /\ Again(j).pc = "none"
        /\ Dead(j).queue = j.queue /\ Dead(j).pc = "none"
    BY DEF Again, Dead, Job
  <2> QED BY <1>3, <2>1 DEF Pending, At
<1>4. ASSUME NEW j \in Job, j.queue \in BeforeMasa, NEW pc \in Pcs \ {"follow", "complete"}
      PROVE  Pending([j EXCEPT !.pc = pc])
  <2> DEFINE k == [j EXCEPT !.pc = pc]
  <2>1. k.queue = j.queue /\ k.pc = pc
    BY DEF Job
  <2> HIDE DEF k
  <2> QED BY <1>4, <2>1 DEF Pending, At
<1> QED BY <1>1, <1>2, <1>3, <1>4

\* The ways a handler keeps the depot pursued.
LEMMA GotoPursues ==
    ASSUME IInv, Pursued, NEW j \in DOMAIN jobs, NEW pc, Goto(j, pc),
           UNCHANGED <<dossier, masa>>, remote = "ack" => remote' = "ack",
           \/ pc \in Pcs \ {"follow", "complete"} /\ j.queue \in BeforeMasa
           \/ Pending([j EXCEPT !.pc = pc])
           \/ Settled'
           \/ depot'.status = depot.status /\ ~Pending(j)
    PROVE  Pursued'
<1>1. /\ [j EXCEPT !.pc = pc] \in DOMAIN jobs' /\ Leaves(j)
      /\ failed' = failed /\ faults' = faults
  BY GotoLeaves
<1>2. Lasting
  BY <1>1 DEF Lasting
<1>3. j \in Job
  BY JobFacts
<1>4. pc \in Pcs \ {"follow", "complete"} /\ j.queue \in BeforeMasa
          => Pending([j EXCEPT !.pc = pc])
  BY <1>3, PendingJobs
<1> QED BY <1>1, <1>2, <1>4, PursuedStep

LEMMA DonePursues ==
    ASSUME IInv, Pursued, NEW j \in DOMAIN jobs, Done(j),
           UNCHANGED <<dossier, masa, remote>>,
           \/ Settled'
           \/ depot'.status = depot.status /\ ~Pending(j)
    PROVE  Pursued'
<1>1. Leaves(j) /\ failed' = failed /\ (faults' <= 1 => faults <= 1)
  BY DoneLeaves
<1>2. Lasting
  BY <1>1 DEF Lasting
<1> QED BY <1>1, <1>2, PursuedStep

LEMMA DoneSendingPursues ==
    ASSUME IInv, Pursued, NEW j \in DOMAIN jobs, NEW new, DoneSending(j, new),
           UNCHANGED <<dossier, masa, remote>>,
           \/ Pending(new)
           \/ Settled'
           \/ depot'.status = depot.status /\ ~Pending(j)
    PROVE  Pursued'
<1>1. new \in DOMAIN jobs' /\ Leaves(j) /\ failed' = failed /\ (faults' <= 1 => faults <= 1)
  BY DoneSendingLeaves
<1>2. Lasting
  BY <1>1 DEF Lasting
<1> QED BY <1>1, <1>2, PursuedStep

LEMMA FailAttemptPursues ==
    ASSUME IInv, Pursued, NEW j \in DOMAIN jobs, FailAttempt(j), faults' <= 1 => faults <= 1,
           UNCHANGED <<dossier, masa, remote>>,
           \/ Settled'
           \/ faults' <= 1 => j.queue \in BeforeMasa /\ j.state = "active"
           \/ depot'.status = depot.status /\ ~Pending(j)
    PROVE  Pursued'
<1>1. /\ Leaves(j) /\ failed \subseteq failed'
      /\ j.state = "active" => Again(j) \in DOMAIN jobs' \/ failed' # {}
  BY FailAttemptLeaves
<1>2. Lasting
  BY <1>1 DEF Lasting
<1>3. CASE faults' <= 1 => j.queue \in BeforeMasa /\ j.state = "active"
  <2>1. CASE faults' <= 1
    <3>1. j.queue \in BeforeMasa => Pending(Again(j))
      BY JobFacts, PendingJobs
    <3>2. Settled' \/ \E k \in DOMAIN jobs' : Pending(k)
      BY <1>1, <1>3, <2>1, <3>1 DEF Settled
    <3> QED BY <1>1, <1>2, <3>2, PursuedStep
  <2>2. CASE ~(faults' <= 1)
    BY <2>2 DEF Pursued
  <2> QED BY <2>1, <2>2
<1> QED BY <1>1, <1>2, <1>3, PursuedStep

LEMMA ProcessFilePursues ==
    ASSUME IInv, Pursued, NEW j \in DOMAIN jobs, ProcessFile(j)
    PROVE  Pursued'
<1>1. UNCHANGED <<dossier, masa, remote>> /\ j.queue \in BeforeMasa /\ depot \in Depot
  BY DEF ProcessFile, StartProcessFile, CheckRights, CatchProcessFile, At, BeforeMasa, IInv, TypeOK
<1>2. CASE StartProcessFile(j)
  BY <1>1, <1>2, GotoPursues DEF StartProcessFile, Pcs
<1>3. CASE CheckRights(j)
  <2>1. CASE DoneSending(j, NewJob("controle_metier"))
    <3>1. Pending(NewJob("controle_metier"))
      BY PendingJobs DEF BeforeMasa
    <3> QED BY <1>1, <2>1, <3>1, DoneSendingPursues
  <2>2. CASE Goto(j, "catch")
    BY <1>1, <2>2, GotoPursues DEF Pcs
  <2>3. CASE depot' = [depot EXCEPT !.status = "REJETE", !.error = "DROITS",
                                    !.step = "CONTROLE_FAILED"] /\ Done(j)
    <3>1. Settled'
      BY <1>1, <2>3 DEF Settled, Depot
    <3>2. Done(j)
      BY <2>3
    <3> QED BY <1>1, <3>1, <3>2, DonePursues
  <2> QED BY <1>3, <2>1, <2>2, <2>3 DEF CheckRights
<1>4. CASE CatchProcessFile(j)
  <2>1. Settled'
    BY <1>1, <1>4 DEF CatchProcessFile, Settled, Depot
  <2> QED BY <1>1, <1>4, <2>1, FailAttemptPursues DEF CatchProcessFile
<1> QED BY <1>2, <1>3, <1>4 DEF ProcessFile

LEMMA ControleMetierPursues ==
    ASSUME IInv, Pursued, NEW j \in DOMAIN jobs, ControleMetier(j)
    PROVE  Pursued'
<1>1. UNCHANGED <<dossier, masa, remote>> /\ j.queue = "controle_metier" /\ depot \in Depot
      /\ j \in Job
  BY JobFacts DEF ControleMetier, StartControleMetier, ExecuteControles, ControleVerdict,
         FollowControle, RecordTechnicalError, RejectTechnically, At, IInv, TypeOK
<1>2. j.queue \in BeforeMasa
  BY <1>1 DEF BeforeMasa
<1>3. CASE StartControleMetier(j) \/ ExecuteControles(j) \/ RecordTechnicalError(j)
  <2>1. \E pc \in {"controls", "catch", "verdict", "reject"} : Goto(j, pc)
    BY <1>3 DEF StartControleMetier, ExecuteControles, RecordTechnicalError
  <2> QED BY <1>1, <1>2, <2>1, GotoPursues DEF Pcs
<1>4. CASE ControleVerdict(j)
  <2> DEFINE k == [j EXCEPT !.pc = "follow"]
  <2>1. k.queue = "controle_metier"
    BY <1>1 DEF Job
  <2>2. CASE dossier.controles = "valide"
    <3>1. Pending(k)
      BY <2>1, <2>2 DEF Pending, At, BeforeMasa
    <3> QED BY <1>1, <1>4, <3>1, GotoPursues DEF ControleVerdict
  <2>3. CASE dossier.controles # "valide"
    <3>1. Settled'
      BY <1>1, <1>4, <2>3 DEF ControleVerdict, Settled, Depot
    <3> QED BY <1>1, <1>4, <3>1, GotoPursues DEF ControleVerdict
  <2> QED BY <2>2, <2>3
<1>5. CASE FollowControle(j)
  <2>1. CASE dossier.controles = "valide"
    <3>1. DoneSending(j, NewJob("controle_sandre_upload"))
      BY <1>5, <2>1 DEF FollowControle
    <3>2. Pending(NewJob("controle_sandre_upload"))
      BY PendingJobs DEF BeforeMasa
    <3> QED BY <1>1, <3>1, <3>2, DoneSendingPursues
  <2>2. CASE dossier.controles # "valide"
    <3>1. ~Pending(j) /\ depot'.status = depot.status
      BY <1>5, <2>2 DEF FollowControle, Pending
    <3>2. DoneSending(j, NewJob("diffusion_rapport"))
      BY <1>5, <2>2 DEF FollowControle
    <3> QED BY <1>1, <3>1, <3>2, DoneSendingPursues
  <2> QED BY <2>1, <2>2
<1>6. CASE RejectTechnically(j)
  <2>1. Settled'
    BY <1>1, <1>6 DEF RejectTechnically, Settled, Depot
  <2>2. Done(j)
    BY <1>6 DEF RejectTechnically
  <2> QED BY <1>1, <2>1, <2>2, DonePursues
<1> QED BY <1>3, <1>4, <1>5, <1>6 DEF ControleMetier

\* A submission that throws for the last time rejects the depot; before, its
\* job is made again, unless the attempt had outlived its time.
LEMMA SandreUploadPursues ==
    ASSUME IInv, Ordinary, Pursued, NEW j \in DOMAIN jobs, SandreUpload(j)
    PROVE  Pursued'
<1>1. UNCHANGED <<dossier, masa, remote>> /\ j.queue = "controle_sandre_upload"
      /\ depot \in Depot /\ j \in Job
  BY JobFacts DEF SandreUpload, StartUpload, ValidateFile, EnqueuePoll, CatchUpload, At, IInv, TypeOK
<1>2. j.queue \in BeforeMasa
  BY <1>1 DEF BeforeMasa
<1>3. CASE StartUpload(j) \/ ValidateFile(j)
  <2>1. \E pc \in {"upload", "enqueue"} : Goto(j, pc)
    BY <1>3 DEF StartUpload, ValidateFile
  <2> QED BY <1>1, <1>2, <2>1, GotoPursues DEF Pcs
<1>4. CASE EnqueuePoll(j)
  <2>1. Pending(NewJob("controle_sandre_poll"))
    BY PendingJobs DEF BeforeMasa
  <2>2. DoneSending(j, NewJob("controle_sandre_poll"))
    BY <1>4 DEF EnqueuePoll
  <2> QED BY <1>1, <2>1, <2>2, DoneSendingPursues
<1>5. CASE CatchUpload(j)
  <2>1. faults' = faults /\ FailAttempt(j) /\ CatchesUpload(j)
    BY <1>5 DEF CatchUpload, CatchesUpload
  <2>2. CASE j.retryCount >= RetryLimit
    <3>1. Settled'
      BY <1>1, <1>5, <2>2 DEF CatchUpload, Settled, Depot
    <3> QED BY <1>1, <2>1, <3>1, FailAttemptPursues
  <2>3. CASE ~(j.retryCount >= RetryLimit)
    <3>1. faults' <= 1 => j.state = "active"
      BY <1>1, <2>1 DEF Ordinary, OrdinaryJob, CatchesUpload, At, Job
    <3> QED BY <1>1, <1>2, <2>1, <3>1, FailAttemptPursues
  <2> QED BY <2>2, <2>3
<1> QED BY <1>3, <1>4, <1>5 DEF SandreUpload



LEMMA SandrePollPursues ==
    ASSUME IInv, Pursued, NEW j \in DOMAIN jobs, SandrePoll(j)
    PROVE  Pursued'
<1>1. UNCHANGED <<dossier, masa, remote>> /\ j.queue = "controle_sandre_poll" /\ depot \in Depot
      /\ j \in Job
  BY JobFacts DEF SandrePoll, PollPending, PollAnswered, SandreVerdict, ReadyForSftp,
                  FollowPoll, CatchPoll, At, IInv, TypeOK
<1>2. j.queue \in BeforeMasa /\ Pending(NextPoll(j))
  BY <1>1, PendingJobs DEF BeforeMasa
<1>3. \A error : depot' = SandreFailed(error) => Settled'
  BY <1>1 DEF SandreFailed, Settled, Depot
<1>4. CASE PollPending(j) \/ CatchPoll(j)
  <2>1. (Settled' /\ Done(j)) \/ DoneSending(j, NextPoll(j))
    BY <1>3, <1>4 DEF PollPending, CatchPoll
  <2>2. CASE Settled' /\ Done(j)
    BY <1>1, <2>2, DonePursues
  <2>3. CASE DoneSending(j, NextPoll(j))
    BY <1>1, <1>2, <2>3, DoneSendingPursues
  <2> QED BY <2>1, <2>2, <2>3
<1>5. CASE PollAnswered(j)
  <2>1. \E pc \in {"abandon", "verdict"} : Goto(j, pc)
    BY <1>5 DEF PollAnswered
  <2> QED BY <1>1, <1>2, <2>1, GotoPursues DEF Pcs
<1>6. CASE SandreVerdict(j)
  <2>1. CASE Goto(j, "ready")
    BY <1>1, <1>2, <2>1, GotoPursues DEF Pcs
  <2>2. CASE Goto(j, "follow") /\ depot' = [depot EXCEPT !.status = "REJETE",
                                               !.controleSandreStatus = "FAILED",
                                               !.step = "CONTROLE_SANDRE_FAILED",
                                               !.etapeMetier = "CONTROLE_METIER"]
    <3>1. Settled' /\ Goto(j, "follow")
      BY <1>1, <2>2 DEF Settled, Depot
    <3> QED BY <1>1, <3>1, GotoPursues
  <2> QED BY <1>6, <2>1, <2>2 DEF SandreVerdict
<1>7. CASE ReadyForSftp(j)
  <2> DEFINE k == [j EXCEPT !.pc = "follow"]
  <2>1. k.queue = "controle_sandre_poll" /\ dossier.sandre = "conforme"
    BY <1>1, <1>7, JobFacts DEF Job, ReadyForSftp, At, Route
  <2>2. Pending(k) /\ Goto(j, "follow")
    BY <1>7, <2>1 DEF ReadyForSftp, Pending, At, BeforeMasa
  <2> QED BY <1>1, <2>2, GotoPursues
<1>8. CASE FollowPoll(j)
  <2>1. CASE dossier.sandre = "conforme"
    <3>1. DoneSending(j, NewJob("send_to_sftp")) /\ Pending(NewJob("send_to_sftp"))
      BY <1>8, <2>1, PendingJobs DEF FollowPoll, BeforeMasa
    <3> QED BY <1>1, <3>1, DoneSendingPursues
  <2>2. CASE dossier.sandre # "conforme"
    <3>1. ~Pending(j) /\ depot'.status = depot.status
      BY <1>8, <2>2 DEF FollowPoll, Pending
    <3>2. DoneSending(j, NewJob("diffusion_rapport"))
      BY <1>8, <2>2 DEF FollowPoll
    <3> QED BY <1>1, <3>1, <3>2, DoneSendingPursues
  <2> QED BY <2>1, <2>2
<1> QED BY <1>4, <1>5, <1>6, <1>7, <1>8 DEF SandrePoll

LEMMA SendToSftpPursues ==
    ASSUME IInv, Pursued, NEW j \in DOMAIN jobs, SendToSftp(j)
    PROVE  Pursued'
<1>1. UNCHANGED <<dossier, masa>> /\ j.queue \in BeforeMasa /\ depot \in Depot
  BY DEF SendToSftp, StartSftp, SendFile, SendAck, CompleteSftp, CatchSftp, At, BeforeMasa,
         IInv, TypeOK
<1>2. remote = "ack" => remote' = "ack"
  BY DEF SendToSftp, StartSftp, SendFile, SendAck, CompleteSftp, CatchSftp
<1>3. CASE StartSftp(j) \/ SendFile(j)
  <2>1. \E pc \in {"send", "ack", "catch"} : Goto(j, pc)
    BY <1>3 DEF StartSftp, SendFile
  <2> QED BY <1>1, <1>2, <2>1, GotoPursues DEF Pcs
<1>4. CASE SendAck(j)
  <2>1. Settled' /\ Goto(j, "complete")
    BY <1>4 DEF SendAck, Settled
  <2> QED BY <1>1, <1>2, <2>1, GotoPursues
<1>5. CASE CompleteSftp(j)
  <2>1. depot'.status = depot.status
    BY <1>1, <1>5 DEF CompleteSftp, Depot
  <2>2. ~Pending(j) /\ Done(j) /\ remote' = remote
    BY <1>5 DEF CompleteSftp, Pending
  <2> QED BY <1>1, <2>1, <2>2, DonePursues
<1>6. CASE CatchSftp(j)
  <2>1. Settled' /\ remote' = remote /\ faults' = faults /\ FailAttempt(j)
    BY <1>1, <1>6 DEF CatchSftp, Settled, Depot
  <2> QED BY <1>1, <2>1, FailAttemptPursues
<1> QED BY <1>3, <1>4, <1>5, <1>6 DEF SendToSftp

\* Once MASA has answered there is nothing left to pursue.
LEMMA AnsweredPursued ==
    ASSUME masa' # "none"
    PROVE  Pursued'
BY DEF Pursued, Settled

LEMMA ProcessMasaPursues ==
    ASSUME IInv, Pursued, NEW j \in DOMAIN jobs, ProcessMasa(j)
    PROVE  Pursued'
<1>1. j.queue = "process_after_masa_webhook" /\ masa' = masa
  BY DEF ProcessMasa, StartMasa, FollowMasa, At
<1>2. masa # "none"
  BY <1>1, JobFacts DEF Route
<1> QED BY <1>1, <1>2, AnsweredPursued

LEMMA DiffuseRapportPursues ==
    ASSUME IInv, Pursued, NEW j \in DOMAIN jobs, DiffuseRapport(j)
    PROVE  Pursued'
<1>1. j.queue = "diffusion_rapport" /\ UNCHANGED <<dossier, masa, remote>> /\ depot \in Depot
  BY DEF DiffuseRapport, GenerateReport, SaveRapportPath, SendToAgence, EnqueueMail,
         MarkMail, At, IInv, TypeOK
<1>2. ~Pending(j)
  BY <1>1 DEF Pending, BeforeMasa
<1>3. depot'.status = depot.status
  BY <1>1 DEF DiffuseRapport, GenerateReport, SaveRapportPath, SendToAgence, EnqueueMail,
              MarkMail, Depot
<1>4. CASE \E pc : Goto(j, pc)
  BY <1>1, <1>2, <1>3, <1>4, GotoPursues
<1>5. CASE Done(j)
  BY <1>1, <1>2, <1>3, <1>5, DonePursues
<1>6. CASE \E pc, new : GotoSending(j, pc, new)
  <2>1. Leaves(j) /\ failed' = failed /\ faults' = faults
    BY <1>6, GotoSendingLeaves
  <2>2. Lasting
    BY <1>1, <2>1 DEF Lasting
  <2> QED BY <1>2, <1>3, <2>1, <2>2, PursuedStep
<1>7. (\E pc : Goto(j, pc)) \/ Done(j) \/ \E pc, new : GotoSending(j, pc, new)
  BY DEF DiffuseRapport, GenerateReport, SaveRapportPath, SendToAgence, EnqueueMail, MarkMail
<1> QED BY <1>4, <1>5, <1>6, <1>7

LEMMA SendMailPursues ==
    ASSUME IInv, Pursued, NEW j \in DOMAIN jobs, SendMail(j)
    PROVE  Pursued'
<1>1. j.queue = "email" /\ UNCHANGED <<dossier, masa, remote, depot>> /\ Done(j)
  BY DEF SendMail, At
<1>2. ~Pending(j) /\ depot'.status = depot.status
  BY <1>1 DEF Pending, BeforeMasa
<1> QED BY <1>1, <1>2, DonePursues

LEMMA SchedulePursues ==
    ASSUME IInv, Pursued, NEW j \in DOMAIN jobs, Schedule(j)
    PROVE  Pursued'
<1>1. UNCHANGED <<dossier, masa, remote, depot>> /\ j \in Job /\ faults' = faults
  BY JobFacts DEF Schedule, Fetch, ExpireDead
<1>2. CASE Fetch(j)
  <2> DEFINE k == [j EXCEPT !.state = "active", !.pc = "start"]
  <2>1. k.queue = j.queue /\ k.pc = "start"
    BY <1>1 DEF Job
  <2>2. k \in DOMAIN jobs' /\ Leaves(j) /\ failed' = failed
    BY <1>2, BecomeLeaves DEF Fetch, Leaves
  <2> HIDE DEF k
  <2>3. Pending(j) => Pending(k)
    BY <2>1 DEF Pending, At
  <2>4. Lasting
    BY <1>1, <2>2 DEF Lasting
  <2> QED BY <1>1, <2>2, <2>3, <2>4, PursuedStep
<1>3. CASE ExpireDead(j)
  <2>1. DOMAIN jobs \ {j} \subseteq DOMAIN BagRemove(jobs, j)
    BY RemoveLeaves
  <2>2. /\ Leaves(j) /\ failed \subseteq failed'
        /\ Again(j) \in DOMAIN jobs' \/ failed' # {}
    BY <1>3, <2>1, RequeueLeaves DEF ExpireDead
  <2>3. Pending(j) => Pending(Again(j))
    BY <1>1, PendingJobs DEF Pending
  <2>4. Lasting
    BY <1>1, <2>2 DEF Lasting
  <2>5. failed' # {} => Settled'
    BY DEF Settled
  <2> QED BY <1>1, <2>2, <2>3, <2>4, <2>5, PursuedStep
<1> QED BY <1>2, <1>3 DEF Schedule

\* One failure: a job is made again, or goes on beside its next attempt, or its
\* handler catches what was thrown; in each case it is still pending.
LEMMA FailPursues ==
    ASSUME IInv, Ordinary, Pursued, Fail
    PROVE  Pursued'
<1>1. UNCHANGED <<dossier, masa, remote, depot>>
  BY DEF Fail
<1>2. faults \in Nat /\ faults' = faults + 1
  BY FailIsFault DEF IInv, TypeOK
<1>3. faults' <= 1 => faults = 0 /\ faults <= 1
  BY <1>2
<1>4. failed' # {} => Settled'
  BY DEF Settled
<1>5. ASSUME NEW j \in DOMAIN jobs, Outlive(j) PROVE Pursued'
  <2> DEFINE k == [j EXCEPT !.state = "expired"]
             others == Become(j, k)
  <2>1. k.queue = j.queue /\ k.pc = j.pc
    BY JobFacts DEF Job
  <2>2. k \in DOMAIN others /\ DOMAIN jobs \ {j} \subseteq DOMAIN others
    BY BecomeLeaves
  <2>3. Requeue(j, others)
    BY <1>5 DEF Outlive
  <2> HIDE DEF k, others
  <2>4. Leaves(j) /\ failed \subseteq failed' /\ k \in DOMAIN jobs'
    BY <2>2, <2>3, RequeueLeaves
  <2>5. Pending(j) => Pending(k)
    BY <2>1 DEF Pending, At
  <2>6. Lasting
    BY <1>1, <2>4 DEF Lasting
  <2> QED BY <1>1, <1>3, <2>4, <2>5, <2>6, PursuedStep
<1>6. ASSUME NEW j \in DOMAIN jobs, Throw(j) PROVE Pursued'
  <2>1. j \in Job /\ j.pc # "none"
    BY <1>6, JobFacts DEF Throw
  <2>2. CASE Resume(j) # "out"
    <3> DEFINE k == [j EXCEPT !.pc = Resume(j)]
    <3>1. Resume(j) \in Pcs \ {"follow", "complete"}
      BY <2>2 DEF Resume, Pcs
    <3>2. Pending(j) => Pending(k)
      BY <2>1, <3>1, PendingJobs DEF Pending
    <3>3. jobs' = Become(j, k) /\ failed' = failed
      BY <1>6, <2>2 DEF Throw
    <3> HIDE DEF k
    <3>4. k \in DOMAIN jobs' /\ Leaves(j)
      BY <3>3, BecomeLeaves DEF Leaves
    <3>5. Lasting
      BY <1>1, <3>3 DEF Lasting
    <3> QED BY <1>1, <1>3, <3>2, <3>4, <3>5, PursuedStep
  <2>3. CASE Resume(j) = "out"
    <3>1. FailAttempt(j)
      BY <1>6, <2>3 DEF Throw
    <3>2. faults' <= 1 => j.state = "active"
      BY <1>3, <2>1 DEF Ordinary, OrdinaryJob, Job
    <3>3. j.queue \notin BeforeMasa => ~Pending(j)
      BY DEF Pending
    <3>4. faults' <= 1 => faults <= 1
      BY <1>3
    <3>5. depot'.status = depot.status
      BY <1>1
    <3> QED BY <1>1, <3>1, <3>2, <3>3, <3>4, <3>5, FailAttemptPursues
  <2> QED BY <2>2, <2>3
<1>7. ASSUME Crash PROVE Pursued'
  <2>1. failed' = failed
        /\ DOMAIN jobs' = {Dead(j) : j \in {i \in DOMAIN jobs : i.state # "expired"}}
    BY <1>7 DEF Crash
  <2>2. Settled => Settled'
    BY <1>1, <2>1 DEF Settled
  <2>3. ASSUME NEW j \in DOMAIN jobs, Pending(j), faults = 0
        PROVE  Dead(j) \in DOMAIN jobs' /\ Pending(Dead(j))
    <3>1. j.state # "expired"
      BY <2>3 DEF Ordinary, OrdinaryJob
    <3>2. Pending(Dead(j))
      BY <2>3, JobFacts, PendingJobs DEF Pending
    <3> QED BY <2>1, <3>1, <3>2
  <2>4. \A k : Pending(k) => Pending(k)'
    BY <1>1 DEF Pending, At
  <2>5. CASE faults' <= 1
    <3>1. faults = 0 /\ (Settled \/ \E j \in DOMAIN jobs : Pending(j))
      BY <1>3, <2>5 DEF Pursued
    <3>2. Settled' \/ \E k \in DOMAIN jobs' : Pending(k)
      BY <2>2, <2>3, <3>1
    <3> QED BY <2>4, <3>2 DEF Pursued
  <2>6. CASE ~(faults' <= 1)
    BY <2>6 DEF Pursued
  <2> QED BY <2>5, <2>6
<1> QED BY <1>5, <1>6, <1>7 DEF Fail

LEMMA WebhookPursues ==
    ASSUME IInv, Pursued, NEW c \in Calls, Webhook(c)
    PROVE  Pursued'
<1>1. calls[c].pc \in {"save", "send"} \/ remote = "ack"
  BY DEF Webhook, WebhookCall, SaveMasaRetour, EnqueueMasa, FailCall
<1>2. remote' = "ack"
  BY <1>1 DEF Webhook, IInv, PInv, Answered
<1> QED BY <1>2 DEF Pursued, Settled

----------------------------------------------------------------------------
(* The theorems.                                                           *)

OInv == IInv /\ Ordinary /\ Single /\ Pursued

LEMMA InitOutcome == Init => OInv
<1> SUFFICES ASSUME Init PROVE OInv
  OBVIOUS
<1> DEFINE first == NewJob("process_file")
<1>1. first.queue = "process_file" /\ Blank(first) /\ Pending(first)
  BY NewJobBlank, PendingJobs DEF NewJob, Queues, BeforeMasa
<1>2. jobs = BagAdd(EmptyBag, first) /\ DOMAIN EmptyBag = {}
  BY DEF Init, EmptyBag, SetToBag
<1> HIDE DEF first
<1>3. DOMAIN jobs = {first}
  <2>1. DOMAIN BagAdd(EmptyBag, first) = DOMAIN EmptyBag \cup {first}
    BY BagDomains
  <2> QED BY <1>2, <2>1
<1>4. Ordinary
  BY <1>1, <1>3, BlankOrdinary DEF Ordinary
<1>5. Pursued
  BY <1>1, <1>3 DEF Pursued
<1>6. Single
  <2>1. Carriers(EmptyBag) = {}
    BY <1>2 DEF Carriers
  <2>2. Lone(jobs)
    BY <1>2, <2>1, LoneAdded
  <2>3. Mailed = 0 /\ Mailed <= 1
    BY DEF Init, Mailed, Kinds
  <2>4. remote # "ack" /\ \A c \in Calls : calls[c].pc # "send"
    BY DEF Init
  <2> QED BY <2>2, <2>3, <2>4 DEF Single
<1> QED BY <1>4, <1>5, <1>6, InitInvariant DEF OInv

LEMMA NextOutcome == OInv /\ [Next]_vars => OInv'
<1> SUFFICES ASSUME OInv, [Next]_vars PROVE OInv'
  OBVIOUS
<1>1. IInv /\ Ordinary /\ Single /\ Pursued /\ IInv'
  BY NextInvariant DEF OInv
<1>2. faults' = 0 => faults = 0
  BY <1>1, FaultsGrow
<1>3. ASSUME NEW j \in DOMAIN jobs, Schedule(j) PROVE OInv'
  <2>1. Ordinary' /\ Pursued'
    BY <1>1, <1>3, ScheduleOrdinary, SchedulePursues
  <2>2. faults' = 0 => Single'
    BY <1>1, <1>2, <1>3, ScheduleSingle
  <2> QED BY <1>1, <2>1, <2>2 DEF OInv, Single
<1>4. ASSUME NEW j \in DOMAIN jobs, Handle(j) PROVE OInv'
  <2>1. Ordinary'
    BY <1>1, <1>4, HandleOrdinary
  <2>2. Pursued'
    BY <1>1, <1>4, ProcessFilePursues, ControleMetierPursues, SandreUploadPursues,
       SandrePollPursues, SendToSftpPursues, ProcessMasaPursues, DiffuseRapportPursues,
       SendMailPursues DEF Handle
  <2>3. faults' = 0 => Single'
    BY <1>1, <1>2, <1>4, ProcessFileSingle, ControleMetierSingle, SandreUploadSingle,
       SandrePollSingle, SendToSftpSingle, ProcessMasaSingle, DiffuseRapportSingle,
       SendMailSingle DEF Handle
  <2> QED BY <1>1, <2>1, <2>2, <2>3 DEF OInv, Single
<1>5. CASE Fail
  <2>1. Ordinary' /\ Pursued' /\ faults' # 0
    BY <1>1, <1>5, FailOrdinary, FailPursues, FailIsFault
  <2> QED BY <1>1, <2>1 DEF OInv, Single
<1>6. ASSUME NEW c \in Calls, Webhook(c) PROVE OInv'
  <2>1. Ordinary' /\ Pursued'
    BY <1>1, <1>6, WebhookOrdinary, WebhookPursues
  <2>2. faults' = 0 => Single'
    BY <1>1, <1>2, <1>6, WebhookSingle
  <2> QED BY <1>1, <2>1, <2>2 DEF OInv, Single
<1>7. CASE UNCHANGED vars
  <2>1. Ordinary'
    BY <1>1, <1>7 DEF vars, Ordinary
  <2>2. Pursued'
    BY <1>1, <1>7 DEF vars, Pursued, Settled, Pending, At
  <2>3. Single'
    BY <1>1, <1>7 DEF vars, Single, Unsent, Mailed, Lone
  <2> QED BY <1>1, <2>1, <2>2, <2>3 DEF OInv
<1> QED BY <1>3, <1>4, <1>5, <1>6, <1>7 DEF Next

\* The invariant of the baton holds of every reachable state.
THEOREM OutcomeInvariant == Spec => []OInv
<1> QED BY InitOutcome, NextOutcome, PTL DEF Spec

\* A depot en cours that MASA has not answered has a job, is at the Agent
\* Verseau or used up its retries, wherever a single failure strikes.
THEOREM NoSilentStopHolds == Spec => []NoSilentStop
<1>1. OInv => NoSilentStop
  <2> SUFFICES ASSUME OInv PROVE NoSilentStop
    OBVIOUS
  <2>1. ASSUME NEW j \in DOMAIN jobs PROVE Alive
    <3>1. DOMAIN EmptyBag = {}
      BY DEF EmptyBag, SetToBag
    <3> QED BY <3>1 DEF Alive
  <2> QED BY <2>1 DEF OInv, Pursued, Settled, NoSilentStop
<1> QED BY <1>1, OutcomeInvariant, PTL

\* While nothing has failed the depositor gets one mail at most, however the
\* calls of the webhook run beside each other and beside the transfer.
THEOREM OneMailHolds == Spec => []OneMail
<1>1. OInv => OneMail
  BY DEF OInv, Single, Mailed, OneMail
<1> QED BY <1>1, OutcomeInvariant, PTL

\* While nothing has failed, an integrated depot stays so: the jobs before the
\* delivery are over, but for the end of the transfer, which leaves the status.
THEOREM DecisionIsFinalHolds == Spec => DecisionIsFinal
<1> DEFINE Final == faults' = 0 /\ depot.status \in {"INTEGRE", "INTEGRE_PARTIELLEMENT"}
                        => depot'.status = depot.status
<1>1. OInv /\ [Next]_vars => [Final]_vars
  <2> SUFFICES ASSUME OInv, Next, faults' = 0,
                      depot.status \in {"INTEGRE", "INTEGRE_PARTIELLEMENT"}
               PROVE  depot'.status = depot.status
    OBVIOUS
  <2>1. IInv /\ Single /\ faults = 0 /\ depot \in Depot
    BY FaultsGrow DEF OInv, IInv, TypeOK
  <2>2. masa # "none" /\ depot.status = StatusOf(masa) /\ remote = "ack"
    BY <2>1 DEF IInv, PInv, Integrated, Answered
  <2>3. ASSUME NEW j \in DOMAIN jobs, j.queue \in BeforeMasa
        PROVE  At(j, "send_to_sftp", "complete")
    <3>1. \A k \in Carriers(jobs) : k.queue \in AfterMasa
      BY <2>1, <2>2 DEF Single
    <3>2. j \notin Carriers(jobs)
      BY <2>3, <3>1 DEF BeforeMasa, AfterMasa
    <3> QED BY <2>3, <3>2 DEF Carriers, Carries, At, BeforeMasa
  <2>4. ASSUME NEW j \in DOMAIN jobs, Handle(j) PROVE depot'.status = depot.status
    <3>1. CASE ProcessFile(j)
      BY <2>3, <3>1
         DEF ProcessFile, StartProcessFile, CheckRights, CatchProcessFile, At, BeforeMasa
    <3>2. CASE ControleMetier(j)
      BY <2>3, <3>2
         DEF ControleMetier, StartControleMetier, ExecuteControles, ControleVerdict,
             FollowControle, RecordTechnicalError, RejectTechnically, At, BeforeMasa
    <3>3. CASE SandreUpload(j)
      BY <2>3, <3>3
         DEF SandreUpload, StartUpload, ValidateFile, EnqueuePoll, CatchUpload, At, BeforeMasa
    <3>4. CASE SandrePoll(j)
      BY <2>3, <3>4
         DEF SandrePoll, PollPending, PollAnswered, SandreVerdict, ReadyForSftp, FollowPoll,
             CatchPoll, At, BeforeMasa
    <3>5. CASE SendToSftp(j)
      <4>1. CompleteSftp(j)
        BY <2>3, <3>5
           DEF SendToSftp, StartSftp, SendFile, SendAck, CatchSftp, At, BeforeMasa
      <4> QED BY <2>1, <4>1 DEF CompleteSftp, Depot
    <3>6. CASE ProcessMasa(j)
      BY <2>1, <2>2, <3>6 DEF ProcessMasa, StartMasa, FollowMasa, Depot
    <3>7. CASE DiffuseRapport(j)
      BY <2>1, <3>7 DEF DiffuseRapport, GenerateReport, SaveRapportPath, SendToAgence,
                        EnqueueMail, MarkMail, Depot
    <3>8. CASE SendMail(j)
      BY <3>8 DEF SendMail
    <3> QED BY <2>4, <3>1, <3>2, <3>3, <3>4, <3>5, <3>6, <3>7, <3>8 DEF Handle
  <2>5. (\E j \in DOMAIN jobs : Schedule(j)) \/ Fail \/ (\E c \in Calls : Webhook(c))
            => depot' = depot
    BY DEF Schedule, Fail, Webhook
  <2> QED BY <2>4, <2>5 DEF Next
<1> QED BY <1>1, OutcomeInvariant, PTL DEF Spec, DecisionIsFinal

=============================================================================
