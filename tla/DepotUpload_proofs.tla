------------------------ MODULE DepotUpload_proofs -------------------------
(***************************************************************************)
(* Proofs about DepotUpload, for every set of depots, users and contents,  *)
(* every TTL, delay and skew, and PUTs of any length.                      *)
(***************************************************************************)
EXTENDS DepotUpload, TLAPS

\* The cleanup may have read its clock past the deadline.
Late(d) == time + ClockSkew >= Deadline(row[d])

\* A depot without an upload session takes no part in anything.
NoSession(d) == row[d].uploadExpiresAt = 0 =>
    /\ row[d].step = "NONE" \/ (row[d].path /\ row[d].step = "PENDING")
    /\ row[d].step = "NONE" => ~row[d].path
    /\ row[d].status # "REJETE"
    /\ puts[d] = {}
    /\ tx[d].pc = "idle"
    /\ cleanupJob[d].state = "absent"
    /\ processFile[d] = << >>

Session(d) == row[d].uploadExpiresAt # 0 =>
    /\ row[d].userId \in Users
    /\ row[d].step # "NONE"
    /\ ~row[d].path => processFile[d] = << >>
    /\ row[d].path => /\ processFile[d] = <<row[d].userId>>
                      /\ final[d] \in WellFormed

\* What a confirmation under way has established.
Confirming(d) == tx[d].pc \in Completing =>
    /\ ~row[d].path
    /\ tx[d].user = row[d].userId
    /\ tx[d].pc = "copy" => tx[d].etag \in WellFormed
    /\ tx[d].pc = "confirm" => final[d] \in WellFormed

\* A PUT still in flight was accepted before its URL expired.
InFlight(d) == \A p \in puts[d] : p.since < row[d].uploadExpiresAt

\* What a cleanup under way has established.
CleaningUp(d) ==
    /\ tx[d].pc \in Cleaning => Late(d)
    /\ tx[d].pc \in {"final", "clean"} => staging[d] = NoContent \/ d \in slow
    /\ tx[d].pc = "final" => ~row[d].path
    /\ tx[d].pc = "clean" => row[d].path \/ final[d] = NoContent

\* What a cleanup that was committed leaves: only a slow PUT brings an object
\* back, and only a confirmation by a clock that is behind makes use of it.
Ended(d) == row[d].status = "REJETE" \/ cleanupJob[d].state = "completed"

CleanedUp(d) == Ended(d) =>
    /\ Late(d)
    /\ staging[d] = NoContent \/ d \in slow
    /\ row[d].path \/ final[d] = NoContent \/ Overtaken(d)
    /\ tx[d].pc \in Completing => ClockSkew > 0
    /\ tx[d].pc \in {"copy", "confirm"} => Overtaken(d)
    /\ row[d].status = "REJETE" => ~row[d].path \/ Overtaken(d)
    /\ ~row[d].path => row[d].status = "REJETE"

DInv(d) == NoSession(d) /\ Session(d) /\ Confirming(d) /\ InFlight(d)
           /\ CleaningUp(d) /\ CleanedUp(d)

\* The inductive invariant.
IInv == TypeOK /\ \A d \in Depots : DInv(d)

----------------------------------------------------------------------------
\* Everything that concerns depot e stays as it is.
Frame(e) ==
    /\ row'[e] = row[e]
    /\ staging'[e] = staging[e]
    /\ final'[e] = final[e]
    /\ puts'[e] = puts[e]
    /\ e \in slow' <=> e \in slow
    /\ tx'[e] = tx[e]
    /\ cleanupJob'[e] = cleanupJob[e]
    /\ processFile'[e] = processFile[e]

\* A step that does not touch a depot, nor time, keeps its invariant.
LEMMA FrameKeeps ==
    ASSUME NEW e \in Depots, DInv(e), Frame(e), time' = time
    PROVE  DInv(e)'
<1>1. NoSession(e)' BY DEF DInv, Frame, NoSession
<1>2. Session(e)' BY DEF DInv, Frame, Session
<1>3. Confirming(e)' BY DEF DInv, Frame, Confirming
<1>4. InFlight(e)' BY DEF DInv, Frame, InFlight
<1>5. CleaningUp(e)' BY DEF DInv, Frame, CleaningUp, Late, Deadline
<1>6. CleanedUp(e)'
  BY DEF DInv, Frame, CleanedUp, Ended, Late, Deadline, Overtaken
<1> QED BY <1>1, <1>2, <1>3, <1>4, <1>5, <1>6 DEF DInv

\* Once the cleanup may have started, every PUT in flight is a slow one: this
\* is what the delay before the cleanup is for.
LEMMA LatePutIsSlow ==
    ASSUME TypeOK, NEW d \in Depots, InFlight(d), Late(d), NEW p \in puts[d]
    PROVE  Slow(p)
<1>1. /\ time \in Int /\ p.since \in Int
      /\ row[d].uploadExpiresAt \in Int
  BY DEF TypeOK, Put, Row
<1>2. p.since < row[d].uploadExpiresAt BY DEF InFlight
<1> QED BY <1>1, <1>2, TimesAssumption DEF Late, Deadline, Slow, Slack

----------------------------------------------------------------------------
\* What the constants contribute to the arithmetic.
LEMMA TimesAreInts ==
    /\ TTL \in Int /\ TTL > 0
    /\ CleanupDelay \in Int
    /\ ClockSkew \in Int /\ ClockSkew >= 0
    /\ RetryLimit \in Int /\ RetryDelay \in Int
BY TimesAssumption

\* A retried job is a job.
LEMMA RetriedType ==
    ASSUME time \in Nat, NEW job \in CleanupJob
    PROVE  Retried(job) \in CleanupJob
<1>1. CASE job.retryCount < RetryLimit
  <2>1. /\ job.retryCount + 1 \in Nat
        /\ time + RetryDelay \in Int
    BY TimesAreInts DEF CleanupJob
  <2> QED BY <1>1, <2>1 DEF Retried, CleanupJob
<1>2. CASE ~(job.retryCount < RetryLimit)
  BY <1>2 DEF Retried, CleanupJob
<1> QED BY <1>1, <1>2

\* The row a session starts with.
LEMMA FreshRowType ==
    ASSUME time \in Nat, NEW u \in Users
    PROVE  [NoRow EXCEPT !.step = "UPLOADING_TO_S3",
                         !.stepHistory = <<"UPLOADING_TO_S3">>,
                         !.uploadExpiresAt = time + TTL, !.userId = u] \in Row
<1>1. <<"UPLOADING_TO_S3">> \in Seq(Steps) BY DEF Steps
<1>2. time + TTL \in Int BY TimesAreInts
<1> QED BY <1>1, <1>2 DEF NoRow, Row, Steps, Statuses

\* The row a confirmation leaves.
LEMMA ConfirmedRowType ==
    ASSUME NEW r \in Row
    PROVE  [r EXCEPT !.path = TRUE, !.step = "PENDING",
                     !.stepHistory = Append(@, "PENDING")] \in Row
<1>1. Append(r.stepHistory, "PENDING") \in Seq(Steps) BY DEF Row, Steps
<1> QED BY <1>1 DEF Row, Steps

LEMMA TypeInit == Init => TypeOK
<1> SUFFICES ASSUME Init PROVE TypeOK OBVIOUS
<1>1. NoRow \in Row BY DEF NoRow, Row, Steps, Statuses
<1>2. \A u \in Users : LegacyRow(u) \in Row
  BY <1>1 DEF LegacyRow, NoRow, Row, Steps, Statuses
<1>3. NoTx \in Tx BY DEF NoTx, Tx
<1>4. NoJob \in CleanupJob BY DEF NoJob, CleanupJob
<1> QED BY <1>1, <1>2, <1>3, <1>4 DEF Init, TypeOK, Replies

\* Every step keeps the types.
LEMMA TypeNext == TypeOK /\ [Next]_vars => TypeOK'
<1> SUFFICES ASSUME TypeOK, [Next]_vars PROVE TypeOK' OBVIOUS
<1> USE DEF TypeOK
<1>0. NoTx \in Tx BY DEF NoTx, Tx
<1>j. ASSUME NEW d \in Depots PROVE Retried(cleanupJob[d]) \in CleanupJob
  BY RetriedType
<1>1. CASE UNCHANGED vars BY <1>1 DEF vars
<1>2. CASE Tick BY <1>2 DEF Tick
<1>3. ASSUME NEW d \in Depots, NEW u \in Users, Initialize(d, u) PROVE TypeOK'
  <2>1. [NoRow EXCEPT !.step = "UPLOADING_TO_S3",
                      !.stepHistory = <<"UPLOADING_TO_S3">>,
                      !.uploadExpiresAt = time + TTL, !.userId = u] \in Row
    BY FreshRowType
  <2>2. [state |-> "created", startAfter |-> time + TTL + CleanupDelay,
         retryCount |-> 0] \in CleanupJob
    BY TimesAreInts DEF CleanupJob
  <2> QED BY <1>3, <2>1, <2>2 DEF Initialize
<1>4. ASSUME NEW d \in Depots, NEW c \in Contents, StartPut(d, c) PROVE TypeOK'
  <2>1. [content |-> c, since |-> time] \in Put BY DEF Put
  <2> QED BY <1>4, <2>1 DEF StartPut
<1>5. ASSUME NEW d \in Depots, NEW p \in puts[d], FinishPut(d, p) PROVE TypeOK'
  <2>1. p.content \in Contents BY DEF Put
  <2> QED BY <1>5, <2>1 DEF FinishPut
<1>6. ASSUME NEW d \in Depots, NEW u \in Users, StartComplete(d, u) PROVE TypeOK'
  <2>1. [NoTx EXCEPT !.pc = "head", !.user = u] \in Tx BY DEF NoTx, Tx
  <2>2. RowAnswer(row[d], u, time) \in Replies \cup {"proceed"}
    BY DEF RowAnswer, Replies
  <2> QED BY <1>6, <2>1, <2>2 DEF StartComplete
<1>7. ASSUME NEW d \in Depots, AbortComplete(d) PROVE TypeOK'
  BY <1>0, <1>7 DEF AbortComplete, Rollback, Replies
<1>8. ASSUME NEW d \in Depots, HeadStaging(d) PROVE TypeOK'
  <2>1. CASE Rollback(d, "conflict") BY <1>0, <2>1 DEF Rollback, Replies
  <2>2. CASE Rollback(d, "mismatch") BY <1>0, <2>2 DEF Rollback, Replies
  <2>3. CASE /\ tx' = [tx EXCEPT ![d].pc = "copy", ![d].etag = staging[d]]
             /\ UNCHANGED <<time, row, staging, final, puts, slow, cleanupJob,
                            processFile, reply>>
    BY <2>3 DEF Tx
  <2> QED BY <1>8, <2>1, <2>2, <2>3 DEF HeadStaging
<1>9. ASSUME NEW d \in Depots, CopyToFinal(d) PROVE TypeOK'
  <2>1. CASE Rollback(d, "error") BY <1>0, <2>1 DEF Rollback, Replies
  <2>2. CASE /\ final' = [final EXCEPT ![d] = staging[d]]
             /\ tx' = [tx EXCEPT ![d].pc = "confirm"]
             /\ UNCHANGED <<time, row, staging, puts, slow, cleanupJob,
                            processFile, reply>>
    BY <2>2 DEF Tx
  <2> QED BY <1>9, <2>1, <2>2 DEF CopyToFinal
<1>10. ASSUME NEW d \in Depots, CommitComplete(d) PROVE TypeOK'
  <2>1. tx[d].user \in Users \cup {NoUser} BY DEF Tx
  <2>2. [row[d] EXCEPT !.path = TRUE, !.step = "PENDING",
                       !.stepHistory = Append(@, "PENDING")] \in Row
    BY ConfirmedRowType
  <2>3. row' \in [Depots -> Row] BY <1>10, <2>2 DEF CommitComplete
  <2>4. processFile' \in [Depots -> Seq(Users \cup {NoUser})]
    BY <1>10, <2>1 DEF CommitComplete
  <2> QED BY <1>0, <1>10, <2>3, <2>4 DEF CommitComplete, Replies
<1>11. ASSUME NEW d \in Depots, StartCleanup(d) PROVE TypeOK'
  <2>1. /\ time' = time /\ row' = row /\ staging' = staging /\ final' = final
        /\ puts' = puts /\ slow' = slow /\ processFile' = processFile
        /\ reply' = reply
    BY <1>11 DEF StartCleanup
  <2>2. tx' \in [Depots -> Tx]
    <3>1. [tx[d] EXCEPT !.pc = "staging"] \in Tx BY DEF Tx
    <3> QED BY <1>11, <3>1 DEF StartCleanup
  <2>3. cleanupJob' \in [Depots -> CleanupJob]
    <3>1. [cleanupJob[d] EXCEPT !.state = "active"] \in CleanupJob
      BY DEF CleanupJob
    <3> QED BY <1>11, <1>j, <3>1 DEF StartCleanup
  <2> QED BY <2>1, <2>2, <2>3
<1>12. ASSUME NEW d \in Depots, DeleteStaging(d) PROVE TypeOK'
  <2>1. ASSUME NEW pc \in {"clean", "final"}
        PROVE [tx[d] EXCEPT !.pc = pc] \in Tx
    BY DEF Tx
  <2>2. tx' \in [Depots -> Tx] BY <1>12, <2>1 DEF DeleteStaging
  <2> QED BY <1>12, <2>2 DEF DeleteStaging
<1>13. ASSUME NEW d \in Depots, DeleteFinal(d) PROVE TypeOK'
  BY <1>13 DEF DeleteFinal, Tx
<1>14. ASSUME NEW d \in Depots, CommitCleanup(d) PROVE TypeOK'
  <2>1. row' \in [Depots -> Row]
    <3>1. [row[d] EXCEPT !.status = "REJETE", !.error = TRUE] \in Row
      BY DEF Row, Statuses
    <3> QED BY <1>14, <3>1 DEF CommitCleanup
  <2>2. cleanupJob' \in [Depots -> CleanupJob]
    <3>1. [cleanupJob[d] EXCEPT !.state = "completed"] \in CleanupJob
      BY DEF CleanupJob
    <3> QED BY <1>14, <1>j, <3>1 DEF CommitCleanup
  <2> QED BY <1>0, <1>14, <2>1, <2>2 DEF CommitCleanup
<1>15. ASSUME NEW d \in Depots, AbortCleanup(d) PROVE TypeOK'
  BY <1>0, <1>15, <1>j DEF AbortCleanup
<1> QED
  BY <1>1, <1>2, <1>3, <1>4, <1>5, <1>6, <1>7, <1>8, <1>9, <1>10, <1>11,
     <1>12, <1>13, <1>14, <1>15 DEF Next, Browser, CompleteStep, CleanupStep

\* Every variable keeps its type.
THEOREM TypeCorrect == Spec => []TypeOK
<1>1. Init => TypeOK BY TypeInit
<1>2. TypeOK /\ [Next]_vars => TypeOK' BY TypeNext
<1> QED BY <1>1, <1>2, PTL DEF Spec

----------------------------------------------------------------------------
\* A step of one depot, its invariant preserved, preserves that of all.
LEMMA OneDepotSteps ==
    ASSUME NEW d \in Depots, \A e \in Depots : DInv(e), time' = time,
           \A e \in Depots \ {d} : Frame(e), DInv(d)'
    PROVE  \A e \in Depots : DInv(e)'
<1> SUFFICES ASSUME NEW e \in Depots, e # d PROVE DInv(e)' OBVIOUS
<1> QED BY FrameKeeps

\* Initially only legacy depots exist, without a session.
LEMMA InitInv == Init => \A d \in Depots : DInv(d)
<1> SUFFICES ASSUME Init, NEW d \in Depots PROVE DInv(d) OBVIOUS
<1>1. /\ puts[d] = {} /\ processFile[d] = << >> /\ staging[d] = NoContent
      /\ tx[d].pc = "idle" /\ cleanupJob[d].state = "absent"
  BY DEF Init, NoTx, NoJob
<1>2. /\ row[d].uploadExpiresAt = 0
      /\ row[d].status = "EN_COURS_DE_TRAITEMENT"
      /\ \/ row[d].step = "NONE" /\ ~row[d].path
         \/ row[d].step = "PENDING" /\ row[d].path
  <2>1. CASE row[d] = NoRow BY <2>1 DEF NoRow
  <2>2. CASE \E u \in Users : row[d] = LegacyRow(u)
    BY <2>2 DEF LegacyRow, NoRow
  <2>3. row[d] \in {NoRow} \cup {LegacyRow(u) : u \in Users} BY DEF Init
  <2> QED BY <2>1, <2>2, <2>3
<1> QED BY <1>1, <1>2 DEF DInv, NoSession, Session, Confirming, InFlight,
           CleaningUp, CleanedUp, Ended, Completing, Cleaning

\* A session opens on an identifier nothing is known of.
LEMMA InitializeInv ==
    ASSUME TypeOK, \A e \in Depots : DInv(e),
           NEW d \in Depots, NEW u \in Users, Initialize(d, u)
    PROVE  \A e \in Depots : DInv(e)'
<1>0. DInv(d) OBVIOUS
<1>1. /\ row[d].step = "NONE"
      /\ row'[d].uploadExpiresAt = time + TTL /\ row'[d].userId = u
      /\ row'[d].step = "UPLOADING_TO_S3" /\ ~row'[d].path
      /\ row'[d].status = "EN_COURS_DE_TRAITEMENT"
      /\ staging'[d] = staging[d] /\ final'[d] = final[d]
      /\ puts'[d] = puts[d] /\ slow' = slow
      /\ tx'[d] = tx[d] /\ processFile'[d] = processFile[d]
      /\ cleanupJob'[d].state = "created"
  BY DEF Initialize, TypeOK, NoRow
<1>2. time' = time /\ \A e \in Depots \ {d} : Frame(e)
  BY DEF Initialize, Frame, TypeOK, NoRow
<1>3. /\ row[d].uploadExpiresAt = 0 /\ row'[d].uploadExpiresAt # 0
      /\ puts[d] = {} /\ tx[d].pc = "idle" /\ processFile[d] = << >>
  <2>1. row[d].uploadExpiresAt = 0 BY <1>0, <1>1 DEF DInv, Session
  <2>2. time + TTL # 0 BY TimesAreInts DEF TypeOK
  <2> QED BY <1>0, <1>1, <2>1, <2>2 DEF DInv, NoSession
<1>4. NoSession(d)' BY <1>0, <1>1, <1>2, <1>3 DEF DInv, NoSession
<1>5. Session(d)' BY <1>0, <1>1, <1>2, <1>3 DEF DInv, Session
<1>6. Confirming(d)'
  BY <1>0, <1>1, <1>2, <1>3 DEF DInv, Confirming, Completing
<1>7. InFlight(d)' BY <1>0, <1>1, <1>2, <1>3 DEF DInv, InFlight
<1>8. CleaningUp(d)'
  BY <1>0, <1>1, <1>2, <1>3 DEF DInv, CleaningUp, Cleaning, Late, Deadline
<1>9. CleanedUp(d)'
  BY <1>0, <1>1, <1>2, <1>3
  DEF DInv, CleanedUp, Ended, Late, Deadline, Overtaken, Completing
<1>10. DInv(d)' BY <1>4, <1>5, <1>6, <1>7, <1>8, <1>9 DEF DInv
<1> QED BY <1>2, <1>10, OneDepotSteps

\* A PUT is accepted before its URL expires.
LEMMA StartPutInv ==
    ASSUME TypeOK, \A e \in Depots : DInv(e),
           NEW d \in Depots, NEW c \in Contents, StartPut(d, c)
    PROVE  \A e \in Depots : DInv(e)'
<1>0. DInv(d) OBVIOUS
<1>1. /\ row[d].uploadExpiresAt # 0 /\ time < row[d].uploadExpiresAt
      /\ puts'[d] = puts[d] \cup {[content |-> c, since |-> time]}
      /\ slow' = slow /\ row'[d] = row[d]
      /\ staging'[d] = staging[d] /\ final'[d] = final[d] /\ tx'[d] = tx[d]
      /\ cleanupJob'[d] = cleanupJob[d] /\ processFile'[d] = processFile[d]
  BY DEF StartPut, TypeOK
<1>2. time' = time /\ \A e \in Depots \ {d} : Frame(e)
  BY DEF StartPut, Frame, TypeOK
<1>3. time \in Nat /\ row[d].uploadExpiresAt \in Int BY DEF TypeOK, Row
<1>4. NoSession(d)' BY <1>0, <1>1, <1>2, <1>3 DEF DInv, NoSession
<1>5. Session(d)' BY <1>0, <1>1, <1>2, <1>3 DEF DInv, Session
<1>6. Confirming(d)'
  BY <1>0, <1>1, <1>2, <1>3 DEF DInv, Confirming, Completing
<1>7. InFlight(d)'
  <2>1. ASSUME NEW p \in puts'[d] PROVE p.since < row'[d].uploadExpiresAt
    BY <1>0, <1>1, <1>3, <2>1 DEF DInv, InFlight
  <2> QED BY <2>1 DEF InFlight
<1>8. CleaningUp(d)'
  BY <1>0, <1>1, <1>2, <1>3 DEF DInv, CleaningUp, Cleaning, Late, Deadline
<1>9. CleanedUp(d)'
  BY <1>0, <1>1, <1>2, <1>3
  DEF DInv, CleanedUp, Ended, Late, Deadline, Overtaken, Completing
<1>10. DInv(d)' BY <1>4, <1>5, <1>6, <1>7, <1>8, <1>9 DEF DInv
<1> QED BY <1>2, <1>10, OneDepotSteps

\* A PUT that ends replaces the staging object, of a cleaned depot too if the
\* PUT is slow.
LEMMA FinishPutInv ==
    ASSUME TypeOK, \A e \in Depots : DInv(e),
           NEW d \in Depots, NEW p \in puts[d], FinishPut(d, p)
    PROVE  \A e \in Depots : DInv(e)'
<1>0. DInv(d) OBVIOUS
<1>1. /\ puts'[d] = puts[d] \ {p}
      /\ row'[d] = row[d] /\ final'[d] = final[d]
      /\ tx'[d] = tx[d] /\ cleanupJob'[d] = cleanupJob[d]
      /\ processFile'[d] = processFile[d]
      /\ d \in slow => d \in slow'
      /\ staging'[d] = staging[d] \/ (Slow(p) => d \in slow')
  BY DEF FinishPut, TypeOK
<1>2. time' = time /\ \A e \in Depots \ {d} : Frame(e)
  BY DEF FinishPut, Frame, TypeOK
<1>3. Late(d) => staging'[d] = staging[d] \/ d \in slow'
  BY <1>0, <1>1, LatePutIsSlow DEF DInv
<1>4. NoSession(d)' BY <1>0, <1>1 DEF DInv, NoSession
<1>5. Session(d)' BY <1>0, <1>1, <1>2 DEF DInv, Session
<1>6. Confirming(d)' BY <1>0, <1>1, <1>2 DEF DInv, Confirming, Completing
<1>7. InFlight(d)' BY <1>0, <1>1, <1>2 DEF DInv, InFlight
<1>8. CleaningUp(d)'
  BY <1>0, <1>1, <1>2, <1>3 DEF DInv, CleaningUp, Cleaning, Late, Deadline
<1>9. CleanedUp(d)'
  BY <1>0, <1>1, <1>2, <1>3
  DEF DInv, CleanedUp, Ended, Late, Deadline, Overtaken, Completing
<1>10. DInv(d)' BY <1>4, <1>5, <1>6, <1>7, <1>8, <1>9 DEF DInv
<1> QED BY <1>2, <1>10, OneDepotSteps

\* A confirmation that is not answered from the row has an open session.
LEMMA StartCompleteInv ==
    ASSUME TypeOK, \A e \in Depots : DInv(e),
           NEW d \in Depots, NEW u \in Users, StartComplete(d, u)
    PROVE  \A e \in Depots : DInv(e)'
<1>0. DInv(d) OBVIOUS
<1>1. /\ tx[d].pc = "idle"
      /\ row'[d] = row[d] /\ staging'[d] = staging[d] /\ final'[d] = final[d]
      /\ puts'[d] = puts[d] /\ slow' = slow /\ cleanupJob'[d] = cleanupJob[d]
      /\ processFile'[d] = processFile[d]
      /\ \/ tx'[d] = tx[d]
         \/ /\ tx'[d].pc = "head" /\ tx'[d].user = u
            /\ RowAnswer(row[d], u, time) = "proceed"
  BY DEF StartComplete, TypeOK, NoTx
<1>2. time' = time /\ \A e \in Depots \ {d} : Frame(e)
  BY DEF StartComplete, Frame, TypeOK, NoTx
<1>3. RowAnswer(row[d], u, time) = "proceed" =>
        /\ row[d].uploadExpiresAt # 0 /\ ~row[d].path
        /\ row[d].userId = u
        /\ Late(d) => ClockSkew > 0
  <2>1. time \in Int /\ Deadline(row[d]) \in Int
    BY TimesAreInts DEF TypeOK, Row, Deadline
  <2>2. RowAnswer(row[d], u, time) = "proceed" => ~(time >= Deadline(row[d]))
    BY DEF RowAnswer
  <2>3. RowAnswer(row[d], u, time) = "proceed" /\ Late(d) => ClockSkew > 0
    BY <2>1, <2>2, TimesAreInts DEF Late
  <2> QED BY <2>3 DEF RowAnswer
<1>4. NoSession(d)' BY <1>0, <1>1, <1>2, <1>3 DEF DInv, NoSession
<1>5. Session(d)' BY <1>0, <1>1, <1>2, <1>3 DEF DInv, Session
<1>6. Confirming(d)'
  BY <1>0, <1>1, <1>2, <1>3 DEF DInv, Confirming, Completing
<1>7. InFlight(d)' BY <1>0, <1>1, <1>2, <1>3 DEF DInv, InFlight
<1>8. CleaningUp(d)'
  BY <1>0, <1>1, <1>2, <1>3 DEF DInv, CleaningUp, Cleaning, Late, Deadline
<1>9. CleanedUp(d)'
  BY <1>0, <1>1, <1>2, <1>3
  DEF DInv, CleanedUp, Ended, Late, Deadline, Overtaken, Completing
<1>10. DInv(d)' BY <1>4, <1>5, <1>6, <1>7, <1>8, <1>9 DEF DInv
<1> QED BY <1>2, <1>10, OneDepotSteps

\* A rollback only ends the transaction.
LEMMA RollbackInv ==
    ASSUME TypeOK, \A e \in Depots : DInv(e),
           NEW d \in Depots, NEW answer, Rollback(d, answer)
    PROVE  \A e \in Depots : DInv(e)'
<1>0. DInv(d) OBVIOUS
<1>1. /\ tx'[d].pc = "idle"
      /\ row'[d] = row[d] /\ staging'[d] = staging[d] /\ final'[d] = final[d]
      /\ puts'[d] = puts[d] /\ slow' = slow /\ cleanupJob'[d] = cleanupJob[d]
      /\ processFile'[d] = processFile[d]
  BY DEF Rollback, TypeOK, NoTx
<1>2. time' = time /\ \A e \in Depots \ {d} : Frame(e)
  BY DEF Rollback, Frame, TypeOK, NoTx
<1>3. NoSession(d)' BY <1>0, <1>1, <1>2 DEF DInv, NoSession
<1>4. Session(d)' BY <1>0, <1>1, <1>2 DEF DInv, Session
<1>5. Confirming(d)' BY <1>0, <1>1, <1>2 DEF DInv, Confirming, Completing
<1>6. InFlight(d)' BY <1>0, <1>1, <1>2 DEF DInv, InFlight
<1>7. CleaningUp(d)'
  BY <1>0, <1>1, <1>2 DEF DInv, CleaningUp, Cleaning, Late, Deadline
<1>8. CleanedUp(d)'
  BY <1>0, <1>1, <1>2
  DEF DInv, CleanedUp, Ended, Late, Deadline, Overtaken, Completing
<1>9. DInv(d)' BY <1>3, <1>4, <1>5, <1>6, <1>7, <1>8 DEF DInv
<1> QED BY <1>2, <1>9, OneDepotSteps

\* An object that is good enough is remembered by its etag.
LEMMA HeadStagingInv ==
    ASSUME TypeOK, \A e \in Depots : DInv(e),
           NEW d \in Depots, HeadStaging(d),
           tx' = [tx EXCEPT ![d].pc = "copy", ![d].etag = staging[d]],
           staging[d] \in WellFormed,
           UNCHANGED <<time, row, staging, final, puts, slow, cleanupJob,
                       processFile, reply>>
    PROVE  \A e \in Depots : DInv(e)'
<1>0. DInv(d) OBVIOUS
<1>1. /\ tx[d].pc = "head" /\ tx'[d].pc = "copy" /\ tx'[d].user = tx[d].user
      /\ staging[d] \in WellFormed /\ tx'[d].etag = staging[d]
      /\ row'[d] = row[d] /\ staging'[d] = staging[d] /\ final'[d] = final[d]
      /\ puts'[d] = puts[d] /\ slow' = slow /\ cleanupJob'[d] = cleanupJob[d]
      /\ processFile'[d] = processFile[d]
  BY DEF HeadStaging, TypeOK, Tx
<1>2. time' = time /\ \A e \in Depots \ {d} : Frame(e)
  BY DEF Frame, TypeOK
<1>3. Ended(d) => Overtaken(d)
  <2>1. staging[d] # NoContent BY <1>1, SetsAssumption
  <2> QED BY <1>0, <1>1, <2>1 DEF DInv, CleanedUp, Overtaken, Completing
<1>4. NoSession(d)' BY <1>0, <1>1, <1>2, <1>3 DEF DInv, NoSession
<1>5. Session(d)' BY <1>0, <1>1, <1>2, <1>3 DEF DInv, Session
<1>6. Confirming(d)'
  BY <1>0, <1>1, <1>2, <1>3 DEF DInv, Confirming, Completing
<1>7. InFlight(d)' BY <1>0, <1>1, <1>2, <1>3 DEF DInv, InFlight
<1>8. CleaningUp(d)'
  BY <1>0, <1>1, <1>2, <1>3 DEF DInv, CleaningUp, Cleaning, Late, Deadline
<1>9. CleanedUp(d)'
  BY <1>0, <1>1, <1>2, <1>3
  DEF DInv, CleanedUp, Ended, Late, Deadline, Overtaken, Completing
<1>10. DInv(d)' BY <1>4, <1>5, <1>6, <1>7, <1>8, <1>9 DEF DInv
<1> QED BY <1>2, <1>10, OneDepotSteps

\* An object is frozen only if it is still the one that was examined.
LEMMA CopyToFinalInv ==
    ASSUME TypeOK, \A e \in Depots : DInv(e),
           NEW d \in Depots, CopyToFinal(d), CopyMatches(d),
           final' = [final EXCEPT ![d] = staging[d]],
           tx' = [tx EXCEPT ![d].pc = "confirm"],
           UNCHANGED <<time, row, staging, puts, slow, cleanupJob, processFile,
                       reply>>
    PROVE  \A e \in Depots : DInv(e)'
<1>0. DInv(d) OBVIOUS
<1>1. /\ tx[d].pc = "copy" /\ tx'[d].pc = "confirm" /\ tx'[d].user = tx[d].user
      /\ staging[d] = tx[d].etag /\ final'[d] = staging[d]
      /\ row'[d] = row[d] /\ staging'[d] = staging[d]
      /\ puts'[d] = puts[d] /\ slow' = slow /\ cleanupJob'[d] = cleanupJob[d]
      /\ processFile'[d] = processFile[d]
  BY DEF CopyToFinal, CopyMatches, TypeOK, Tx
<1>2. time' = time /\ \A e \in Depots \ {d} : Frame(e)
  BY DEF Frame, TypeOK
<1>3. /\ Ended(d) => Overtaken(d)
      /\ final'[d] \in WellFormed /\ ~row[d].path
  BY <1>0, <1>1 DEF DInv, CleanedUp, Confirming, Completing
<1>4. NoSession(d)' BY <1>0, <1>1, <1>2, <1>3 DEF DInv, NoSession
<1>5. Session(d)' BY <1>0, <1>1, <1>2, <1>3 DEF DInv, Session
<1>6. Confirming(d)'
  BY <1>0, <1>1, <1>2, <1>3 DEF DInv, Confirming, Completing
<1>7. InFlight(d)' BY <1>0, <1>1, <1>2, <1>3 DEF DInv, InFlight
<1>8. CleaningUp(d)'
  BY <1>0, <1>1, <1>2, <1>3 DEF DInv, CleaningUp, Cleaning, Late, Deadline
<1>9. CleanedUp(d)'
  BY <1>0, <1>1, <1>2, <1>3
  DEF DInv, CleanedUp, Ended, Late, Deadline, Overtaken, Completing
<1>10. DInv(d)' BY <1>4, <1>5, <1>6, <1>7, <1>8, <1>9 DEF DInv
<1> QED BY <1>2, <1>10, OneDepotSteps

\* The commit of a confirmation writes the path and the only request.
LEMMA CommitCompleteInv ==
    ASSUME TypeOK, \A e \in Depots : DInv(e),
           NEW d \in Depots, CommitComplete(d)
    PROVE  \A e \in Depots : DInv(e)'
<1>0. DInv(d) OBVIOUS
<1>1. /\ tx[d].pc = "confirm" /\ tx'[d].pc = "idle"
      /\ row'[d].path /\ row'[d].step = "PENDING"
      /\ row'[d].userId = row[d].userId /\ row'[d].status = row[d].status
      /\ row'[d].uploadExpiresAt = row[d].uploadExpiresAt
      /\ processFile'[d] = Append(processFile[d], tx[d].user)
      /\ staging'[d] = staging[d] /\ final'[d] = final[d]
      /\ puts'[d] = puts[d] /\ slow' = slow /\ cleanupJob'[d] = cleanupJob[d]
  BY DEF CommitComplete, TypeOK, NoTx, Row
<1>2. time' = time /\ \A e \in Depots \ {d} : Frame(e)
  BY DEF CommitComplete, Frame, TypeOK, NoTx, Row
<1>3. /\ (Ended(d) => Overtaken(d)) /\ final[d] \in WellFormed
      /\ row[d].uploadExpiresAt # 0
      /\ processFile'[d] = <<row[d].userId>>
  <2>1. (Ended(d) => Overtaken(d)) /\ final[d] \in WellFormed /\ ~row[d].path
        /\ tx[d].user = row[d].userId
    BY <1>0, <1>1 DEF DInv, CleanedUp, Confirming, Completing
  <2>2. row[d].uploadExpiresAt # 0 BY <1>0, <1>1 DEF DInv, NoSession
  <2>3. processFile[d] = << >> BY <1>0, <2>1, <2>2 DEF DInv, Session
  <2> QED BY <1>1, <2>1, <2>2, <2>3
<1>4. NoSession(d)' BY <1>0, <1>1, <1>2, <1>3 DEF DInv, NoSession
<1>5. Session(d)' BY <1>0, <1>1, <1>2, <1>3 DEF DInv, Session
<1>6. Confirming(d)'
  BY <1>0, <1>1, <1>2, <1>3 DEF DInv, Confirming, Completing
<1>7. InFlight(d)' BY <1>0, <1>1, <1>2, <1>3 DEF DInv, InFlight
<1>8. CleaningUp(d)'
  BY <1>0, <1>1, <1>2, <1>3 DEF DInv, CleaningUp, Cleaning, Late, Deadline
<1>9. CleanedUp(d)'
  BY <1>0, <1>1, <1>2, <1>3
  DEF DInv, CleanedUp, Ended, Late, Deadline, Overtaken, Completing
<1>10. DInv(d)' BY <1>4, <1>5, <1>6, <1>7, <1>8, <1>9 DEF DInv
<1> QED BY <1>2, <1>10, OneDepotSteps

\* A cleanup that starts has seen the deadline pass on some clock.
LEMMA StartCleanupInv ==
    ASSUME TypeOK, \A e \in Depots : DInv(e),
           NEW d \in Depots, StartCleanup(d)
    PROVE  \A e \in Depots : DInv(e)'
<1>0. DInv(d) OBVIOUS
<1>1. /\ cleanupJob[d].state = "created" /\ tx[d].pc = "idle"
      /\ cleanupJob'[d].state \in {"created", "failed", "active"}
      /\ tx'[d].pc = "idle" \/ (tx'[d].pc = "staging" /\ Late(d))
      /\ row'[d] = row[d] /\ staging'[d] = staging[d] /\ final'[d] = final[d]
      /\ puts'[d] = puts[d] /\ slow' = slow /\ processFile'[d] = processFile[d]
  <2>1. Retried(cleanupJob[d]).state \in {"created", "failed"}
    BY DEF Retried, TypeOK, CleanupJob
  <2>2. time \in Nat /\ Deadline(row[d]) \in Int
    BY TimesAreInts DEF TypeOK, Row, Deadline
  <2>3. PICK now \in time .. time + ClockSkew :
         \/ /\ cleanupJob' = [cleanupJob EXCEPT ![d] = Retried(@)]
            /\ UNCHANGED tx
         \/ /\ now >= Deadline(row[d])
            /\ cleanupJob' = [cleanupJob EXCEPT ![d].state = "active"]
            /\ tx' = [tx EXCEPT ![d].pc = "staging"]
    BY DEF StartCleanup
  <2>4. cleanupJob'[d].state \in {"created", "failed", "active"}
    BY <2>1, <2>3 DEF TypeOK, CleanupJob
  <2>5. tx'[d].pc = "idle" \/ (tx'[d].pc = "staging" /\ Late(d))
    <3>1. now >= Deadline(row[d]) => Late(d)
      BY <2>2, TimesAreInts DEF Late
    <3> QED BY <2>3, <3>1 DEF StartCleanup, TypeOK, Tx
  <2> QED BY <2>4, <2>5 DEF StartCleanup
<1>2. time' = time /\ \A e \in Depots \ {d} : Frame(e)
  BY DEF StartCleanup, Frame, TypeOK
<1>3. row[d].uploadExpiresAt # 0 BY <1>0, <1>1 DEF DInv, NoSession
<1>4. NoSession(d)' BY <1>0, <1>1, <1>2, <1>3 DEF DInv, NoSession
<1>5. Session(d)' BY <1>0, <1>1, <1>2, <1>3 DEF DInv, Session
<1>6. Confirming(d)'
  BY <1>0, <1>1, <1>2, <1>3 DEF DInv, Confirming, Completing
<1>7. InFlight(d)' BY <1>0, <1>1, <1>2, <1>3 DEF DInv, InFlight
<1>8. CleaningUp(d)'
  BY <1>0, <1>1, <1>2, <1>3 DEF DInv, CleaningUp, Cleaning, Late, Deadline
<1>9. CleanedUp(d)'
  BY <1>0, <1>1, <1>2, <1>3
  DEF DInv, CleanedUp, Ended, Late, Deadline, Overtaken, Completing
<1>10. DInv(d)' BY <1>4, <1>5, <1>6, <1>7, <1>8, <1>9 DEF DInv
<1> QED BY <1>2, <1>10, OneDepotSteps

\* The staging object goes first.
LEMMA DeleteStagingInv ==
    ASSUME TypeOK, \A e \in Depots : DInv(e),
           NEW d \in Depots, DeleteStaging(d)
    PROVE  \A e \in Depots : DInv(e)'
<1>0. DInv(d) OBVIOUS
<1>1. /\ tx[d].pc = "staging" /\ tx'[d].pc \in {"clean", "final"}
      /\ tx'[d].pc = "clean" <=> row[d].path
      /\ staging'[d] = NoContent
      /\ row'[d] = row[d] /\ final'[d] = final[d]
      /\ puts'[d] = puts[d] /\ slow' = slow /\ cleanupJob'[d] = cleanupJob[d]
      /\ processFile'[d] = processFile[d]
  BY DEF DeleteStaging, TypeOK, Tx
<1>2. time' = time /\ \A e \in Depots \ {d} : Frame(e)
  BY DEF DeleteStaging, Frame, TypeOK, Tx
<1>3. NoSession(d)' BY <1>0, <1>1, <1>2 DEF DInv, NoSession
<1>4. Session(d)' BY <1>0, <1>1, <1>2 DEF DInv, Session
<1>5. Confirming(d)' BY <1>0, <1>1, <1>2 DEF DInv, Confirming, Completing
<1>6. InFlight(d)' BY <1>0, <1>1, <1>2 DEF DInv, InFlight
<1>7. CleaningUp(d)'
  BY <1>0, <1>1, <1>2 DEF DInv, CleaningUp, Cleaning, Late, Deadline
<1>8. CleanedUp(d)'
  BY <1>0, <1>1, <1>2
  DEF DInv, CleanedUp, Ended, Late, Deadline, Overtaken, Completing
<1>9. DInv(d)' BY <1>3, <1>4, <1>5, <1>6, <1>7, <1>8 DEF DInv
<1> QED BY <1>2, <1>9, OneDepotSteps

\* Only the copy of a confirmation that never was is deleted.
LEMMA DeleteFinalInv ==
    ASSUME TypeOK, \A e \in Depots : DInv(e),
           NEW d \in Depots, DeleteFinal(d)
    PROVE  \A e \in Depots : DInv(e)'
<1>0. DInv(d) OBVIOUS
<1>1. /\ tx[d].pc = "final" /\ tx'[d].pc = "clean"
      /\ final'[d] = NoContent
      /\ row'[d] = row[d] /\ staging'[d] = staging[d]
      /\ puts'[d] = puts[d] /\ slow' = slow /\ cleanupJob'[d] = cleanupJob[d]
      /\ processFile'[d] = processFile[d]
  BY DEF DeleteFinal, TypeOK, Tx
<1>2. time' = time /\ \A e \in Depots \ {d} : Frame(e)
  BY DEF DeleteFinal, Frame, TypeOK, Tx
<1>3. ~row[d].path BY <1>0, <1>1 DEF DInv, CleaningUp
<1>4. NoSession(d)' BY <1>0, <1>1, <1>2, <1>3 DEF DInv, NoSession
<1>5. Session(d)' BY <1>0, <1>1, <1>2, <1>3 DEF DInv, Session
<1>6. Confirming(d)'
  BY <1>0, <1>1, <1>2, <1>3 DEF DInv, Confirming, Completing
<1>7. InFlight(d)' BY <1>0, <1>1, <1>2, <1>3 DEF DInv, InFlight
<1>8. CleaningUp(d)'
  BY <1>0, <1>1, <1>2, <1>3 DEF DInv, CleaningUp, Cleaning, Late, Deadline
<1>9. CleanedUp(d)'
  BY <1>0, <1>1, <1>2, <1>3
  DEF DInv, CleanedUp, Ended, Late, Deadline, Overtaken, Completing
<1>10. DInv(d)' BY <1>4, <1>5, <1>6, <1>7, <1>8, <1>9 DEF DInv
<1> QED BY <1>2, <1>10, OneDepotSteps

\* The commit of a cleanup rejects what was not confirmed.
LEMMA CommitCleanupInv ==
    ASSUME TypeOK, \A e \in Depots : DInv(e),
           NEW d \in Depots, CommitCleanup(d)
    PROVE  \A e \in Depots : DInv(e)'
<1>0. DInv(d) OBVIOUS
<1>1. /\ tx[d].pc = "clean" /\ tx'[d].pc = "idle"
      /\ row'[d].path = row[d].path /\ row'[d].step = row[d].step
      /\ row'[d].userId = row[d].userId
      /\ row'[d].uploadExpiresAt = row[d].uploadExpiresAt
      /\ row[d].path => row'[d].status = row[d].status
      /\ ~row[d].path => row'[d].status = "REJETE"
      /\ staging'[d] = staging[d] /\ final'[d] = final[d]
      /\ puts'[d] = puts[d] /\ slow' = slow /\ processFile'[d] = processFile[d]
  BY DEF CommitCleanup, TypeOK, NoTx, Row
<1>2. time' = time /\ \A e \in Depots \ {d} : Frame(e)
  BY DEF CommitCleanup, Frame, TypeOK, NoTx, Row
<1>3. /\ row[d].uploadExpiresAt # 0 /\ Late(d)
      /\ staging[d] = NoContent \/ d \in slow
      /\ row[d].path \/ final[d] = NoContent
  <2>1. row[d].uploadExpiresAt # 0 BY <1>0, <1>1 DEF DInv, NoSession
  <2> QED BY <1>0, <1>1, <2>1 DEF DInv, CleaningUp, Cleaning
<1>4. NoSession(d)' BY <1>1, <1>3 DEF NoSession
<1>5. Session(d)' BY <1>0, <1>1, <1>2, <1>3 DEF DInv, Session
<1>6. Confirming(d)'
  BY <1>0, <1>1, <1>2, <1>3 DEF DInv, Confirming, Completing
<1>7. InFlight(d)' BY <1>0, <1>1, <1>2, <1>3 DEF DInv, InFlight
<1>8. CleaningUp(d)'
  BY <1>0, <1>1, <1>2, <1>3 DEF DInv, CleaningUp, Cleaning, Late, Deadline
<1>9. CleanedUp(d)'
  BY <1>0, <1>1, <1>2, <1>3
  DEF DInv, CleanedUp, Ended, Late, Deadline, Overtaken, Completing
<1>10. DInv(d)' BY <1>4, <1>5, <1>6, <1>7, <1>8, <1>9 DEF DInv
<1> QED BY <1>2, <1>10, OneDepotSteps

\* A cleanup that fails is retried or given up.
LEMMA AbortCleanupInv ==
    ASSUME TypeOK, \A e \in Depots : DInv(e),
           NEW d \in Depots, AbortCleanup(d)
    PROVE  \A e \in Depots : DInv(e)'
<1>0. DInv(d) OBVIOUS
<1>1. /\ tx[d].pc \in Cleaning /\ tx'[d].pc = "idle"
      /\ cleanupJob'[d].state \in {"created", "failed"}
      /\ row'[d] = row[d] /\ staging'[d] = staging[d] /\ final'[d] = final[d]
      /\ puts'[d] = puts[d] /\ slow' = slow /\ processFile'[d] = processFile[d]
  <2>1. Retried(cleanupJob[d]).state \in {"created", "failed"}
    BY DEF Retried, TypeOK, CleanupJob
  <2> QED BY <2>1 DEF AbortCleanup, TypeOK, NoTx
<1>2. time' = time /\ \A e \in Depots \ {d} : Frame(e)
  BY DEF AbortCleanup, Frame, TypeOK
<1>3. row[d].uploadExpiresAt # 0 BY <1>0, <1>1 DEF DInv, NoSession, Cleaning
<1>4. NoSession(d)' BY <1>0, <1>1, <1>2, <1>3 DEF DInv, NoSession
<1>5. Session(d)' BY <1>0, <1>1, <1>2, <1>3 DEF DInv, Session
<1>6. Confirming(d)'
  BY <1>0, <1>1, <1>2, <1>3 DEF DInv, Confirming, Completing
<1>7. InFlight(d)' BY <1>0, <1>1, <1>2, <1>3 DEF DInv, InFlight
<1>8. CleaningUp(d)'
  BY <1>0, <1>1, <1>2, <1>3 DEF DInv, CleaningUp, Cleaning, Late, Deadline
<1>9. CleanedUp(d)'
  BY <1>0, <1>1, <1>2, <1>3
  DEF DInv, CleanedUp, Ended, Late, Deadline, Overtaken, Completing
<1>10. DInv(d)' BY <1>4, <1>5, <1>6, <1>7, <1>8, <1>9 DEF DInv
<1> QED BY <1>2, <1>10, OneDepotSteps

\* Time passes: what was late stays late.
LEMMA TickInv ==
    ASSUME TypeOK, \A e \in Depots : DInv(e), Tick
    PROVE  \A e \in Depots : DInv(e)'
<1> SUFFICES ASSUME NEW e \in Depots PROVE DInv(e)' OBVIOUS
<1>0. DInv(e) OBVIOUS
<1>1. /\ row' = row /\ staging' = staging /\ final' = final /\ puts' = puts
      /\ tx' = tx /\ cleanupJob' = cleanupJob /\ processFile' = processFile
      /\ slow' = slow /\ time' = time + 1
  BY DEF Tick
<1>2. Late(e) => Late(e)'
  <2>1. time \in Nat /\ Deadline(row[e]) \in Int
    BY TimesAreInts DEF TypeOK, Row, Deadline
  <2> QED BY <1>1, <2>1, TimesAreInts DEF Late, Deadline
<1>3. NoSession(e)' BY <1>0, <1>1 DEF DInv, NoSession
<1>4. Session(e)' BY <1>0, <1>1 DEF DInv, Session
<1>5. Confirming(e)' BY <1>0, <1>1 DEF DInv, Confirming, Completing
<1>6. InFlight(e)' BY <1>0, <1>1 DEF DInv, InFlight
<1>7. CleaningUp(e)' BY <1>0, <1>1, <1>2 DEF DInv, CleaningUp, Cleaning
<1>8. CleanedUp(e)'
  BY <1>0, <1>1, <1>2 DEF DInv, CleanedUp, Ended, Overtaken, Completing
<1> QED BY <1>3, <1>4, <1>5, <1>6, <1>7, <1>8 DEF DInv

\* Every step preserves the invariant of every depot.
LEMMA StepInv ==
    ASSUME TypeOK, \A e \in Depots : DInv(e), [Next]_vars
    PROVE  \A e \in Depots : DInv(e)'
<1>1. CASE UNCHANGED vars
  BY <1>1, FrameKeeps DEF vars, Frame
<1>2. CASE Tick BY <1>2, TickInv
<1>3. ASSUME NEW d \in Depots, Browser(d) PROVE \A e \in Depots : DInv(e)'
  BY <1>3, InitializeInv, StartCompleteInv, StartPutInv DEF Browser
<1>4. ASSUME NEW d \in Depots, NEW p \in puts[d], FinishPut(d, p)
      PROVE  \A e \in Depots : DInv(e)'
  BY <1>4, FinishPutInv
<1>5. ASSUME NEW d \in Depots, CompleteStep(d) PROVE \A e \in Depots : DInv(e)'
  <2>1. CASE HeadStaging(d) BY <2>1, RollbackInv, HeadStagingInv DEF HeadStaging
  <2>2. CASE CopyToFinal(d) BY <2>2, RollbackInv, CopyToFinalInv DEF CopyToFinal
  <2>3. CASE CommitComplete(d) BY <2>3, CommitCompleteInv
  <2>4. CASE AbortComplete(d) BY <2>4, RollbackInv DEF AbortComplete
  <2> QED BY <1>5, <2>1, <2>2, <2>3, <2>4 DEF CompleteStep
<1>6. ASSUME NEW d \in Depots, StartCleanup(d) PROVE \A e \in Depots : DInv(e)'
  BY <1>6, StartCleanupInv
<1>7. ASSUME NEW d \in Depots, CleanupStep(d) PROVE \A e \in Depots : DInv(e)'
  BY <1>7, DeleteStagingInv, DeleteFinalInv, CommitCleanupInv, AbortCleanupInv
  DEF CleanupStep
<1> QED BY <1>1, <1>2, <1>3, <1>4, <1>5, <1>6, <1>7 DEF Next

\* The inductive invariant holds in every reachable state.
THEOREM Invariant == Spec => []IInv
<1>1. Init => IInv BY TypeInit, InitInv DEF IInv
<1>2. IInv /\ [Next]_vars => IInv' BY TypeNext, StepInv DEF IInv
<1> QED BY <1>1, <1>2, PTL DEF Spec

----------------------------------------------------------------------------
\* However many confirmations are sent, lost or retried, one request to
\* process the file is enqueued, with the row that says so.
THEOREM ConfirmedOnceHolds == Spec => []ConfirmedOnce
<1>1. IInv => ConfirmedOnce
  BY DEF IInv, DInv, ConfirmedOnce, Confirmed, NoSession, Session
<1> QED BY <1>1, Invariant, PTL

\* The file of a confirmed depot is there and was verified.
THEOREM ConfirmedFileKeptHolds == Spec => []ConfirmedFileKept
<1>1. IInv => ConfirmedFileKept
  BY DEF IInv, DInv, ConfirmedFileKept, Confirmed, Session
<1> QED BY <1>1, Invariant, PTL

\* A rejected session is confirmed only after a slow PUT and by a clock that
\* is behind the worker's.
THEOREM RejectedNeverConfirmedHolds == Spec => []RejectedNeverConfirmed
<1>1. IInv => RejectedNeverConfirmed
  BY DEF IInv, DInv, RejectedNeverConfirmed, CleanedUp, Ended
<1> QED BY <1>1, Invariant, PTL

\* A completed cleanup leaves nothing but a confirmed file and what PUTs that
\* outlast the delay bring back, however long they take.
THEOREM NothingLeftBehindHolds == Spec => []NothingLeftBehind
<1>1. IInv => NothingLeftBehind
  <2> SUFFICES ASSUME IInv, NEW d \in Depots, cleanupJob[d].state = "completed"
               PROVE  /\ staging[d] = NoContent \/ d \in slow
                      /\ \A p \in puts[d] : Slow(p)
                      /\ final[d] = NoContent \/ Confirmed(d) \/ Overtaken(d)
    BY DEF NothingLeftBehind
  <2>1. TypeOK /\ DInv(d) BY DEF IInv
  <2>2. /\ Late(d) /\ (staging[d] = NoContent \/ d \in slow)
        /\ row[d].path \/ final[d] = NoContent \/ Overtaken(d)
    BY <2>1 DEF DInv, CleanedUp, Ended
  <2>3. \A p \in puts[d] : Slow(p) BY <2>1, <2>2, LatePutIsSlow DEF DInv
  <2>4. row[d].uploadExpiresAt # 0 BY <2>1 DEF DInv, NoSession
  <2> QED BY <2>2, <2>3, <2>4 DEF Confirmed
<1> QED BY <1>1, Invariant, PTL

\* Repeating the confirmation of a confirmed depot is never refused to its
\* depositor.
THEOREM ConfirmationIsIdempotentHolds == Spec => ConfirmationIsIdempotent
<1>1. ASSUME IInv, Next, NEW d \in Depots, Confirmed(d), reply'[d] # reply[d]
      PROVE  reply'[d] \in {"ok", "error", "forbidden"}
  <2>0. /\ TypeOK /\ row[d].path /\ row[d].uploadExpiresAt # 0
        /\ row[d].step # "NONE" /\ tx[d].pc \notin Completing
    BY <1>1 DEF IInv, DInv, Session, Confirming, Confirmed
  <2>1. ASSUME NEW e \in Depots, NEW u \in Users, StartComplete(e, u)
        PROVE  reply'[d] \in {"ok", "forbidden"}
    <3>1. e = d BY <1>1, <2>0, <2>1 DEF StartComplete, TypeOK
    <3>2. RowAnswer(row[d], u, time) \in {"ok", "forbidden"}
      BY <2>0 DEF RowAnswer
    <3> QED BY <1>1, <2>0, <2>1, <3>1, <3>2 DEF StartComplete, TypeOK
  <2>2. ASSUME NEW e \in Depots, NEW answer, tx[e].pc \in Completing,
               reply' = [reply EXCEPT ![e] = answer]
        PROVE  FALSE
    <3>1. e # d BY <2>0, <2>2
    <3> QED BY <1>1, <2>0, <2>2, <3>1 DEF TypeOK
  <2>3. ASSUME NEW e \in Depots, CompleteStep(e)
        PROVE  \/ UNCHANGED reply
               \/ \E a : /\ tx[e].pc \in Completing
                         /\ reply' = [reply EXCEPT ![e] = a]
    BY <2>3 DEF CompleteStep, HeadStaging, CopyToFinal, CommitComplete,
                AbortComplete, Rollback, Completing
  <2>4. \/ UNCHANGED reply
        \/ \E e \in Depots : \/ CompleteStep(e)
                             \/ \E u \in Users : StartComplete(e, u)
    BY <1>1 DEF Next, Tick, Browser, Initialize, StartPut, FinishPut,
                StartCleanup, CleanupStep, DeleteStaging, DeleteFinal,
                CommitCleanup, AbortCleanup
  <2> QED BY <1>1, <2>1, <2>2, <2>3, <2>4
<1>2. IInv /\ [Next]_vars =>
        [\A d \in Depots : Confirmed(d) /\ reply'[d] # reply[d]
            => reply'[d] \in {"ok", "error", "forbidden"}]_vars
  BY <1>1
<1> QED BY <1>2, Invariant, PTL DEF Spec, ConfirmationIsIdempotent

----------------------------------------------------------------------------
(* The refinement: the abstract values of the depots, and what each step   *)
(* does to them.                                                           *)

fileOf(d) == IF Confirmed(d) THEN final[d] ELSE NoContent
depositorOf(r) == IF r.uploadExpiresAt = 0 THEN NoUser ELSE r.userId

\* Nothing the depositor or the worker sees of depot e changes.
Hidden(e) ==
    /\ phaseOf(row'[e]) = phaseOf(row[e])
    /\ depositorOf(row'[e]) = depositorOf(row[e])
    /\ fileOf(e)' = fileOf(e)
    /\ processFile'[e] = processFile[e]
    /\ Overtaken(e)' <=> Overtaken(e)

\* A step that hides everything is a stutter of the intake.
LEMMA HiddenStutters ==
    ASSUME TypeOK, TypeOK', \A e \in Depots : Hidden(e)
    PROVE  UNCHANGED Intake!intakeVars
<1>1. processFile' = processFile BY DEF Hidden, TypeOK
<1>2. \A e \in Depots : /\ phaseOf(row'[e]) = phaseOf(row[e])
                        /\ depositorOf(row'[e]) = depositorOf(row[e])
                        /\ fileOf(e)' = fileOf(e)
  BY DEF Hidden
<1>3. [d \in Depots |-> phaseOf(row[d])]' = [d \in Depots |-> phaseOf(row[d])]
  BY <1>2
<1>4. [d \in Depots |-> depositorOf(row[d])]'
        = [d \in Depots |-> depositorOf(row[d])]
  BY <1>2
<1>5. [d \in Depots |-> fileOf(d)]' = [d \in Depots |-> fileOf(d)]
  BY <1>2
<1>6. {d \in Depots : Overtaken(d)}' = {d \in Depots : Overtaken(d)}
  BY DEF Hidden
<1> QED
  BY <1>1, <1>3, <1>4, <1>5, <1>6 DEF Intake!intakeVars, depositorOf, fileOf

\* Initially no session is open.
LEMMA IntakeInitially == Init => Intake!IntakeInit
<1> SUFFICES ASSUME Init PROVE Intake!IntakeInit OBVIOUS
<1>1. \A d \in Depots : row[d].uploadExpiresAt = 0
  <2> SUFFICES ASSUME NEW d \in Depots PROVE row[d].uploadExpiresAt = 0 OBVIOUS
  <2>1. CASE row[d] = NoRow BY <2>1 DEF NoRow
  <2>2. CASE \E u \in Users : row[d] = LegacyRow(u)
    BY <2>2 DEF LegacyRow, NoRow
  <2>3. row[d] \in {NoRow} \cup {LegacyRow(u) : u \in Users} BY DEF Init
  <2> QED BY <2>1, <2>2, <2>3
<1>2. \A d \in Depots : phaseOf(row[d]) = "absent" /\ ~Confirmed(d)
  BY <1>1 DEF phaseOf, Confirmed
<1>3. \A d \in Depots : ~Overtaken(d) BY DEF Init, Overtaken
<1> QED BY <1>1, <1>2, <1>3 DEF Init, Intake!IntakeInit

\* Initialize opens.
LEMMA InitializeOpens ==
    ASSUME IInv, NEW d \in Depots, NEW u \in Users, Initialize(d, u)
    PROVE  Intake!Open(d, u)
<1>0. TypeOK /\ row[d].uploadExpiresAt = 0
  BY DEF IInv, DInv, Session, Initialize
<1>1. /\ row'[d].uploadExpiresAt = time + TTL /\ row'[d].userId = u
      /\ ~row'[d].path /\ row'[d].status = "EN_COURS_DE_TRAITEMENT"
      /\ \A e \in Depots \ {d} : row'[e] = row[e]
      /\ final' = final /\ processFile' = processFile /\ slow' = slow
  BY <1>0 DEF Initialize, NoRow, TypeOK
<1>2. time + TTL # 0 BY <1>0, TimesAreInts DEF TypeOK
<1>3. phaseOf(row[d]) = "absent" /\ phaseOf(row'[d]) = "open"
  BY <1>0, <1>1, <1>2 DEF phaseOf
<1>4. \A e \in Depots : (Confirmed(e) <=> Confirmed(e)')
  BY <1>0, <1>1 DEF Confirmed
<1> QED BY <1>0, <1>1, <1>2, <1>3, <1>4 DEF Intake!Open, Overtaken

\* The commit of a confirmation accepts the file frozen under the final key.
LEMMA CommitAccepts ==
    ASSUME IInv, NEW d \in Depots, CommitComplete(d)
    PROVE  \E c \in WellFormed : Intake!Accept(d, c)
<1>0. /\ TypeOK /\ tx[d].pc = "confirm" /\ ~row[d].path
      /\ final[d] \in WellFormed /\ tx[d].user = row[d].userId
      /\ row[d].uploadExpiresAt # 0
      /\ row[d].status = "REJETE" => Overtaken(d)
      /\ processFile[d] = << >>
  BY DEF IInv, DInv, Confirming, Completing, NoSession, Session, CleanedUp,
         Ended, CommitComplete
<1>1. /\ row'[d].path /\ row'[d].userId = row[d].userId
      /\ row'[d].uploadExpiresAt = row[d].uploadExpiresAt
      /\ \A e \in Depots \ {d} : row'[e] = row[e]
      /\ final' = final /\ slow' = slow
      /\ processFile' = [processFile EXCEPT ![d] = <<row[d].userId>>]
  BY <1>0 DEF CommitComplete, TypeOK, Row
<1>2. /\ \/ phaseOf(row[d]) = "open"
         \/ phaseOf(row[d]) = "expired" /\ Overtaken(d)
      /\ phaseOf(row'[d]) = "accepted"
  BY <1>0, <1>1 DEF phaseOf
<1>3. /\ ~Confirmed(d) /\ Confirmed(d)'
      /\ \A e \in Depots \ {d} : (Confirmed(e) <=> Confirmed(e)')
  BY <1>0, <1>1 DEF Confirmed
<1>4. {e \in Depots : Overtaken(e)}' = {e \in Depots : Overtaken(e)}
  BY <1>1 DEF Overtaken
<1> QED BY <1>0, <1>1, <1>2, <1>3, <1>4 DEF Intake!Accept

\* The commit of a cleanup expires an open session, and hides otherwise.
LEMMA CleanupExpires ==
    ASSUME IInv, NEW d \in Depots, CommitCleanup(d)
    PROVE  Intake!Expire(d) \/ \A e \in Depots : Hidden(e)
<1>0. TypeOK /\ row[d].uploadExpiresAt # 0
  BY DEF IInv, DInv, NoSession, CommitCleanup
<1>1. /\ row'[d].path = row[d].path /\ row'[d].userId = row[d].userId
      /\ row'[d].uploadExpiresAt = row[d].uploadExpiresAt
      /\ row[d].path => row'[d] = row[d]
      /\ ~row[d].path => row'[d].status = "REJETE"
      /\ \A e \in Depots \ {d} : row'[e] = row[e]
      /\ final' = final /\ processFile' = processFile /\ slow' = slow
  BY <1>0 DEF CommitCleanup, TypeOK, Row
<1>2. \A e \in Depots : (Confirmed(e) <=> Confirmed(e)')
  BY <1>0, <1>1 DEF Confirmed
<1>3. CASE row[d].path \/ row[d].status = "REJETE"
  BY <1>0, <1>1, <1>2, <1>3 DEF Hidden, phaseOf, depositorOf, fileOf, Overtaken
<1>4. CASE ~row[d].path /\ row[d].status # "REJETE"
  <2>1. phaseOf(row[d]) = "open" /\ phaseOf(row'[d]) = "expired"
    BY <1>0, <1>1, <1>4 DEF phaseOf
  <2> QED BY <1>0, <1>1, <1>2, <2>1 DEF Intake!Expire, Overtaken
<1> QED BY <1>3, <1>4

\* A slow PUT that writes comes late, where the clocks disagree.
LEMMA SlowPutComesLate ==
    ASSUME IInv, NEW d \in Depots, NEW p \in puts[d], FinishPut(d, p)
    PROVE  Intake!ComeLate(d) \/ \A e \in Depots : Hidden(e)
<1>0. TypeOK /\ row[d].uploadExpiresAt # 0
  BY DEF IInv, DInv, NoSession
<1>1. /\ row' = row /\ final' = final /\ processFile' = processFile
      /\ slow' = slow \/ slow' = slow \cup {d}
  BY DEF FinishPut
<1>2. CASE slow' = slow
  BY <1>1, <1>2 DEF Hidden, fileOf, Confirmed, depositorOf, Overtaken
<1>3. CASE slow' = slow \cup {d} /\ ClockSkew > 0
  <2>1. {e \in Depots : Overtaken(e)}' = {e \in Depots : Overtaken(e)} \cup {d}
    BY <1>3 DEF Overtaken
  <2>2. phaseOf(row[d]) # "absent" BY <1>0 DEF phaseOf
  <2> QED BY <1>1, <2>1, <2>2 DEF Intake!ComeLate, Confirmed
<1>4. CASE ~(ClockSkew > 0)
  BY <1>1, <1>4 DEF Hidden, fileOf, Confirmed, depositorOf, Overtaken
<1> QED BY <1>1, <1>2, <1>3, <1>4

\* No other step of a depot is seen: a copy or a deletion under the final key
\* happens to unconfirmed depots only.
LEMMA OthersHide ==
    ASSUME IInv, row' = row, processFile' = processFile, slow' = slow,
           \A e \in Depots : Confirmed(e) => final'[e] = final[e]
    PROVE  \A e \in Depots : Hidden(e)
BY DEF Hidden, fileOf, Confirmed, depositorOf, Overtaken

\* Every step of the upload is a step of the intake, or hidden.
LEMMA StepImplements ==
    ASSUME IInv, IInv', [Next]_vars
    PROVE  [Intake!IntakeNext]_(Intake!intakeVars)
<1>0. TypeOK /\ TypeOK' BY DEF IInv
<1>1. ASSUME NEW d \in Depots, NEW u \in Users, Initialize(d, u)
      PROVE  Intake!IntakeNext
  BY <1>1, InitializeOpens DEF Intake!IntakeNext
<1>2. ASSUME NEW d \in Depots, CommitComplete(d) PROVE Intake!IntakeNext
  BY <1>2, CommitAccepts DEF Intake!IntakeNext
<1>3. ASSUME NEW d \in Depots, CommitCleanup(d)
      PROVE  Intake!IntakeNext \/ UNCHANGED Intake!intakeVars
  BY <1>0, <1>3, CleanupExpires, HiddenStutters DEF Intake!IntakeNext
<1>4. ASSUME row' = row, processFile' = processFile, slow' = slow,
             \A e \in Depots : Confirmed(e) => final'[e] = final[e]
      PROVE  UNCHANGED Intake!intakeVars
  BY <1>0, <1>4, OthersHide, HiddenStutters
<1>5. ASSUME NEW d \in Depots, CopyToFinal(d) \/ DeleteFinal(d)
      PROVE  UNCHANGED Intake!intakeVars
  <2>1. ~Confirmed(d)
    BY <1>5 DEF IInv, DInv, Confirming, Completing, CleaningUp, Confirmed,
                CopyToFinal, DeleteFinal
  <2>2. /\ row' = row /\ processFile' = processFile /\ slow' = slow
        /\ \A e \in Depots \ {d} : final'[e] = final[e]
    BY <1>0, <1>5 DEF CopyToFinal, DeleteFinal, Rollback, TypeOK
  <2> QED BY <1>4, <2>1, <2>2
<1>6. ASSUME row' = row, processFile' = processFile, final' = final,
             slow' = slow
      PROVE  UNCHANGED Intake!intakeVars
  BY <1>4, <1>6
<1>7. ASSUME NEW d \in Depots, CompleteStep(d)
      PROVE  Intake!IntakeNext \/ UNCHANGED Intake!intakeVars
  <2>1. CASE HeadStaging(d) \/ AbortComplete(d)
    BY <1>6, <2>1 DEF HeadStaging, AbortComplete, Rollback
  <2> QED BY <1>2, <1>5, <1>7, <2>1 DEF CompleteStep
<1>8. ASSUME NEW d \in Depots, CleanupStep(d)
      PROVE  Intake!IntakeNext \/ UNCHANGED Intake!intakeVars
  <2>1. CASE DeleteStaging(d) \/ AbortCleanup(d)
    BY <1>6, <2>1 DEF DeleteStaging, AbortCleanup
  <2> QED BY <1>3, <1>5, <1>8, <2>1 DEF CleanupStep
<1>9. ASSUME NEW d \in Depots, Browser(d)
      PROVE  Intake!IntakeNext \/ UNCHANGED Intake!intakeVars
  <2>1. ASSUME NEW u \in Users, StartComplete(d, u)
        PROVE  UNCHANGED Intake!intakeVars
    BY <1>6, <2>1 DEF StartComplete
  <2>2. ASSUME NEW c \in Contents, StartPut(d, c)
        PROVE  UNCHANGED Intake!intakeVars
    BY <1>6, <2>2 DEF StartPut
  <2> QED BY <1>1, <1>9, <2>1, <2>2 DEF Browser
<1>10. ASSUME NEW d \in Depots, StartCleanup(d)
       PROVE  UNCHANGED Intake!intakeVars
  BY <1>6, <1>10 DEF StartCleanup
<1>11. ASSUME NEW d \in Depots, NEW p \in puts[d], FinishPut(d, p)
       PROVE  Intake!IntakeNext \/ UNCHANGED Intake!intakeVars
  BY <1>0, <1>11, SlowPutComesLate, HiddenStutters DEF Intake!IntakeNext
<1>12. CASE Tick BY <1>6, <1>12 DEF Tick
<1>13. CASE UNCHANGED vars BY <1>6, <1>13 DEF vars
<1> QED BY <1>7, <1>8, <1>9, <1>10, <1>11, <1>12, <1>13 DEF Next

\* The direct upload implements the abstract intake.
THEOREM UploadImplementsIntake == Spec => ImplementsIntake
<1>1. IInv /\ IInv' /\ [Next]_vars => [Intake!IntakeNext]_(Intake!intakeVars)
  BY StepImplements
<1> QED
  BY <1>1, IntakeInitially, Invariant, PTL
  DEF Spec, ImplementsIntake, Intake!IntakeSpec

============================================================================
