---------------------------- MODULE DepotIntake ----------------------------
(***************************************************************************)
(* What the direct upload promises a depositor and the worker, without     *)
(* URLs, objects, locks, clocks or retries: a session that is opened ends  *)
(* at most once, either accepted, with one verified file that never        *)
(* changes and one processing request for it, or expired, with none.  It   *)
(* expires for good, unless a transfer came late (late), which the clocks  *)
(* of the system must disagree to let in.                                  *)
(***************************************************************************)
EXTENDS Sequences

CONSTANTS Depots, Users, Verified, NoContent, NoUser

VARIABLES
    phase,      \* absent, open, accepted or expired
    depositor,  \* who opened the session
    file,       \* the file of an accepted session
    requests,   \* the processing requests made for it
    late        \* sessions that a late transfer may revive

intakeVars == <<phase, depositor, file, requests, late>>

IntakeInit ==
    /\ phase = [d \in Depots |-> "absent"]
    /\ depositor = [d \in Depots |-> NoUser]
    /\ file = [d \in Depots |-> NoContent]
    /\ requests = [d \in Depots |-> << >>]
    /\ late = {}

Open(d, u) ==
    /\ phase[d] = "absent"
    /\ phase' = [phase EXCEPT ![d] = "open"]
    /\ depositor' = [depositor EXCEPT ![d] = u]
    /\ UNCHANGED <<file, requests, late>>

Accept(d, c) ==
    /\ phase[d] = "open" \/ (phase[d] = "expired" /\ d \in late)
    /\ phase' = [phase EXCEPT ![d] = "accepted"]
    /\ file' = [file EXCEPT ![d] = c]
    /\ requests' = [requests EXCEPT ![d] = <<depositor[d]>>]
    /\ UNCHANGED <<depositor, late>>

Expire(d) ==
    /\ phase[d] = "open"
    /\ phase' = [phase EXCEPT ![d] = "expired"]
    /\ UNCHANGED <<depositor, file, requests, late>>

\* A transfer to a session's URL arrives late.
ComeLate(d) ==
    /\ phase[d] # "absent"
    /\ late' = late \cup {d}
    /\ UNCHANGED <<phase, depositor, file, requests>>

IntakeNext ==
    \E d \in Depots :
        \/ \E u \in Users : Open(d, u)
        \/ \E c \in Verified : Accept(d, c)
        \/ Expire(d)
        \/ ComeLate(d)

IntakeSpec == IntakeInit /\ [][IntakeNext]_intakeVars

============================================================================
