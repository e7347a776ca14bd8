--------------------------- MODULE MCDepotPipeline ---------------------------
(* Values of the constants of DepotPipeline for TLC.                        *)
EXTENDS DepotPipeline

Accepted == [droits |-> "accorde", controles |-> "valide",
             sandre |-> "conforme", user |-> "complet"]

\* One file per way a depot can end: what comes after the first bad answer
\* is never asked.
EveryEnding ==
    {Accepted,
     [Accepted EXCEPT !.droits = "refuse"],
     [Accepted EXCEPT !.droits = "illisible"],
     [Accepted EXCEPT !.controles = "invalide"],
     [Accepted EXCEPT !.controles = "erreur"],
     [Accepted EXCEPT !.sandre = "nonConforme"],
     [Accepted EXCEPT !.sandre = "FAILED"],
     [Accepted EXCEPT !.user = "sansContact"],
     [Accepted EXCEPT !.controles = "invalide", !.user = "sansEmail"]}

OnlyAccepted == {Accepted}
OnlyRejected == {[Accepted EXCEPT !.controles = "invalide"],
                 [Accepted EXCEPT !.sandre = "nonConforme"]}

Anywhere == Queues \cup {"worker", "webhook"}
Worker == Queues \cup {"worker"}
AfterTheAnswer == {"process_after_masa_webhook", "diffusion_rapport", "email"}
ThePoll == {"controle_sandre_poll"}
TheTransfer == {"send_to_sftp"}
TheWebhook == {"webhook"}

----------------------------------------------------------------------------
(* What the documentation says and the code does not do.                    *)

\* "Save MASA payload, enqueue process_after_masa_webhook": a return that was
\* answered with success ends up in the depot.  The second call of a return
\* whose first call failed between the two is told "already processed".
AnsweredReturnIsApplied ==
    /\ \E c \in Calls : calls[c].pc = "ok"
    /\ \A c \in Calls : calls[c].pc \notin {"save", "send"}
    /\ ~Alive
    => depot.status = StatusOf(masa)

\* "MASA return: INTEGRE, depot integrated, report, end": nothing follows the
\* integration.  A poll that outlived its minute was run twice, and the later
\* of the two sets the depot "en cours" again; a transfer that fails after its
\* .ack sets it REJETE, and its retry "en cours", although MASA has answered.
IntegratedIsTheEnd == [][depot.status = "INTEGRE" => depot'.status = "INTEGRE"]_vars
=============================================================================
