-------------------------- MODULE EvaluationCleanup --------------------------
(***************************************************************************)
(* The cleanup half of the acceptance runs: known documents, projects and   *)
(* the principal, then the isolated containers, and the count of what is    *)
(* left (_cleanup_seeded_scope, _cleanup_and_verify and the finally blocks  *)
(* of the runs).                                                            *)
(***************************************************************************)
EXTENDS EvaluationSeeding

\* Mutant: what fails is forgotten.
Forgotten(step) == run.failed
\* Every failure is collected and the cleanup goes on.
Noted(step) == run.failed \cup {step}

\* A failed run discards the capture it may have written; that the file cannot
\* be removed is swallowed, and a snapshot stays.
Unlinked == IF run.phase = "dataset" THEN "none" ELSE capture
DiscardCapture ==
    /\ run.pc = "discard" /\ run.kind = "calibration"
    /\ \/ Sound /\ capture' = Unlinked
       \/ Fault /\ UNCHANGED capture
    /\ run' = [run EXCEPT !.pc = IF run.user THEN "documents" ELSE "close"]
    /\ UNCHANGED world

\* What an unsuccessful deletion of a document may have done by then.
PartlyDeleted(d) ==
    {world, [world EXCEPT !.vectors = @ \ {d}],
     [world EXCEPT !.vectors = @ \ {d}, !.uploads = @ \ {d}],
     [world EXCEPT !.vectors = @ \ {d}, !.uploads = @ \ {d}, !.documents = @ \ {d}]}

\* A request that is answered with another status is counted and the next one
\* made; a broken connection ends the whole scope.
Unanswered(done, step) ==
    \/ run' = [done EXCEPT !.failed = Noted(step)]
    \/ run' = [run EXCEPT !.failed = Noted("scope"), !.pc = "close"]

\* The documents one after the other; the code begins with the latest.
DeleteSeeded ==
    /\ run.pc = "documents" /\ run.todo # {}
    /\ \E d \in run.todo :
          LET done == [run EXCEPT !.todo = @ \ {d}]
          IN \/ /\ Sound /\ run' = done
                /\ world' = [world EXCEPT !.vectors = @ \ {d}, !.uploads = @ \ {d},
                                          !.documents = @ \ {d}]
             \/ Fault /\ world' \in PartlyDeleted(d) /\ Unanswered(done, "document")
    /\ UNCHANGED capture

\* The projects the run knows of come next.
TurnToProjects ==
    /\ run.pc = "documents" /\ run.todo = {}
    /\ run' = [run EXCEPT !.pc = "removal", !.todo = run.listed]
    /\ UNCHANGED <<world, faults, capture>>

\* A project is deleted with its threads once it has no document; 409 else.
RemoveSeededProject ==
    /\ run.pc = "removal" /\ run.todo # {}
    /\ \E p \in run.todo :
          LET done == [run EXCEPT !.todo = @ \ {p}]
              gone == [world EXCEPT !.projects = @ \ {p}, !.threads = @ \ {p}]
          IN IF \E d \in world.documents : Home[d] = p
             THEN Sound /\ UNCHANGED world /\ run' = [done EXCEPT !.failed = Noted("project")]
             ELSE \/ Sound /\ world' = gone /\ run' = done
                  \/ Fault /\ world' \in {world, gone} /\ Unanswered(done, "project")
    /\ UNCHANGED capture

\* Only a client that has logged in logs out; the row stays, revoked.
LogOut ==
    /\ run.pc = "removal" /\ run.todo = {}
    /\ LET done == [run EXCEPT !.pc = "purge"]
       IN \/ Sound /\ run' = done
          \/ run.token /\ Fault /\ Unanswered(done, "logout")
    /\ UNCHANGED <<world, capture>>

\* One transaction for the rows no route deletes; a project that is left still
\* references its knowledge base and its owner.
PurgePrincipal ==
    /\ run.pc = "purge"
    /\ LET done == [run EXCEPT !.pc = "close"]
           purged == [world EXCEPT !.user = FALSE, !.login = FALSE, !.bases = {}]
       IN \/ Sound /\ world.projects = {} /\ world' = purged /\ run' = done
          \/ /\ (IF world.projects = {} THEN Fault ELSE Sound)
             /\ UNCHANGED world
             /\ run' = [done EXCEPT !.failed = Noted("principal")]
    /\ UNCHANGED capture

-----------------------------------------------------------------------------
\* The calibration ends here, and a failed cleanup costs it its capture; the
\* others look at the stores again.
CloseApi ==
    /\ run.pc = "close"
    /\ IF run.kind = "calibration"
       THEN /\ run' = [run EXCEPT !.pc = "over"]
            /\ IF run.failed = {} THEN Sound /\ UNCHANGED capture
               ELSE \/ Sound /\ capture' = Unlinked
                    \/ Fault /\ UNCHANGED capture
       ELSE /\ UNCHANGED capture
            /\ LET next == [run EXCEPT !.pc = IF Isolated THEN "chroma" ELSE "verify"]
               IN \/ Sound /\ run' = next
                  \/ Isolated /\ Fault /\ run' = [next EXCEPT !.failed = Noted("close")]
    /\ UNCHANGED world

\* The collection goes before its database.
DeleteIsolatedChroma ==
    /\ run.pc = "chroma"
    /\ LET next == [run EXCEPT !.pc = "local"]
           emptied == [world EXCEPT !.vectors = {}]
       IN \/ Sound /\ run' = next /\ world' = [emptied EXCEPT !.database = None]
          \/ /\ Fault /\ run' = [next EXCEPT !.failed = Noted("chroma")]
             /\ world' \in {world, emptied, [emptied EXCEPT !.database = None]}
    /\ UNCHANGED capture

\* Local paths are removed only when nothing is left in them.
Removable == world.uploads = {} /\ world.threads = {}

RemoveLocalTargets ==
    /\ run.pc = "local"
    /\ LET next == [run EXCEPT !.pc = "verify"]
           refused == [next EXCEPT !.failed = Noted("local")]
           files == [world EXCEPT !.local = FALSE, !.uploads = {}, !.threads = {}]
           gone == [files EXCEPT !.runDir = None]
       IN IF Removable
          THEN \/ Sound /\ run' = next /\ world' = gone
               \/ Fault /\ run' = refused /\ world' \in {world, files, gone}
          ELSE Sound /\ run' = refused /\ UNCHANGED world
    /\ UNCHANGED capture

\* What the check after the cleanup still finds.
Left ==
    IF Isolated THEN HasRows(world) \/ world.database # None \/ world.local
    ELSE HasData(world)

VerifyZero ==
    /\ run.pc = "verify"
    /\ LET over == [run EXCEPT !.pc = IF run.kind = "answers" THEN "report" ELSE "over"]
       IN \/ Sound /\ run' = IF Left THEN [over EXCEPT !.failed = Noted("verify")] ELSE over
          \/ Fault /\ run' = [over EXCEPT !.failed = Noted("verify")]
    /\ UNCHANGED <<world, capture>>

CleanupStep ==
    \/ DiscardCapture \/ DeleteSeeded \/ TurnToProjects \/ RemoveSeededProject \/ LogOut
    \/ PurgePrincipal \/ CloseApi \/ DeleteIsolatedChroma \/ RemoveLocalTargets \/ VerifyZero
=============================================================================
