-------------------------- MODULE EvaluationTeardown --------------------------
(***************************************************************************)
(* The finally block of prepare_extension_eval: each step runs only if what *)
(* it depends on has been achieved, and at the end the stores themselves    *)
(* are asked what is left (scripts/archive_world_bank_extension_eval.py).   *)
(***************************************************************************)
EXTENDS EvaluationPreparation

\* A thread that does not end within the timeout leaves everything standing.
StopApi(w) ==
    /\ At(w, "stop")
    /\ \/ Sound /\ Into(w, [Go(w, "logging") EXCEPT !.api = FALSE, !.stopped = TRUE])
       \/ prep[w].api /\ Fault /\ Into(w, Bad(w, "dropSchema"))
    /\ Reading

ShutdownLogging(w) ==
    /\ At(w, "logging")
    /\ \/ Sound /\ Into(w, [Go(w, "residuals") EXCEPT !.quiet = TRUE])
       \/ Fault /\ Into(w, Bad(w, "residuals"))
    /\ Reading

\* _verify_zero_residuals once more, if the retrieval was begun.
CleanupRetrieval(w) ==
    /\ At(w, "residuals")
    /\ LET none == ~HasRows(world) /\ world.database = None /\ ~world.local
       IN \/ /\ Sound
             /\ Into(w, IF prep[w].asked /\ ~none THEN Bad(w, "dispose")
                        ELSE [Go(w, "dispose") EXCEPT !.cleaned = TRUE])
          \/ prep[w].asked /\ Fault /\ Into(w, Bad(w, "dispose"))
    /\ Reading

DisposeRuntime(w) ==
    /\ At(w, "dispose")
    /\ \/ Sound /\ Into(w, [Go(w, "dropSchema") EXCEPT !.disposed = TRUE])
       \/ prep[w].configured /\ Fault /\ Into(w, Bad(w, "dropSchema"))
    /\ Reading

-----------------------------------------------------------------------------
\* Take a container away, if "may"; go on either way.
Drop(w, may, without, next) ==
    IF may
    THEN \/ Sound /\ world' = without /\ Into(w, Go(w, next))
         \/ Fault /\ world' \in {world, without} /\ Into(w, Bad(w, next))
    ELSE Sound /\ UNCHANGED world /\ Into(w, Go(w, next))

\* Mutant: whoever has tried to create the schema drops it.
MayDropTried(w) == prep[w].stopped /\ prep[w].disposed
\* Mutant: the schema goes while the API may still be using it.
MayDropAnyway(w) == "schema" \in prep[w].made
\* The schema needs the API stopped and the connection pool closed.
MayDropSchema(w) == "schema" \in prep[w].made /\ prep[w].stopped /\ prep[w].disposed

DropSchema(w) ==
    /\ At(w, "dropSchema")
    /\ LET dropped == [world EXCEPT !.schema = None, !.user = FALSE, !.login = FALSE,
                                    !.bases = {}, !.projects = {}, !.documents = {}]
       IN IF "schema" \in prep[w].made /\ ~MayDropSchema(w)
          THEN Sound /\ UNCHANGED world /\ Into(w, Bad(w, "dropDatabase"))
          ELSE Drop(w, MayDropSchema(w), dropped, "dropDatabase")
    /\ Alone

\* The retrieval has deleted the database itself when its cleanup was verified.
DropDatabase(w) ==
    /\ At(w, "dropDatabase")
    /\ Drop(w, /\ "database" \in prep[w].made /\ prep[w].stopped
               /\ ~(prep[w].asked /\ prep[w].cleaned),
            [world EXCEPT !.database = None, !.vectors = {}], "dropRunDir")
    /\ Alone

\* The directory is kept for recovery when the retrieval left something.
DropRunDirectory(w) ==
    /\ At(w, "dropRunDir")
    /\ Drop(w, "runDir" \in prep[w].made /\ prep[w].stopped /\ prep[w].cleaned,
            [world EXCEPT !.runDir = None, !.local = FALSE, !.uploads = {}, !.threads = {}],
            "dropLogs")
    /\ Alone

\* The logs go by name alone, whoever has opened them.
DropLogs(w) ==
    /\ At(w, "dropLogs")
    /\ Drop(w, prep[w].stopped /\ prep[w].quiet, [world EXCEPT !.logDir = None], "verify")
    /\ Alone

\* Mutant: what was not created need not be looked for.
GoneByFlags(w) ==
    /\ "schema" \in prep[w].made => world.schema = None
    /\ "database" \in prep[w].made => world.database = None
    /\ "runDir" \in prep[w].made => world.runDir = None
\* _verify_cleanup asks the stores, whatever the run believes it has created.
Gone(w) ==
    /\ world.schema = None /\ world.database = None
    /\ world.runDir = None /\ world.logDir = None

VerifyCleanup(w) ==
    /\ At(w, "verify")
    /\ \/ Sound /\ Into(w, [Go(w, "artifacts") EXCEPT !.verified = Gone(w) /\ prep[w].ok,
                                                      !.ok = Gone(w) /\ @])
       \/ Fault /\ Into(w, Bad(w, "artifacts"))
    /\ Reading

\* Dataset and summary, over those of any earlier run of this id.
WriteArtifacts(w) ==
    /\ At(w, "artifacts")
    /\ \/ Sound /\ world' = [world EXCEPT !.results = TRUE] /\ Into(w, Go(w, "over"))
       \/ Fault /\ UNCHANGED world /\ Into(w, Lost(w, "over"))
    /\ Alone

\* The dataset is returned only if the whole preparation and its cleanup went well.
Returns(w) == At(w, "over") /\ prep[w].entries /\ ~prep[w].error /\ prep[w].ok

TeardownStep(w) ==
    \/ StopApi(w) \/ ShutdownLogging(w) \/ CleanupRetrieval(w) \/ DisposeRuntime(w)
    \/ DropSchema(w) \/ DropDatabase(w) \/ DropRunDirectory(w) \/ DropLogs(w)
    \/ VerifyCleanup(w) \/ WriteArtifacts(w)
=============================================================================
