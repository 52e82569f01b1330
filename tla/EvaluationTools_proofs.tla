------------------------ MODULE EvaluationTools_proofs ------------------------
(***************************************************************************)
(* The acceptance tools for any seed, plan, number of preparers and faults: *)
(* what a run and its cleanup report is true of the stores, and preparers   *)
(* that share a run id keep to their own containers.                        *)
(***************************************************************************)
EXTENDS AnswerBudget_proofs

-----------------------------------------------------------------------------
(***************************************************************************)
(* The course of a run.                                                     *)
(***************************************************************************)
\* Before anything can have gone wrong.
Forward == {"idle", "start", "register", "login", "projects", "upload", "confirm",
            "use", "persist", "probe", "capture", "result"}
Ended == {"over", "refused"}
\* As long as the run needs its database.
PreChroma == RunPc \ ({"idle", "local", "verify", "report"} \cup Ended)

RunShape ==
    /\ run.pc = "confirm" => run.doc \in SeedDoc
    /\ run.pc \in {"capture", "result"} => run.kind = "calibration"
    /\ run.pc = "probe" => run.kind = "retrieval"
    /\ run.pc = "persist" => run.kind = "persistence"
    /\ run.pc = "report" => run.kind = "answers"
    /\ run.pc \in {"chroma", "local"} => Isolated
    /\ run.pc \in {"verify", "report"} => run.kind # "calibration"
    /\ run.pc = "discard" => run.kind \in {"calibration", "answers"} /\ run.primary
    /\ run.pc \in Forward => ~run.primary /\ run.failed = {}
    /\ run.pc = "refused" => run.primary
    /\ run.phase = "dataset" => run.kind = "calibration"

-----------------------------------------------------------------------------
(***************************************************************************)
(* The preparers, their containers and their one retrieval.                 *)
(***************************************************************************)
HoldsSchema == {"path", "database", "runDir", "configure", "start", "ready",
                "retrieve", "retrieving"}
HoldsDatabase == HoldsSchema \ {"path", "database"}
HoldsDirectory == HoldsDatabase \ {"runDir"}
Starting == HoldsSchema \cup {"absent", "idle", "inspect", "schema", "stop"}
AfterSchema == {"dropDatabase", "dropRunDir", "dropLogs", "verify", "artifacts", "over"}
AfterDatabase == AfterSchema \ {"dropDatabase"}

\* What a preparer has made when it is where it is, and what it has achieved.
Shaped(p) ==
    /\ p.pc \in HoldsSchema => "schema" \in p.made
    /\ p.pc \in HoldsDatabase => "database" \in p.made
    /\ p.pc \in HoldsDirectory => "runDir" \in p.made
    /\ p.pc \in Starting => ~p.stopped
    /\ p.pc \in {"absent", "idle", "inspect", "schema"} => p.made = {}
    /\ p.api => "schema" \in p.made /\ ~p.stopped
    /\ p.asked => "runDir" \in p.made
    /\ p.pc = "retrieving" => p.asked
    /\ p.asked => p.pc \notin Starting \ {"retrieving", "stop"}
    /\ p.verified => p.pc \in {"artifacts", "over"}
    /\ p.pc \notin Starting => ~p.api \/ ~p.ok
    /\ p.pc \in {"artifacts", "over"} => p.verified \/ ~p.ok \/ p.error
    /\ p.entries => p.asked /\ p.pc \notin Starting \ {"stop"}
PrepShape(w) == Shaped(prep[w])

\* Who remembers having created the schema and has not dropped it, or has an
\* API on it, is its creator.
SchemaInv ==
    \A w \in Preparer :
        "schema" \in prep[w].made /\ (prep[w].api \/ prep[w].pc \notin AfterSchema)
            => world.schema = w

\* The directory of the results stays, so only one preparer ever has its own.
DirectoryInv ==
    /\ \A w \in Preparer : "runDir" \in prep[w].made => world.results
    /\ \A v, w \in Preparer :
          "runDir" \in prep[v].made /\ "runDir" \in prep[w].made => v = w

\* So there is one retrieval, and it belongs to who waits for it.
RetrievalInv ==
    \A w \in Preparer :
        /\ prep[w].pc # "absent" =>
              /\ run.kind = "retrieval" /\ capture = "none"
              /\ run.pc \notin Ended \cup {"idle"} =>
                    \E v \in Preparer : prep[v].pc = "retrieving"
              /\ run.pc # "idle" => \E v \in Preparer : prep[v].asked
        /\ prep[w].asked /\ prep[w].pc # "retrieving" => run.pc \in Ended
        /\ prep[w].asked => run.pc # "idle"
        /\ prep[w].entries => run.pc = "over" /\ ~run.primary /\ run.failed = {}

\* As long as no retrieval has come to remove its database, a database belongs
\* to the preparer that remembers having created it.
DatabaseInv ==
    (\A v \in Preparer :
        prep[v].asked => prep[v].pc = "retrieving" /\ run.pc \in PreChroma)
    => \A w \in Preparer :
          "database" \in prep[w].made /\ prep[w].pc \notin AfterDatabase
              => world.database = w

GoneInv ==
    \A w \in Preparer :
        prep[w].verified =>
            /\ ~prep[w].api /\ world.logDir # w
            /\ \A c \in Container : world[c] # w

PrepInv ==
    /\ \A w \in Preparer : PrepShape(w)
    /\ SchemaInv /\ DirectoryInv /\ RetrievalInv /\ DatabaseInv /\ GoneInv

-----------------------------------------------------------------------------
(***************************************************************************)
(* What the stores of a run hold.                                           *)
(***************************************************************************)
\* A database that is gone holds no vectors, local paths that are gone neither
\* files nor threads.
IsolatedInv ==
    Isolated =>
        /\ run.pc \in PreChroma => world.database # None
        /\ world.database = None => world.vectors = {}
        /\ ~world.local => world.uploads = {} /\ world.threads = {}
        /\ run.kind = "answers" /\ run.pc \in {"confirm", "use"} => world.local

\* An isolated run knows of its user before it logs in, and either purges the
\* login or reports that it has not.
LoginInv ==
    Isolated =>
        /\ run.pc = "login" => run.user
        /\ run.pc \in {"idle", "start", "register"} => ~world.login
        /\ world.login => run.user \/ run.pc \in Ended
        /\ world.login /\ run.pc \in {"close", "chroma", "local", "verify", "report", "over"}
              => run.failed \cap {"scope", "principal"} # {}

\* The calibration knows all its projects before its first document, and a
\* document it cannot delete keeps a project it tries to remove.
CalibrationInv ==
    run.kind = "calibration" =>
        /\ world.threads = {}
        /\ world.vectors \subseteq world.documents
        /\ world.uploads \subseteq world.documents
        /\ run.pc = "confirm" => run.doc \in world.documents
        /\ run.pc \in {"upload", "confirm", "use", "capture", "result"}
              \/ world.documents # {} => run.listed = SeedProject
        /\ run.failed = {} =>
              /\ run.pc = "removal" => \A d \in world.documents : Home[d] \in run.todo
              /\ run.pc = "purge" => world.documents = {}
              /\ run.pc = "close" /\ run.user => ~HasData(world)

\* As long as no request has failed, the calibration knows all it has to delete.
FaultlessInv ==
    run.kind = "calibration" =>
        /\ run.primary \/ run.failed # {} => faults >= 1
        /\ faults = 0 =>
              /\ world.documents \subseteq run.seeded /\ world.projects \subseteq run.listed
              /\ run.pc = "documents" => world.documents \subseteq run.todo
              /\ run.pc = "removal" =>
                    world.documents = {} /\ world.projects \subseteq run.todo
              /\ run.pc = "purge" => world.projects = {}

CaptureInv ==
    /\ capture = "old" => run.kind = "calibration" /\ run.pc \in {"start", "refused"}
    /\ run.pc = "start" => capture # "new"
    /\ run.phase = "dataset" /\ capture = "new" =>
          /\ run.primary /\ run.pc # "discard" => faults > 1
          /\ run.failed # {} /\ run.pc = "over" => faults > 1

\* The answer run completes its plan or records that it has failed, and what
\* it calls verified is so; nobody else is at the stores by then.
ReportInv ==
    /\ run.kind = "answers" /\ ~run.primary /\ run.pc \notin Forward
          => batch.done = Len(Plan)
    /\ run.kind = "answers" /\ run.failed = {} /\ run.pc \in {"report", "over"}
          => ~Residue
    /\ report.verified \/ report.status = "completed" =>
          run.kind = "answers" /\ run.pc = "over"
    /\ ReportIsTrue

-----------------------------------------------------------------------------
LEMMA OwnerFacts ==
    /\ None \notin Preparer /\ Operator \notin Preparer /\ Operator # None
    /\ None \in Owner /\ Operator \in Owner /\ \A w \in Preparer : w \in Owner
BY OwnerAssumption DEF Owner

LEMMA FaultsType ==
    ASSUME faults \in 0 .. MaxFaults, Sound \/ Fault
    PROVE  /\ faults' \in 0 .. MaxFaults
           /\ Fault => faults' = faults + 1
           /\ faults' >= faults
BY FaultAssumption DEF Sound, Fault

LEMMA FailType ==
    ASSUME run \in Run
    PROVE  /\ Fail \in Run /\ Refused \in Run /\ Cleaning \in Run
           /\ Fail.pc \in {"discard", "documents", "close"}
<1> DEFINE pc == IF run.kind \in {"calibration", "answers"} THEN "discard"
                 ELSE IF run.user THEN "documents" ELSE "close"
<1>1. pc \in {"discard", "documents", "close"} /\ pc \in RunPc
  BY DEF RunPc
<1>2. Fail = [run EXCEPT !.primary = TRUE, !.doc = None, !.todo = run.seeded, !.pc = pc]
  BY DEF Fail
<1> HIDE DEF pc
<1>3. Fail \in Run /\ Fail.pc = pc
  BY <1>1, <1>2 DEF Run
<1>4. Refused \in Run
  BY DEF Refused, Run, RunPc
<1>5. Cleaning \in Run
  BY DEF Cleaning, Run, RunPc
<1> QED
  BY <1>1, <1>3, <1>4, <1>5

LEMMA NewRunType ==
    ASSUME NEW kind \in Kind, NEW phase \in Phase
    PROVE  NewRun(kind, phase) \in Run
BY DEF NewRun, Run, RunPc

LEMMA PrepTypes ==
    ASSUME prep \in [Preparer -> Prep], NEW w \in Preparer, NEW pc \in PrepPc
    PROVE  Go(w, pc) \in Prep /\ Lost(w, pc) \in Prep /\ Bad(w, pc) \in Prep
BY DEF Prep, Go, Lost, Bad

LEMMA IntoType ==
    ASSUME prep \in [Preparer -> Prep], NEW w \in Preparer, NEW record \in Prep,
           Into(w, record)
    PROVE  /\ prep' \in [Preparer -> Prep] /\ prep'[w] = record
           /\ \A v \in Preparer \ {w} : prep'[v] = prep[v]
BY DEF Into

\* The types of what the steps of a run change.
RunTypes == world \in World /\ run \in Run /\ capture \in {"none", "old", "new"}

LEMMA AttemptType ==
    ASSUME RunTypes, NEW after \in World, NEW next \in Run, NEW otherwise \in Run,
           Attempt(after, next, otherwise)
    PROVE  world' \in World /\ run' \in Run /\ (Sound \/ Fault)
BY DEF Attempt, RunTypes

LEMMA LookType ==
    ASSUME RunTypes, NEW next \in Run, Look(next)
    PROVE  RunTypes' /\ (Sound \/ Fault)
BY FailType DEF Look, RunTypes

LEMMA SeedTypes ==
    ASSUME RunTypes, run.pc = "confirm" => run.doc \in SeedDoc, SeedStep
    PROVE  RunTypes' /\ (Sound \/ Fault)
<1> USE FailType DEF RunTypes
<1>1. CASE AssertEmpty
  BY <1>1 DEF AssertEmpty, Run, RunPc
<1>2. CASE BeginCalibration
  BY <1>2 DEF BeginCalibration, DropOldCapture, Run, RunPc
<1>3. CASE RegisterPrincipal
  <2>1. [world EXCEPT !.user = TRUE] \in World
    BY DEF World
  <2>0. RememberedAtOnce \in BOOLEAN
    BY DEF RememberedAtOnce, Isolated
  <2>2. [run EXCEPT !.pc = "login", !.user = RememberedAtOnce] \in Run
    BY <2>0 DEF Run, RunPc
  <2> QED
    BY <1>3, <2>1, <2>2, AttemptType DEF RegisterPrincipal
<1>4. CASE LoginPrincipal
  <2>1. [world EXCEPT !.login = TRUE] \in World
    BY DEF World
  <2>2. [run EXCEPT !.pc = "projects", !.user = TRUE, !.token = TRUE] \in Run
    BY DEF Run, RunPc
  <2> QED
    BY <1>4, <2>1, <2>2, AttemptType DEF LoginPrincipal
<1>5. CASE SeedProjects
  <2>1. PICK p \in SeedProject :
          Attempt([world EXCEPT !.projects = @ \cup {p}, !.bases = @ \cup {p}],
                  [run EXCEPT !.listed = @ \cup {p},
                      !.pc = IF run.listed \cup {p} = SeedProject THEN "upload" ELSE "projects"],
                  Fail)
    BY <1>5 DEF SeedProjects
  <2>2. [world EXCEPT !.projects = @ \cup {p}, !.bases = @ \cup {p}] \in World
    BY DEF World
  <2>3. [run EXCEPT !.listed = @ \cup {p},
            !.pc = IF run.listed \cup {p} = SeedProject THEN "upload" ELSE "projects"] \in Run
    BY DEF Run, RunPc
  <2> QED
    BY <1>5, <2>1, <2>2, <2>3, AttemptType DEF SeedProjects
<1>6. CASE SeedUpload
  <2>1. PICK d \in SeedDoc :
          Attempt([world EXCEPT !.documents = @ \cup {d}, !.uploads = @ \cup {d},
                                !.local = TRUE],
                  [run EXCEPT !.seeded = @ \cup {d}, !.doc = d, !.pc = "confirm"], Fail)
    BY <1>6 DEF SeedUpload
  <2>2. [world EXCEPT !.documents = @ \cup {d}, !.uploads = @ \cup {d}, !.local = TRUE]
           \in World
    BY DEF World
  <2>3. [run EXCEPT !.seeded = @ \cup {d}, !.doc = d, !.pc = "confirm"] \in Run
    BY DEF Run, RunPc
  <2> QED
    BY <1>6, <2>1, <2>2, <2>3, AttemptType DEF SeedUpload
<1>7. CASE SeedConfirm
  <2>1. [world EXCEPT !.vectors = @ \cup {run.doc}] \in World
    BY <1>7 DEF World, SeedConfirm
  <2>2. [run EXCEPT !.doc = None,
                    !.pc = IF run.seeded = SeedDoc THEN "use" ELSE "upload"] \in Run
    BY DEF Run, RunPc
  <2> QED
    BY <1>7, <2>1, <2>2, AttemptType DEF SeedConfirm
<1>8. CASE CollectOutcomes \/ RankQueries \/ DiagnoseRetrieval \/ CompareFusions
  <2>1. \A pc \in RunPc : [run EXCEPT !.pc = pc] \in Run
    BY DEF Run
  <2> QED
    BY <1>8, <2>1, LookType
       DEF CollectOutcomes, RankQueries, DiagnoseRetrieval, CompareFusions, RunPc
<1>9. CASE ProbeGraph
  <2>1. \A left \in SUBSET {"probe"} : [world EXCEPT !.threads = left, !.local = TRUE] \in World
    BY DEF World
  <2>2. [world EXCEPT !.local = TRUE] \in World
    BY DEF World
  <2> QED
    BY <1>9, <2>1, <2>2 DEF ProbeGraph
<1>10. CASE AskLegacy
  <2>1. \A talk \in SUBSET SeedProject : [world EXCEPT !.threads = talk] \in World
    BY DEF World
  <2> QED
    BY <1>10, <2>1 DEF AskLegacy
<1>11. CASE WriteCapture \/ WriteResult
  <2>1. \A pc \in RunPc : [run EXCEPT !.pc = pc] \in Run /\ [Cleaning EXCEPT !.pc = pc] \in Run
    BY DEF Run
  <2> QED
    BY <1>11, <2>1 DEF WriteCapture, WriteResult, RunPc
<1> QED
  BY <1>1, <1>2, <1>3, <1>4, <1>5, <1>6, <1>7, <1>8, <1>9, <1>10, <1>11 DEF SeedStep

LEMMA FailedType ==
    ASSUME run \in Run, NEW r \in Run, NEW step \in Step
    PROVE  [r EXCEPT !.failed = Noted(step)] \in Run
<1>1. Noted(step) \in SUBSET Step
  BY DEF Noted, Run
<1> QED
  BY <1>1 DEF Run

LEMMA UnansweredType ==
    ASSUME run \in Run, NEW done \in Run, NEW step \in Step, Unanswered(done, step)
    PROVE  run' \in Run
<1>1. CASE run' = [done EXCEPT !.failed = Noted(step)]
  BY <1>1, FailedType
<1>2. CASE run' = [run EXCEPT !.failed = Noted("scope"), !.pc = "close"]
  <2>1. Noted("scope") \in SUBSET Step
    BY DEF Noted, Run, Step
  <2> QED
    BY <1>2, <2>1 DEF Run, RunPc
<1> QED
  BY <1>1, <1>2 DEF Unanswered

LEMMA CleanupTypes ==
    ASSUME RunTypes, CleanupStep
    PROVE  /\ RunTypes'
           /\ Sound \/ Fault \/ faults' = faults
<1> USE DEF RunTypes
<1>0. \A pc \in RunPc : [run EXCEPT !.pc = pc] \in Run
  BY DEF Run
<1>1. CASE DiscardCapture
  BY <1>0, <1>1 DEF DiscardCapture, RunPc, Unlinked
<1>2. ASSUME NEW x \in SeedDoc \cup SeedProject
      PROVE  [run EXCEPT !.todo = @ \ {x}] \in Run
  BY DEF Run
<1>3. CASE DeleteSeeded
  <2>1. PICK d \in run.todo :
           LET done == [run EXCEPT !.todo = @ \ {d}]
           IN \/ /\ Sound /\ run' = done
                 /\ world' = [world EXCEPT !.vectors = @ \ {d}, !.uploads = @ \ {d},
                                           !.documents = @ \ {d}]
              \/ Fault /\ world' \in PartlyDeleted(d) /\ Unanswered(done, "document")
    BY <1>3 DEF DeleteSeeded
  <2>2. d \in SeedDoc \cup SeedProject
    BY DEF Run
  <2>3. /\ [world EXCEPT !.vectors = @ \ {d}] \in World
        /\ [world EXCEPT !.vectors = @ \ {d}, !.uploads = @ \ {d}] \in World
        /\ [world EXCEPT !.vectors = @ \ {d}, !.uploads = @ \ {d}, !.documents = @ \ {d}]
              \in World
    BY DEF World
  <2>4. world' \in World /\ (Sound \/ Fault)
    BY <2>1, <2>3 DEF PartlyDeleted
  <2>5. run' \in Run
    <3> DEFINE done == [run EXCEPT !.todo = @ \ {d}]
    <3>1. done \in Run
      BY <1>2, <2>2
    <3>2. run' = done \/ Unanswered(done, "document")
      BY <2>1
    <3> HIDE DEF done
    <3> QED
      BY <3>1, <3>2, UnansweredType, FailedType DEF Step
  <2> QED
    BY <1>3, <2>4, <2>5 DEF DeleteSeeded
<1>4. CASE TurnToProjects
  BY <1>4 DEF TurnToProjects, Run, RunPc
<1>5. CASE RemoveSeededProject
  <2>1. PICK p \in run.todo :
          LET done == [run EXCEPT !.todo = @ \ {p}]
              gone == [world EXCEPT !.projects = @ \ {p}, !.threads = @ \ {p}]
          IN IF \E d \in world.documents : Home[d] = p
             THEN Sound /\ UNCHANGED world /\ run' = [done EXCEPT !.failed = Noted("project")]
             ELSE \/ Sound /\ world' = gone /\ run' = done
                  \/ Fault /\ world' \in {world, gone} /\ Unanswered(done, "project")
    BY <1>5 DEF RemoveSeededProject
  <2>2. p \in SeedDoc \cup SeedProject
    BY DEF Run
  <2>3. [world EXCEPT !.projects = @ \ {p}, !.threads = @ \ {p}] \in World
    BY DEF World
  <2>4. world' \in World /\ (Sound \/ Fault)
    BY <2>1, <2>3
  <2>5. run' \in Run
    <3> DEFINE done == [run EXCEPT !.todo = @ \ {p}]
    <3>1. done \in Run
      BY <1>2, <2>2
    <3>2. \/ run' = done \/ Unanswered(done, "project")
          \/ run' = [done EXCEPT !.failed = Noted("project")]
      BY <2>1
    <3> HIDE DEF done
    <3> QED
      BY <3>1, <3>2, UnansweredType, FailedType DEF Step
  <2> QED
    BY <1>5, <2>4, <2>5 DEF RemoveSeededProject
<1>6. CASE LogOut
  <2> DEFINE done == [run EXCEPT !.pc = "purge"]
  <2>1. done \in Run
    BY <1>0 DEF RunPc
  <2>2. (Sound /\ run' = done) \/ (Fault /\ Unanswered(done, "logout"))
    BY <1>6 DEF LogOut
  <2> HIDE DEF done
  <2> QED
    BY <1>6, <2>1, <2>2, UnansweredType DEF LogOut, Step
<1>7. CASE PurgePrincipal
  <2> DEFINE done == [run EXCEPT !.pc = "close"]
             purged == [world EXCEPT !.user = FALSE, !.login = FALSE, !.bases = {}]
  <2>1. done \in Run
    BY <1>0 DEF RunPc
  <2>2. purged \in World
    BY DEF World
  <2>3. /\ world' \in {world, purged} /\ (Sound \/ Fault)
        /\ run' \in {done, [done EXCEPT !.failed = Noted("principal")]}
    BY <1>7 DEF PurgePrincipal
  <2> HIDE DEF done, purged
  <2> QED
    BY <1>7, <2>1, <2>2, <2>3, FailedType DEF PurgePrincipal, Step
<1>8. CASE CloseApi
  <2> DEFINE next == [run EXCEPT !.pc = IF Isolated THEN "chroma" ELSE "verify"]
             over == [run EXCEPT !.pc = "over"]
  <2>1. next \in Run /\ over \in Run
    BY <1>0 DEF RunPc
  <2>2. /\ capture' \in {capture, Unlinked} /\ (Sound \/ Fault)
        /\ run' \in {over, next, [next EXCEPT !.failed = Noted("close")]}
    BY <1>8 DEF CloseApi
  <2> HIDE DEF next, over
  <2> QED
    BY <1>8, <2>1, <2>2, FailedType DEF CloseApi, Step, Unlinked
<1>9. CASE DeleteIsolatedChroma
  <2> DEFINE next == [run EXCEPT !.pc = "local"]
             emptied == [world EXCEPT !.vectors = {}]
             dropped == [emptied EXCEPT !.database = None]
  <2>1. next \in Run
    BY <1>0 DEF RunPc
  <2>2. emptied \in World
    BY DEF World
  <2>3. dropped \in World
    BY <2>2, OwnerFacts DEF World
  <2>4. /\ run' \in {next, [next EXCEPT !.failed = Noted("chroma")]}
        /\ world' \in {world, emptied, dropped} /\ (Sound \/ Fault)
    BY <1>9 DEF DeleteIsolatedChroma
  <2> HIDE DEF next, emptied, dropped
  <2> QED
    BY <1>9, <2>1, <2>2, <2>3, <2>4, FailedType DEF DeleteIsolatedChroma, Step
<1>10. CASE RemoveLocalTargets
  <2> DEFINE next == [run EXCEPT !.pc = "verify"]
             files == [world EXCEPT !.local = FALSE, !.uploads = {}, !.threads = {}]
             gone == [files EXCEPT !.runDir = None]
  <2>1. next \in Run
    BY <1>0 DEF RunPc
  <2>2. files \in World
    BY DEF World
  <2>3. gone \in World
    BY <2>2, OwnerFacts DEF World
  <2>4. /\ run' \in {next, [next EXCEPT !.failed = Noted("local")]}
        /\ world' \in {world, files, gone} /\ (Sound \/ Fault)
    BY <1>10 DEF RemoveLocalTargets
  <2> HIDE DEF next, files, gone
  <2> QED
    BY <1>10, <2>1, <2>2, <2>3, <2>4, FailedType DEF RemoveLocalTargets, Step
<1>11. CASE VerifyZero
  <2> DEFINE over == [run EXCEPT !.pc = IF run.kind = "answers" THEN "report" ELSE "over"]
  <2>1. over \in Run
    BY <1>0 DEF RunPc
  <2>2. /\ run' \in {over, [over EXCEPT !.failed = Noted("verify")]}
        /\ Sound \/ Fault
    BY <1>11 DEF VerifyZero
  <2> HIDE DEF over
  <2> QED
    BY <1>11, <2>1, <2>2, FailedType DEF VerifyZero, Step
<1> QED
  BY <1>1, <1>3, <1>4, <1>5, <1>6, <1>7, <1>8, <1>9, <1>10, <1>11 DEF CleanupStep

LEMMA CoveredBatch == Covered => batch \in Batch
BY DEF Covered, BatchShape

LEMMA SampleTypes ==
    ASSUME RunTypes, report \in Report, Covered, SampleStep
    PROVE  RunTypes' /\ report' \in Report /\ (Sound \/ Fault \/ faults' = faults)
<1> USE FailType DEF RunTypes
<1>0. /\ batch \in Batch /\ Progress("failed") \in Report
      /\ batch.stage # "idle" => batch.done + 1 \in 0 .. Len(Plan)
  <2>1. /\ batch \in Batch
        /\ batch.stage # "idle" => batch.done < Len(Plan)
    BY DEF Covered, BatchShape
  <2>2. batch.done \in 0 .. Len(Plan)
    BY <2>1 DEF Batch
  <2> QED
    BY <2>1, <2>2, PlanFacts DEF Progress, Report
<1>1. CASE OpenSample
  <2>1. \A p \in SeedProject : [world EXCEPT !.threads = @ \cup {p}] \in World
    BY DEF World
  <2>2. /\ \/ world' = world
           \/ \E p \in SeedProject : world' = [world EXCEPT !.threads = @ \cup {p}]
        /\ Sound \/ Fault
        /\ UNCHANGED <<run, capture, report>>
    BY <1>1 DEF OpenSample
  <2> QED
    BY <2>1, <2>2
<1>2. CASE AnswerDirectly \/ Decide \/ Judge
  BY <1>2 DEF AnswerDirectly, Decide, Judge, InCall
<1>3. CASE CloseSample
  <2> DEFINE now == [Progress("running") EXCEPT !.samples = batch.done + 1]
  <2>1. now \in Report
    BY <1>0, <1>3, PlanFacts DEF CloseSample, Progress, Report
  <2>2. report' \in {now, report}
    BY <1>3 DEF CloseSample, Progress
  <2> HIDE DEF now
  <2> QED
    BY <1>3, <2>1, <2>2 DEF CloseSample
<1>4. CASE AbandonSample
  <2> DEFINE now == [Progress("stopped") EXCEPT !.samples = batch.done + 1]
  <2>1. now \in Report
    BY <1>0, <1>4, PlanFacts DEF AbandonSample, Progress, Report
  <2>2. report' \in {now, report}
    BY <1>4 DEF AbandonSample, Progress
  <2> HIDE DEF now
  <2> QED
    BY <1>4, <2>1, <2>2 DEF AbandonSample
<1>5. CASE FinishBatch
  BY <1>5 DEF FinishBatch
<1>6. CASE RecordFailure
  <2>1. \A pc \in RunPc : [run EXCEPT !.pc = pc] \in Run
    BY DEF Run
  <2> QED
    BY <1>0, <1>6, <2>1 DEF RecordFailure, RunPc
<1>7. CASE FinalReport
  <2> DEFINE verified == (run.failed = {})
             now == [Progress(FinalStatus) EXCEPT !.verified = verified]
  <2>1. FinalStatus \in {"failed", "completed"} /\ verified \in BOOLEAN
    BY DEF FinalStatus
  <2>2. report' \in {now, report} /\ (Sound \/ Fault)
    BY <1>7 DEF FinalReport
  <2>3. run' \in Run
    BY <1>7 DEF FinalReport, Run, RunPc
  <2> HIDE DEF verified
  <2>4. now \in Report
    BY <1>0, <2>1, PlanFacts DEF Progress, Report, Batch
  <2> HIDE DEF now
  <2> QED
    BY <1>7, <2>2, <2>3, <2>4 DEF FinalReport
<1> QED
  BY <1>1, <1>2, <1>3, <1>4, <1>5, <1>6, <1>7 DEF SampleStep

LEMMA PrepareTypes ==
    ASSUME world \in World, run \in Run, prep \in [Preparer -> Prep],
           NEW w \in Preparer, PrepareStep(w)
    PROVE  /\ world' \in World /\ run' \in Run /\ prep' \in [Preparer -> Prep]
           /\ Sound \/ Fault \/ faults' = faults
           /\ UNCHANGED <<capture, batch, report>>
<1> USE PrepTypes, IntoType DEF Reading, Alone, Around
<1>1. CASE BeginPreparation(w)
  BY <1>1 DEF BeginPreparation, PrepPc
<1>2. CASE InspectTargets(w)
  BY <1>2 DEF InspectTargets, PrepPc
<1>3. ASSUME NEW container \in Container, NEW next \in PrepPc, Create(w, container, next)
      PROVE  /\ world' \in World /\ prep' \in [Preparer -> Prep] /\ (Sound \/ Fault)
  <2> DEFINE created == [world EXCEPT ![container] = w]
             made == [Go(w, next) EXCEPT !.made = @ \cup {container}]
  <2>1. created \in World
    BY OwnerFacts DEF World, Container
  <2>2. made \in Prep
    BY DEF Prep
  <2>3. Lost(w, "stop") \in Prep
    BY DEF PrepPc
  <2>4. /\ world' \in {world, created} /\ (Sound \/ Fault)
        /\ Into(w, made) \/ Into(w, Lost(w, "stop"))
    BY <1>3 DEF Create
  <2> HIDE DEF created, made
  <2> QED
    BY <2>1, <2>2, <2>3, <2>4
<1>4. CASE CreateSchema(w)
  BY <1>3, <1>4 DEF CreateSchema, Container, PrepPc
<1>5. CASE CreateDatabase(w)
  BY <1>3, <1>5 DEF CreateDatabase, Container, PrepPc
<1>6. CASE VerifySearchPath(w) \/ WaitApiReady(w)
  BY <1>6 DEF VerifySearchPath, WaitApiReady, PrepPc
<1>7. CASE CreateRunDirectory(w)
  <2> DEFINE half == [world EXCEPT !.runDir = w]
             full == [half EXCEPT !.results = TRUE]
             made == [Go(w, "configure") EXCEPT !.made = @ \cup {"runDir"}]
  <2>1. half \in World /\ full \in World
    BY OwnerFacts DEF World
  <2>2. Go(w, "configure") \in Prep /\ Lost(w, "stop") \in Prep
    BY DEF PrepPc
  <2>3. made \in Prep
    BY <2>2 DEF Prep, Container
  <2>4. /\ world' \in {world, half, full} /\ (Sound \/ Fault)
        /\ Into(w, made) \/ Into(w, Lost(w, "stop"))
    BY <1>7 DEF CreateRunDirectory
  <2> HIDE DEF half, full, made
  <2> QED
    BY <1>7, <2>1, <2>2, <2>3, <2>4 DEF CreateRunDirectory
<1>8. CASE ConfigureRuntime(w)
  <2> DEFINE logging == IF world.logDir = None THEN [world EXCEPT !.logDir = w] ELSE world
             good == [Go(w, "start") EXCEPT !.configured = TRUE]
             bad == [Lost(w, "stop") EXCEPT !.configured = TRUE]
  <2>1. logging \in World
    BY OwnerFacts DEF World
  <2>2. Go(w, "start") \in Prep /\ Lost(w, "stop") \in Prep
    BY DEF PrepPc
  <2>3. good \in Prep /\ bad \in Prep
    BY <2>2 DEF Prep
  <2>4. /\ world' \in {world, logging} /\ (Sound \/ Fault)
        /\ Into(w, good) \/ Into(w, bad)
    BY <1>8 DEF ConfigureRuntime
  <2> HIDE DEF logging, good, bad
  <2> QED
    BY <1>8, <2>1, <2>3, <2>4 DEF ConfigureRuntime
<1>9. CASE StartApi(w)
  <2> DEFINE good == [Go(w, "ready") EXCEPT !.api = TRUE]
  <2>1. Go(w, "ready") \in Prep /\ Lost(w, "stop") \in Prep
    BY DEF PrepPc
  <2>2. good \in Prep
    BY <2>1 DEF Prep
  <2>3. (Sound \/ Fault) /\ (Into(w, good) \/ Into(w, Lost(w, "stop")))
    BY <1>9 DEF StartApi
  <2> HIDE DEF good
  <2> QED
    BY <1>9, <2>1, <2>2, <2>3 DEF StartApi
<1>10. CASE RunRetrieval(w)
  <2> DEFINE asked == [Go(w, "retrieving") EXCEPT !.asked = TRUE]
  <2>1. Go(w, "retrieving") \in Prep
    BY DEF PrepPc
  <2>2. asked \in Prep
    BY <2>1 DEF Prep
  <2>3. Into(w, asked) /\ run' = NewRun("retrieval", "aggregate")
    BY <1>10 DEF RunRetrieval
  <2> HIDE DEF asked
  <2> QED
    BY <1>10, <2>2, <2>3, NewRunType DEF RunRetrieval, Kind, Phase
<1>11. CASE BuildDataset(w)
  <2>1. Go(w, "stop") \in Prep /\ Lost(w, "stop") \in Prep
    BY DEF PrepPc
  <2>2. ASSUME NEW some \in BOOLEAN
        PROVE  [Go(w, "stop") EXCEPT !.entries = some, !.error = ~some] \in Prep
    <3> DEFINE none == ~some
    <3>1. none \in BOOLEAN
      OBVIOUS
    <3> HIDE DEF none
    <3>2. [Go(w, "stop") EXCEPT !.entries = some, !.error = none] \in Prep
      BY <2>1, <3>1 DEF Prep
    <3> QED
      BY <3>2 DEF none
  <2>3. \/ Into(w, Lost(w, "stop"))
        \/ \E some \in BOOLEAN :
              Into(w, [Go(w, "stop") EXCEPT !.entries = some, !.error = ~some])
    BY <1>11 DEF BuildDataset
  <2> QED
    BY <1>11, <2>1, <2>2, <2>3 DEF BuildDataset
<1> QED
  BY <1>1, <1>2, <1>4, <1>5, <1>6, <1>7, <1>8, <1>9, <1>10, <1>11 DEF PrepareStep

LEMMA DropType ==
    ASSUME world \in World, prep \in [Preparer -> Prep], NEW w \in Preparer,
           NEW may, NEW without \in World, NEW next \in PrepPc,
           Drop(w, may, without, next)
    PROVE  /\ world' \in World /\ prep' \in [Preparer -> Prep]
           /\ (Sound \/ Fault)
BY PrepTypes, IntoType DEF Drop

LEMMA TeardownTypes ==
    ASSUME world \in World, run \in Run, prep \in [Preparer -> Prep],
           NEW w \in Preparer, TeardownStep(w)
    PROVE  /\ world' \in World /\ run' \in Run /\ prep' \in [Preparer -> Prep]
           /\ Sound \/ Fault \/ faults' = faults
           /\ UNCHANGED <<capture, batch, report>>
<1> USE IntoType DEF Reading, Alone, Around
<1>0. ASSUME NEW pc \in PrepPc
      PROVE  /\ Go(w, pc) \in Prep /\ Bad(w, pc) \in Prep /\ Lost(w, pc) \in Prep
             /\ [Go(w, pc) EXCEPT !.api = FALSE, !.stopped = TRUE] \in Prep
             /\ [Go(w, pc) EXCEPT !.quiet = TRUE] \in Prep
             /\ [Go(w, pc) EXCEPT !.cleaned = TRUE] \in Prep
             /\ [Go(w, pc) EXCEPT !.disposed = TRUE] \in Prep
  <2>1. Go(w, pc) \in Prep /\ Bad(w, pc) \in Prep /\ Lost(w, pc) \in Prep
    BY PrepTypes
  <2> QED
    BY <2>1 DEF Prep
<1>1. CASE StopApi(w)
  <2> DEFINE done == [Go(w, "logging") EXCEPT !.api = FALSE, !.stopped = TRUE]
  <2>1. done \in Prep /\ Bad(w, "dropSchema") \in Prep
    BY <1>0 DEF PrepPc
  <2>2. (Sound \/ Fault) /\ (Into(w, done) \/ Into(w, Bad(w, "dropSchema")))
    BY <1>1 DEF StopApi
  <2> HIDE DEF done
  <2> QED
    BY <1>1, <2>1, <2>2 DEF StopApi
<1>2. CASE ShutdownLogging(w)
  <2> DEFINE done == [Go(w, "residuals") EXCEPT !.quiet = TRUE]
  <2>1. done \in Prep /\ Bad(w, "residuals") \in Prep
    BY <1>0 DEF PrepPc
  <2>2. (Sound \/ Fault) /\ (Into(w, done) \/ Into(w, Bad(w, "residuals")))
    BY <1>2 DEF ShutdownLogging
  <2> HIDE DEF done
  <2> QED
    BY <1>2, <2>1, <2>2 DEF ShutdownLogging
<1>3. CASE CleanupRetrieval(w)
  <2> DEFINE done == [Go(w, "dispose") EXCEPT !.cleaned = TRUE]
  <2>1. done \in Prep /\ Bad(w, "dispose") \in Prep
    BY <1>0 DEF PrepPc
  <2>2. (Sound \/ Fault) /\ (Into(w, done) \/ Into(w, Bad(w, "dispose")))
    BY <1>3 DEF CleanupRetrieval
  <2> HIDE DEF done
  <2> QED
    BY <1>3, <2>1, <2>2 DEF CleanupRetrieval
<1>4. CASE DisposeRuntime(w)
  <2> DEFINE done == [Go(w, "dropSchema") EXCEPT !.disposed = TRUE]
  <2>1. done \in Prep /\ Bad(w, "dropSchema") \in Prep
    BY <1>0 DEF PrepPc
  <2>2. (Sound \/ Fault) /\ (Into(w, done) \/ Into(w, Bad(w, "dropSchema")))
    BY <1>4 DEF DisposeRuntime
  <2> HIDE DEF done
  <2> QED
    BY <1>4, <2>1, <2>2 DEF DisposeRuntime
<1>5. CASE DropSchema(w)
  <2> DEFINE dropped == [world EXCEPT !.schema = None, !.user = FALSE, !.login = FALSE,
                                      !.bases = {}, !.projects = {}, !.documents = {}]
  <2>1. dropped \in World
    BY OwnerFacts DEF World
  <2>2. Bad(w, "dropDatabase") \in Prep /\ "dropDatabase" \in PrepPc
    BY <1>0 DEF PrepPc
  <2>3. \/ Sound /\ UNCHANGED world /\ Into(w, Bad(w, "dropDatabase"))
        \/ Drop(w, MayDropSchema(w), dropped, "dropDatabase")
    BY <1>5 DEF DropSchema
  <2> HIDE DEF dropped
  <2> QED
    BY <1>5, <2>1, <2>2, <2>3, DropType DEF DropSchema
<1>6. CASE DropDatabase(w)
  <2> DEFINE dropped == [world EXCEPT !.database = None, !.vectors = {}]
  <2>1. dropped \in World /\ "dropRunDir" \in PrepPc
    BY OwnerFacts DEF World, PrepPc
  <2>2. Drop(w, /\ "database" \in prep[w].made /\ prep[w].stopped
                /\ ~(prep[w].asked /\ prep[w].cleaned), dropped, "dropRunDir")
    BY <1>6 DEF DropDatabase
  <2> HIDE DEF dropped
  <2> QED
    BY <1>6, <2>1, <2>2, DropType DEF DropDatabase
<1>7. CASE DropRunDirectory(w)
  <2> DEFINE dropped == [world EXCEPT !.runDir = None, !.local = FALSE,
                                      !.uploads = {}, !.threads = {}]
  <2>1. dropped \in World /\ "dropLogs" \in PrepPc
    BY OwnerFacts DEF World, PrepPc
  <2>2. Drop(w, "runDir" \in prep[w].made /\ prep[w].stopped /\ prep[w].cleaned,
             dropped, "dropLogs")
    BY <1>7 DEF DropRunDirectory
  <2> HIDE DEF dropped
  <2> QED
    BY <1>7, <2>1, <2>2, DropType DEF DropRunDirectory
<1>8. CASE DropLogs(w)
  <2>1. [world EXCEPT !.logDir = None] \in World /\ "verify" \in PrepPc
    BY OwnerFacts DEF World, PrepPc
  <2> QED
    BY <1>8, <2>1, DropType DEF DropLogs
<1>9. CASE VerifyCleanup(w)
  <2> DEFINE verified == Gone(w) /\ prep[w].ok
             done == [Go(w, "artifacts") EXCEPT !.verified = verified, !.ok = verified]
  <2>1. Go(w, "artifacts") \in Prep /\ Bad(w, "artifacts") \in Prep /\ verified \in BOOLEAN
    BY <1>0 DEF PrepPc
  <2>2. Go(w, "artifacts").ok = prep[w].ok
    BY DEF Go, Prep
  <2>3. (Sound \/ Fault) /\ (Into(w, done) \/ Into(w, Bad(w, "artifacts")))
    BY <1>9, <2>2 DEF VerifyCleanup
  <2> HIDE DEF verified
  <2>4. done \in Prep
    BY <2>1 DEF Prep
  <2> HIDE DEF done
  <2> QED
    BY <1>9, <2>1, <2>3, <2>4 DEF VerifyCleanup
<1>10. CASE WriteArtifacts(w)
  <2>1. [world EXCEPT !.results = TRUE] \in World
    BY DEF World
  <2>2. Go(w, "over") \in Prep /\ Lost(w, "over") \in Prep
    BY <1>0 DEF PrepPc
  <2> QED
    BY <1>10, <2>1, <2>2 DEF WriteArtifacts
<1> QED
  BY <1>1, <1>2, <1>3, <1>4, <1>5, <1>6, <1>7, <1>8, <1>9, <1>10 DEF TeardownStep

\* A run either goes on, or has failed and turns to its cleanup, or is refused:
\* whose run it is and what it is about never change.
LEMMA FailFields ==
    ASSUME run \in Run
    PROVE  /\ Fail.kind = run.kind /\ Fail.phase = run.phase /\ Fail.primary
           /\ Fail.pc = IF run.kind \in {"calibration", "answers"} THEN "discard"
                        ELSE IF run.user THEN "documents" ELSE "close"
           /\ Fail.user = run.user /\ Fail.token = run.token /\ Fail.failed = run.failed
           /\ Fail.seeded = run.seeded /\ Fail.listed = run.listed
           /\ Fail.todo = run.seeded /\ Fail.doc = None
           /\ Cleaning.kind = run.kind /\ Cleaning.phase = run.phase
           /\ Cleaning.primary = run.primary /\ Cleaning.pc = "documents"
           /\ Cleaning.user = run.user /\ Cleaning.token = run.token
           /\ Cleaning.failed = run.failed /\ Cleaning.doc = run.doc
           /\ Cleaning.seeded = run.seeded /\ Cleaning.listed = run.listed
           /\ Cleaning.todo = run.seeded
           /\ Refused.kind = run.kind /\ Refused.phase = run.phase /\ Refused.primary
           /\ Refused.pc = "refused" /\ Refused.user = run.user
           /\ Refused.failed = run.failed /\ Refused.seeded = run.seeded
           /\ Refused.listed = run.listed
BY DEF Fail, Cleaning, Refused, Run

LEMMA ShapeFail ==
    ASSUME run \in Run, RunShape, run' \in {Fail, Refused}
    PROVE  RunShape'
<1>1. CASE run' = Fail
  BY <1>1, FailFields, FailType DEF RunShape, Forward, Isolated
<1>2. CASE run' = Refused
  BY <1>2, FailFields DEF RunShape, Forward, Isolated
<1> QED
  BY <1>1, <1>2

LEMMA ShapeSeed ==
    ASSUME RunTypes, RunShape, SeedStep
    PROVE  RunShape'
<1> USE ShapeFail DEF RunTypes
<1>1. CASE AssertEmpty
  BY <1>1 DEF AssertEmpty, RunShape, Forward, Run, Isolated
<1>2. CASE BeginCalibration
  BY <1>2 DEF BeginCalibration, RunShape, Forward, Run, Isolated
<1>3. CASE RegisterPrincipal
  <2> DEFINE once == RememberedAtOnce
             next == [run EXCEPT !.pc = "login", !.user = once]
  <2> HIDE DEF once
  <2>1. run' \in {next, Fail}
    BY <1>3 DEF RegisterPrincipal, Attempt, once
  <2> QED
    BY <1>3, <2>1 DEF RegisterPrincipal, RunShape, Forward, Run, Isolated
<1>4. CASE LoginPrincipal
  <2>1. run' \in {[run EXCEPT !.pc = "projects", !.user = TRUE, !.token = TRUE], Fail}
    BY <1>4 DEF LoginPrincipal, Attempt
  <2> QED
    BY <1>4, <2>1 DEF LoginPrincipal, RunShape, Forward, Run, Isolated
<1>5. CASE SeedProjects
  <2>1. \/ run' = Fail
        \/ \E p \in SeedProject, pc \in {"upload", "projects"} :
              run' = [run EXCEPT !.listed = @ \cup {p}, !.pc = pc]
    BY <1>5 DEF SeedProjects, Attempt
  <2> QED
    BY <1>5, <2>1 DEF SeedProjects, RunShape, Forward, Run, Isolated
<1>6. CASE SeedUpload
  <2>1. \/ run' = Fail
        \/ \E d \in SeedDoc :
              run' = [run EXCEPT !.seeded = @ \cup {d}, !.doc = d, !.pc = "confirm"]
    BY <1>6 DEF SeedUpload, Attempt
  <2> QED
    BY <1>6, <2>1 DEF SeedUpload, RunShape, Forward, Run, Isolated
<1>7. CASE SeedConfirm
  <2>1. \/ run' = Fail
        \/ \E pc \in {"use", "upload"} : run' = [run EXCEPT !.doc = None, !.pc = pc]
    BY <1>7 DEF SeedConfirm, Attempt
  <2> QED
    BY <1>7, <2>1 DEF SeedConfirm, RunShape, Forward, Run, Isolated
<1>8. CASE CollectOutcomes \/ RankQueries \/ DiagnoseRetrieval
  <2>1. \/ run' = Fail
        \/ /\ run.kind = "calibration"
           /\ \E pc \in {"capture", "result"} : run' = [run EXCEPT !.pc = pc]
        \/ run.kind = "retrieval" /\ run' = [run EXCEPT !.pc = "probe"]
        \/ run.kind = "persistence" /\ run' = [run EXCEPT !.pc = "persist"]
    BY <1>8 DEF CollectOutcomes, RankQueries, DiagnoseRetrieval, Look
  <2>2. run.pc = "use"
    BY <1>8 DEF CollectOutcomes, RankQueries, DiagnoseRetrieval
  <2> QED
    BY <2>1, <2>2 DEF RunShape, Forward, Run, Isolated
<1>9. CASE ProbeGraph \/ AskLegacy \/ CompareFusions
  <2>1. run' \in {Cleaning, Fail} /\ run.pc \in {"probe", "persist"}
    BY <1>9 DEF ProbeGraph, AskLegacy, CompareFusions, Look
  <2> QED
    BY <2>1, FailFields DEF RunShape, Forward, Isolated
<1>10. CASE WriteCapture
  BY <1>10 DEF WriteCapture, RunShape, Forward, Run, Isolated
<1>11. CASE WriteResult
  <2>1. \/ run' = Fail
        \/ \E pc \in {"documents", "close"} : run' = [Cleaning EXCEPT !.pc = pc]
    BY <1>11 DEF WriteResult
  <2>2. Cleaning \in Run
    BY FailType
  <2> QED
    BY <1>11, <2>1, <2>2, FailFields DEF WriteResult, RunShape, Forward, Run, Isolated
<1> QED
  BY <1>1, <1>2, <1>3, <1>4, <1>5, <1>6, <1>7, <1>8, <1>9, <1>10, <1>11 DEF SeedStep

\* What no step of the cleanup touches, and where it goes from where.
Turn(from, to) == run.pc = from /\ run'.pc \in to
CleanupTurn ==
    \/ Turn("discard", {IF run.user THEN "documents" ELSE "close"})
    \/ Turn("documents", {"documents", "removal", "close"})
    \/ Turn("removal", {"removal", "purge", "close"})
    \/ Turn("purge", {"close"})
    \/ run.kind = "calibration" /\ Turn("close", {"over"})
    \/ Isolated /\ Turn("close", {"chroma"})
    \/ run.kind = "persistence" /\ Turn("close", {"verify"})
    \/ Turn("chroma", {"local"})
    \/ Turn("local", {"verify"})
    \/ run.kind = "answers" /\ Turn("verify", {"report"})
    \/ run.kind # "answers" /\ Turn("verify", {"over"})
SameRun == /\ run'.kind = run.kind /\ run'.phase = run.phase /\ run'.primary = run.primary
           /\ run'.user = run.user /\ run'.token = run.token
           /\ run'.seeded = run.seeded /\ run'.listed = run.listed

\* A step that goes on and perhaps notes a failure.
LEMMA StepRun ==
    ASSUME run \in Run, NEW pc \in RunPc, NEW step \in Step,
           run' \in {[run EXCEPT !.pc = pc],
                     [[run EXCEPT !.pc = pc] EXCEPT !.failed = Noted(step)]}
    PROVE  /\ SameRun /\ run'.pc = pc /\ run'.todo = run.todo
           /\ run'.failed \in {run.failed, Noted(step)} /\ run.failed \subseteq run'.failed
           /\ run'.failed # run.failed => run'.failed # {}
BY DEF Run, SameRun, Noted

LEMMA ScopeRun ==
    ASSUME run \in Run, run.pc # "close", NEW x, NEW step \in Step,
           LET done == [run EXCEPT !.todo = @ \ {x}]
           IN run' = done \/ run' = [done EXCEPT !.failed = Noted(step)]
              \/ Unanswered(done, step)
    PROVE  /\ SameRun /\ run'.pc \in {run.pc, "close"}
           /\ run.failed \subseteq run'.failed
           /\ run'.pc = run.pc => run'.todo = run.todo \ {x}
           /\ run'.pc # run.pc => "scope" \in run'.failed
BY DEF Run, SameRun, Noted, Unanswered

LEMMA CleanupRun ==
    ASSUME RunTypes, CleanupStep
    PROVE  SameRun /\ CleanupTurn /\ run.failed \subseteq run'.failed
<1> USE DEF RunTypes, Turn
<1>1. CASE DiscardCapture
  BY <1>1 DEF DiscardCapture, SameRun, CleanupTurn, Run
<1>2. CASE DeleteSeeded
  <2>1. PICK d \in run.todo :
           LET done == [run EXCEPT !.todo = @ \ {d}]
           IN run' = done \/ run' = [done EXCEPT !.failed = Noted("document")]
              \/ Unanswered(done, "document")
    BY <1>2 DEF DeleteSeeded
  <2>2. SameRun /\ run'.pc \in {run.pc, "close"} /\ run.failed \subseteq run'.failed
    BY <1>2, <2>1, ScopeRun DEF Step, DeleteSeeded
  <2> QED
    BY <1>2, <2>2 DEF DeleteSeeded, CleanupTurn
<1>3. CASE TurnToProjects
  BY <1>3 DEF TurnToProjects, SameRun, CleanupTurn, Run
<1>4. CASE RemoveSeededProject
  <2>1. PICK p \in run.todo :
           LET done == [run EXCEPT !.todo = @ \ {p}]
           IN run' = done \/ run' = [done EXCEPT !.failed = Noted("project")]
              \/ Unanswered(done, "project")
    BY <1>4 DEF RemoveSeededProject
  <2>2. SameRun /\ run'.pc \in {run.pc, "close"} /\ run.failed \subseteq run'.failed
    BY <1>4, <2>1, ScopeRun DEF Step, RemoveSeededProject
  <2> QED
    BY <1>4, <2>2 DEF RemoveSeededProject, CleanupTurn
<1>5. CASE LogOut
  <2>1. \/ run' = [run EXCEPT !.pc = "purge"]
        \/ Unanswered([run EXCEPT !.pc = "purge"], "logout")
    BY <1>5 DEF LogOut
  <2>2. SameRun /\ run'.pc \in {"purge", "close"} /\ run.failed \subseteq run'.failed
    BY <2>1 DEF Unanswered, SameRun, Run, Noted
  <2> QED
    BY <1>5, <2>2 DEF LogOut, CleanupTurn
<1>6. CASE PurgePrincipal
  <2>1. run' \in {[run EXCEPT !.pc = "close"],
                  [[run EXCEPT !.pc = "close"] EXCEPT !.failed = Noted("principal")]}
    BY <1>6 DEF PurgePrincipal
  <2> QED
    BY <1>6, <2>1, StepRun DEF PurgePrincipal, CleanupTurn, Step, RunPc
<1>7. CASE CloseApi
  <2>1. CASE run.kind = "calibration"
    <3>1. run' = [run EXCEPT !.pc = "over"]
      BY <1>7, <2>1 DEF CloseApi
    <3> QED
      BY <1>7, <2>1, <3>1 DEF CloseApi, CleanupTurn, SameRun, Run
  <2>2. CASE run.kind # "calibration"
    <3> DEFINE pc == IF Isolated THEN "chroma" ELSE "verify"
    <3>1. /\ run' \in {[run EXCEPT !.pc = pc],
                       [[run EXCEPT !.pc = pc] EXCEPT !.failed = Noted("close")]}
          /\ pc \in RunPc
      BY <1>7, <2>2 DEF CloseApi, RunPc
    <3> HIDE DEF pc
    <3>2. SameRun /\ run'.pc = pc /\ run.failed \subseteq run'.failed
      BY <3>1, StepRun DEF Step
    <3>3. run.kind \in Kind
      BY DEF Run
    <3> QED
      BY <1>7, <2>2, <3>2, <3>3 DEF CloseApi, CleanupTurn, Kind, Isolated, pc
  <2> QED
    BY <2>1, <2>2
<1>8. CASE DeleteIsolatedChroma
  <2>1. run' \in {[run EXCEPT !.pc = "local"],
                  [[run EXCEPT !.pc = "local"] EXCEPT !.failed = Noted("chroma")]}
    BY <1>8 DEF DeleteIsolatedChroma
  <2> QED
    BY <1>8, <2>1, StepRun DEF DeleteIsolatedChroma, CleanupTurn, Step, RunPc
<1>9. CASE RemoveLocalTargets
  <2>1. run' \in {[run EXCEPT !.pc = "verify"],
                  [[run EXCEPT !.pc = "verify"] EXCEPT !.failed = Noted("local")]}
    BY <1>9 DEF RemoveLocalTargets
  <2> QED
    BY <1>9, <2>1, StepRun DEF RemoveLocalTargets, CleanupTurn, Step, RunPc
<1>10. CASE VerifyZero
  <2> DEFINE pc == IF run.kind = "answers" THEN "report" ELSE "over"
  <2>1. /\ run' \in {[run EXCEPT !.pc = pc],
                     [[run EXCEPT !.pc = pc] EXCEPT !.failed = Noted("verify")]}
        /\ pc \in RunPc
    BY <1>10 DEF VerifyZero, RunPc
  <2> HIDE DEF pc
  <2>2. SameRun /\ run'.pc = pc /\ run.failed \subseteq run'.failed
    BY <2>1, StepRun DEF Step
  <2> QED
    BY <1>10, <2>2 DEF VerifyZero, CleanupTurn, pc
<1> QED
  BY <1>1, <1>2, <1>3, <1>4, <1>5, <1>6, <1>7, <1>8, <1>9, <1>10 DEF CleanupStep

LEMMA ShapeCleanup ==
    ASSUME RunTypes, RunShape, CleanupStep
    PROVE  RunShape'
BY CleanupRun DEF RunTypes, RunShape, SameRun, CleanupTurn, Turn, Forward, Isolated

LEMMA ShapeSample ==
    ASSUME RunTypes, RunShape, SampleStep
    PROVE  RunShape'
<1> USE ShapeFail DEF RunTypes
<1>1. CASE OpenSample \/ AnswerDirectly \/ Decide \/ Judge
  <2>1. run' = run
    BY <1>1 DEF OpenSample, AnswerDirectly, Decide, Judge, InCall
  <2> QED
    BY <2>1 DEF RunShape, Isolated
<1>2. CASE CloseSample \/ AbandonSample
  <2>1. run' \in {run, Fail}
    BY <1>2 DEF CloseSample, AbandonSample
  <2> QED
    BY <2>1 DEF RunShape, Isolated
<1>3. CASE FinishBatch
  BY <1>3, FailFields DEF FinishBatch, RunShape, Forward, Isolated
<1>4. CASE RecordFailure
  BY <1>4 DEF RecordFailure, RunShape, Forward, Isolated, Run
<1>5. CASE FinalReport
  BY <1>5 DEF FinalReport, RunShape, Forward, Isolated, Run
<1> QED
  BY <1>1, <1>2, <1>3, <1>4, <1>5 DEF SampleStep

LEMMA ShapePreparer ==
    ASSUME RunShape, NEW w \in Preparer, PrepareStep(w) \/ TeardownStep(w)
    PROVE  RunShape'
<1>1. run' \in {run, NewRun("retrieval", "aggregate")}
  BY DEF PrepareStep, BeginPreparation, InspectTargets, CreateSchema, VerifySearchPath,
         CreateDatabase, CreateRunDirectory, ConfigureRuntime, StartApi, WaitApiReady,
         RunRetrieval, BuildDataset, TeardownStep, StopApi, ShutdownLogging,
         CleanupRetrieval, DisposeRuntime, DropSchema, DropDatabase, DropRunDirectory,
         DropLogs, VerifyCleanup, WriteArtifacts, Reading, Alone
<1>2. CASE run' = run
  BY <1>2 DEF RunShape, Isolated
<1>3. CASE run' = NewRun("retrieval", "aggregate")
  BY <1>3 DEF RunShape, Isolated, Forward, NewRun
<1> QED
  BY <1>1, <1>2, <1>3

-----------------------------------------------------------------------------
(***************************************************************************)
(* Types and the course of a run, for every step of the tools.              *)
(***************************************************************************)
LEMMA UntouchedType ==
    ASSUME NEW owner \in Owner
    PROVE  Untouched(owner) \in World
BY OwnerFacts DEF Untouched, World

LEMMA NewPrepType ==
    ASSUME NEW pc \in PrepPc
    PROVE  NewPrep(pc) \in Prep
BY DEF NewPrep, Prep

LEMMA TypeInit == Init => TypeOK
<1> SUFFICES ASSUME Init PROVE TypeOK
  OBVIOUS
<1>1. faults \in 0 .. MaxFaults /\ batch \in Batch /\ report \in Report
  <2>1. batch \in Batch
    BY CoveredInit, CoveredBatch
  <2> QED
    BY <2>1, FaultAssumption, PlanFacts DEF Init, NoReport, Report
<1>2. CASE \E kind \in Kind, left \in SUBSET SeedDoc : \E phase \in Phases[kind] :
             /\ run = NewRun(kind, phase)
             /\ world = [Untouched(Operator) EXCEPT
                            !.vectors = IF kind = "calibration" THEN {} ELSE left]
             /\ capture \in IF kind = "calibration" THEN {"none", "old"} ELSE {"none"}
             /\ prep = [w \in Preparer |-> NewPrep("absent")]
  <2>1. PICK kind \in Kind, left \in SUBSET SeedDoc : \E phase \in Phases[kind] :
             /\ run = NewRun(kind, phase)
             /\ world = [Untouched(Operator) EXCEPT
                            !.vectors = IF kind = "calibration" THEN {} ELSE left]
             /\ capture \in IF kind = "calibration" THEN {"none", "old"} ELSE {"none"}
             /\ prep = [w \in Preparer |-> NewPrep("absent")]
    BY <1>2
  <2>2. Phases[kind] \subseteq Phase
    BY DEF Phases, Phase, Kind
  <2>3. run \in Run
    BY <2>1, <2>2, NewRunType
  <2> DEFINE found == IF kind = "calibration" THEN {} ELSE left
  <2>4. found \in SUBSET SeedDoc
    OBVIOUS
  <2>5. world = [Untouched(Operator) EXCEPT !.vectors = found]
    BY <2>1
  <2> HIDE DEF found
  <2>6. world \in World
    BY <2>4, <2>5, UntouchedType, OwnerFacts DEF World
  <2>7. prep \in [Preparer -> Prep]
    BY <2>1, NewPrepType DEF PrepPc
  <2> QED
    BY <1>1, <2>1, <2>3, <2>6, <2>7 DEF TypeOK
<1>3. CASE /\ run = [NewRun("retrieval", "aggregate") EXCEPT !.pc = "idle"]
           /\ world = Untouched(None) /\ capture = "none"
           /\ prep = [w \in Preparer |-> NewPrep("idle")]
  <2>1. NewRun("retrieval", "aggregate") \in Run
    BY NewRunType DEF Kind, Phase
  <2>2. run \in Run
    BY <1>3, <2>1 DEF Run, RunPc
  <2>3. prep \in [Preparer -> Prep]
    BY <1>3, NewPrepType DEF PrepPc
  <2> QED
    BY <1>1, <1>3, <2>2, <2>3, UntouchedType, OwnerFacts DEF TypeOK
<1> QED
  BY <1>2, <1>3 DEF Init

LEMMA ShapeInit == Init => RunShape
<1> SUFFICES ASSUME Init PROVE RunShape
  OBVIOUS
<1>1. \/ \E kind \in Kind : \E phase \in Phases[kind] : run = NewRun(kind, phase)
      \/ run = [NewRun("retrieval", "aggregate") EXCEPT !.pc = "idle"]
  BY DEF Init
<1> QED
  BY <1>1 DEF RunShape, NewRun, Forward, Phases, Kind, Isolated

\* What belongs to the type and the course of a run.
Based == TypeOK /\ Covered /\ RunShape

LEMMA BasedNext == Based /\ [Next]_tools => Based'
<1> SUFFICES ASSUME Based, [Next]_tools PROVE Based'
  OBVIOUS
<1>1. Covered' /\ batch' \in Batch
  <2>1. Covered'
    BY CoveredNext DEF Based
  <2> QED
    BY <2>1 DEF Covered, BatchShape
<1>2. RunTypes /\ faults \in 0 .. MaxFaults /\ report \in Report /\ prep \in [Preparer -> Prep]
  BY DEF Based, TypeOK, RunTypes
<1>3. CASE UNCHANGED tools
  BY <1>1, <1>2, <1>3 DEF tools, Based, TypeOK, RunTypes, RunShape, Isolated
<1>4. CASE (SeedStep \/ CleanupStep) /\ UNCHANGED <<batch, report, prep>>
  <2>1. RunTypes' /\ (Sound \/ Fault \/ faults' = faults)
    BY <1>2, <1>4, SeedTypes, CleanupTypes DEF Based, RunShape
  <2>2. RunShape'
    BY <1>2, <1>4, ShapeSeed, ShapeCleanup DEF Based
  <2> QED
    BY <1>1, <1>2, <1>4, <2>1, <2>2, FaultsType DEF Based, TypeOK, RunTypes
<1>5. CASE SampleStep /\ UNCHANGED prep
  <2>1. RunTypes' /\ report' \in Report /\ (Sound \/ Fault \/ faults' = faults)
    BY <1>2, <1>5, SampleTypes DEF Based
  <2>2. RunShape'
    BY <1>2, <1>5, ShapeSample DEF Based
  <2> QED
    BY <1>1, <1>2, <1>5, <2>1, <2>2, FaultsType DEF Based, TypeOK, RunTypes
<1>6. ASSUME NEW w \in Preparer, PrepareStep(w) \/ TeardownStep(w)
      PROVE  Based'
  <2>1. /\ world' \in World /\ run' \in Run /\ prep' \in [Preparer -> Prep]
        /\ Sound \/ Fault \/ faults' = faults
        /\ UNCHANGED <<capture, batch, report>>
    BY <1>2, <1>6, PrepareTypes, TeardownTypes DEF RunTypes
  <2>2. RunShape'
    BY <1>6, ShapePreparer DEF Based
  <2> QED
    BY <1>1, <1>2, <2>1, <2>2, FaultsType DEF Based, TypeOK, RunTypes
<1> QED
  BY <1>3, <1>4, <1>5, <1>6 DEF Next

\* Whatever the seed, the plan, the preparers and the failures, every variable
\* keeps its domain: a run remembers no document it has not seeded, no step of
\* its cleanup is left without a name, and the recorded samples never go beyond
\* the plan.
THEOREM ToolsTyped == Spec => []TypeOK
<1>1. Init => Based
  BY TypeInit, CoveredInit, ShapeInit DEF Based
<1>2. Based => TypeOK
  BY DEF Based
<1> QED
  BY <1>1, <1>2, BasedNext, PTL DEF Spec

-----------------------------------------------------------------------------
(***************************************************************************)
(* Preparers under one run id.                                              *)
(***************************************************************************)
\* The course of one preparation: its flags go with where it is.
\* How a step takes a preparation from "p" to "q".
GoFrom(p, pc) == [p EXCEPT !.pc = pc]
LostFrom(p, pc) == [p EXCEPT !.pc = pc, !.error = TRUE]
BadFrom(p, pc) == [p EXCEPT !.pc = pc, !.ok = FALSE]
Made(p, c, pc) == [p EXCEPT !.pc = pc, !.made = @ \cup {c}]
Begun(p, q) ==
    \/ p.pc = "idle" /\ q \in {GoFrom(p, "inspect"), LostFrom(p, "artifacts"), LostFrom(p, "over")}
    \/ p.pc = "inspect" /\ q \in {GoFrom(p, "schema"), LostFrom(p, "artifacts")}
    \/ p.pc = "schema" /\ q \in {Made(p, "schema", "path"), LostFrom(p, "stop")}
    \/ p.pc = "path" /\ q \in {GoFrom(p, "database"), LostFrom(p, "stop")}
    \/ p.pc = "database" /\ q \in {Made(p, "database", "runDir"), LostFrom(p, "stop")}
    \/ p.pc = "runDir" /\ q \in {Made(p, "runDir", "configure"), LostFrom(p, "stop")}
    \/ p.pc = "configure" /\ q \in {[GoFrom(p, "start") EXCEPT !.configured = TRUE],
                                    [LostFrom(p, "stop") EXCEPT !.configured = TRUE]}
    \/ p.pc = "start" /\ q \in {[GoFrom(p, "ready") EXCEPT !.api = TRUE], LostFrom(p, "stop")}
    \/ p.pc = "ready" /\ q \in {GoFrom(p, "retrieve"), LostFrom(p, "stop")}
    \/ p.pc = "retrieve" /\ q = [GoFrom(p, "retrieving") EXCEPT !.asked = TRUE]
    \/ /\ p.pc = "retrieving"
       /\ q \in {LostFrom(p, "stop"), [GoFrom(p, "stop") EXCEPT !.entries = TRUE, !.error = FALSE],
                 [GoFrom(p, "stop") EXCEPT !.entries = FALSE, !.error = TRUE]}
TakenDown(p, q) ==
    \/ p.pc = "stop" /\ q \in {[GoFrom(p, "logging") EXCEPT !.api = FALSE, !.stopped = TRUE],
                               BadFrom(p, "dropSchema")}
    \/ p.pc = "logging" /\ q \in {[GoFrom(p, "residuals") EXCEPT !.quiet = TRUE],
                                  BadFrom(p, "residuals")}
    \/ p.pc = "residuals" /\ q \in {[GoFrom(p, "dispose") EXCEPT !.cleaned = TRUE],
                                    BadFrom(p, "dispose")}
    \/ p.pc = "dispose" /\ q \in {[GoFrom(p, "dropSchema") EXCEPT !.disposed = TRUE],
                                  BadFrom(p, "dropSchema")}
    \/ p.pc = "dropSchema" /\ q \in {GoFrom(p, "dropDatabase"), BadFrom(p, "dropDatabase")}
    \/ p.pc = "dropDatabase" /\ q \in {GoFrom(p, "dropRunDir"), BadFrom(p, "dropRunDir")}
    \/ p.pc = "dropRunDir" /\ q \in {GoFrom(p, "dropLogs"), BadFrom(p, "dropLogs")}
    \/ p.pc = "dropLogs" /\ q \in {GoFrom(p, "verify"), BadFrom(p, "verify")}
    \/ p.pc = "verify" /\ q \in {[GoFrom(p, "artifacts") EXCEPT !.verified = FALSE, !.ok = FALSE],
                                 BadFrom(p, "artifacts")}
    \/ p.pc = "verify" /\ p.ok /\ q = [GoFrom(p, "artifacts") EXCEPT !.verified = TRUE, !.ok = TRUE]
    \/ p.pc = "artifacts" /\ q \in {GoFrom(p, "over"), LostFrom(p, "over")}

LEMMA ShapedBegun ==
    ASSUME NEW p \in Prep, NEW q \in Prep, Begun(p, q), Shaped(p)
    PROVE  Shaped(q)
<1> USE DEF HoldsSchema, HoldsDatabase, HoldsDirectory, Starting
<1>1. CASE p.pc = "idle" /\ q \in {GoFrom(p, "inspect"), LostFrom(p, "artifacts"), LostFrom(p, "over")}
  <2>1. /\ q.pc \in {"inspect", "artifacts", "over"}
        /\ q.made = p.made /\ q.api = p.api /\ q.asked = p.asked /\ q.stopped = p.stopped
        /\ q.verified = p.verified /\ q.entries = p.entries
        /\ q.ok = p.ok /\ (p.error => q.error)
        /\ q.pc \in {"artifacts", "over"} => q.error
    BY <1>1 DEF GoFrom, LostFrom, Made, Prep
  <2> QED
    BY <1>1, <2>1 DEF Shaped
<1>2. CASE p.pc = "inspect" /\ q \in {GoFrom(p, "schema"), LostFrom(p, "artifacts")}
  <2>1. /\ q.pc \in {"schema", "artifacts"}
        /\ q.made = p.made /\ q.api = p.api /\ q.asked = p.asked /\ q.stopped = p.stopped
        /\ q.verified = p.verified /\ q.entries = p.entries
        /\ q.ok = p.ok /\ (p.error => q.error)
        /\ q.pc \in {"artifacts", "over"} => q.error
    BY <1>2 DEF GoFrom, LostFrom, Made, Prep
  <2> QED
    BY <1>2, <2>1 DEF Shaped
<1>3. CASE p.pc = "schema" /\ q \in {Made(p, "schema", "path"), LostFrom(p, "stop")}
  <2>1. /\ q.pc \in {"stop", "path"}
        /\ q.api = p.api /\ q.asked = p.asked /\ q.stopped = p.stopped /\ q.verified = p.verified
        /\ q.entries = p.entries
        /\ q.pc = "path" => q.made = p.made \cup {"schema"}
    BY <1>3 DEF GoFrom, LostFrom, Made, Prep
  <2> QED
    BY <1>3, <2>1 DEF Shaped
<1>4. CASE p.pc = "path" /\ q \in {GoFrom(p, "database"), LostFrom(p, "stop")}
  <2>1. /\ q.pc \in {"database", "stop"}
        /\ q.made = p.made /\ q.api = p.api /\ q.asked = p.asked /\ q.stopped = p.stopped
        /\ q.verified = p.verified /\ q.entries = p.entries
    BY <1>4 DEF GoFrom, LostFrom, Made, Prep
  <2> QED
    BY <1>4, <2>1 DEF Shaped
<1>5. CASE p.pc = "database" /\ q \in {Made(p, "database", "runDir"), LostFrom(p, "stop")}
  <2>1. /\ q.pc \in {"stop", "runDir"}
        /\ q.api = p.api /\ q.asked = p.asked /\ q.stopped = p.stopped /\ q.verified = p.verified
        /\ q.entries = p.entries
        /\ q.pc = "runDir" => q.made = p.made \cup {"database"}
        /\ q.pc = "stop" => q.made = p.made
    BY <1>5 DEF GoFrom, LostFrom, Made, Prep
  <2> QED
    BY <1>5, <2>1 DEF Shaped
<1>6. CASE p.pc = "runDir" /\ q \in {Made(p, "runDir", "configure"), LostFrom(p, "stop")}
  <2>1. /\ q.pc \in {"stop", "configure"}
        /\ q.api = p.api /\ q.asked = p.asked /\ q.stopped = p.stopped /\ q.verified = p.verified
        /\ q.entries = p.entries
        /\ q.pc = "configure" => q.made = p.made \cup {"runDir"}
        /\ q.pc = "stop" => q.made = p.made
    BY <1>6 DEF GoFrom, LostFrom, Made, Prep
  <2> QED
    BY <1>6, <2>1 DEF Shaped
<1>7. CASE p.pc = "configure" /\ q \in {[GoFrom(p, "start") EXCEPT !.configured = TRUE],
                                        [LostFrom(p, "stop") EXCEPT !.configured = TRUE]}
  <2>1. /\ q.pc \in {"start", "stop"}
        /\ q.made = p.made /\ q.api = p.api /\ q.asked = p.asked /\ q.stopped = p.stopped
        /\ q.verified = p.verified /\ q.entries = p.entries
    BY <1>7 DEF GoFrom, LostFrom, Made, Prep
  <2> QED
    BY <1>7, <2>1 DEF Shaped
<1>8. CASE p.pc = "start" /\ q \in {[GoFrom(p, "ready") EXCEPT !.api = TRUE], LostFrom(p, "stop")}
  <2>1. /\ q.pc \in {"ready", "stop"}
        /\ q.made = p.made /\ q.asked = p.asked /\ q.stopped = p.stopped /\ q.verified = p.verified
        /\ q.entries = p.entries
        /\ q.pc = "stop" => q.api = p.api
    BY <1>8 DEF GoFrom, LostFrom, Made, Prep
  <2> QED
    BY <1>8, <2>1 DEF Shaped
<1>9. CASE p.pc = "ready" /\ q \in {GoFrom(p, "retrieve"), LostFrom(p, "stop")}
  <2>1. /\ q.pc \in {"retrieve", "stop"}
        /\ q.made = p.made /\ q.api = p.api /\ q.asked = p.asked /\ q.stopped = p.stopped
        /\ q.verified = p.verified /\ q.entries = p.entries
    BY <1>9 DEF GoFrom, LostFrom, Made, Prep
  <2> QED
    BY <1>9, <2>1 DEF Shaped
<1>10. CASE p.pc = "retrieve" /\ q = [GoFrom(p, "retrieving") EXCEPT !.asked = TRUE]
  <2>1. /\ q.pc \in {"retrieving"}
        /\ q.made = p.made /\ q.api = p.api /\ q.stopped = p.stopped /\ q.verified = p.verified
        /\ q.entries = p.entries
        /\ q.asked
    BY <1>10 DEF GoFrom, LostFrom, Made, Prep
  <2> QED
    BY <1>10, <2>1 DEF Shaped
<1>11. CASE /\ p.pc = "retrieving"
            /\ q \in {LostFrom(p, "stop"), [GoFrom(p, "stop") EXCEPT !.entries = TRUE, !.error = FALSE],
                      [GoFrom(p, "stop") EXCEPT !.entries = FALSE, !.error = TRUE]}
  <2>1. /\ q.pc \in {"stop"}
        /\ q.made = p.made /\ q.api = p.api /\ q.asked = p.asked /\ q.stopped = p.stopped
        /\ q.verified = p.verified
    BY <1>11 DEF GoFrom, LostFrom, Made, Prep
  <2> QED
    BY <1>11, <2>1 DEF Shaped
<1> QED
  BY <1>1, <1>2, <1>3, <1>4, <1>5, <1>6, <1>7, <1>8, <1>9, <1>10, <1>11 DEF Begun

LEMMA ShapedTaken ==
    ASSUME NEW p \in Prep, NEW q \in Prep, TakenDown(p, q), Shaped(p)
    PROVE  Shaped(q)
<1> USE DEF HoldsSchema, HoldsDatabase, HoldsDirectory, Starting
<1>1. CASE p.pc = "stop" /\ q \in {[GoFrom(p, "logging") EXCEPT !.api = FALSE, !.stopped = TRUE],
                                   BadFrom(p, "dropSchema")}
  <2>1. /\ q.pc \in {"logging", "dropSchema"}
        /\ q.made = p.made /\ q.asked = p.asked /\ q.verified = p.verified /\ q.entries = p.entries
        /\ (~q.api /\ q.stopped) \/ (q.api = p.api /\ q.stopped = p.stopped /\ ~q.ok)
    BY <1>1 DEF GoFrom, LostFrom, BadFrom, Prep
  <2> QED
    BY <1>1, <2>1 DEF Shaped
<1>2. CASE p.pc = "logging" /\ q \in {[GoFrom(p, "residuals") EXCEPT !.quiet = TRUE],
                                      BadFrom(p, "residuals")}
  <2>1. /\ q.pc \in {"residuals"}
        /\ q.made = p.made /\ q.api = p.api /\ q.asked = p.asked /\ q.stopped = p.stopped
        /\ q.verified = p.verified /\ q.entries = p.entries
        /\ q.ok => p.ok
    BY <1>2 DEF GoFrom, LostFrom, BadFrom, Prep
  <2> QED
    BY <1>2, <2>1 DEF Shaped
<1>3. CASE p.pc = "residuals" /\ q \in {[GoFrom(p, "dispose") EXCEPT !.cleaned = TRUE],
                                        BadFrom(p, "dispose")}
  <2>1. /\ q.pc \in {"dispose"}
        /\ q.made = p.made /\ q.api = p.api /\ q.asked = p.asked /\ q.stopped = p.stopped
        /\ q.verified = p.verified /\ q.entries = p.entries
        /\ q.ok => p.ok
    BY <1>3 DEF GoFrom, LostFrom, BadFrom, Prep
  <2> QED
    BY <1>3, <2>1 DEF Shaped
<1>4. CASE p.pc = "dispose" /\ q \in {[GoFrom(p, "dropSchema") EXCEPT !.disposed = TRUE],
                                      BadFrom(p, "dropSchema")}
  <2>1. /\ q.pc \in {"dropSchema"}
        /\ q.made = p.made /\ q.api = p.api /\ q.asked = p.asked /\ q.stopped = p.stopped
        /\ q.verified = p.verified /\ q.entries = p.entries
        /\ q.ok => p.ok
    BY <1>4 DEF GoFrom, LostFrom, BadFrom, Prep
  <2> QED
    BY <1>4, <2>1 DEF Shaped
<1>5. CASE p.pc = "dropSchema" /\ q \in {GoFrom(p, "dropDatabase"), BadFrom(p, "dropDatabase")}
  <2>1. /\ q.pc \in {"dropDatabase"}
        /\ q.made = p.made /\ q.api = p.api /\ q.asked = p.asked /\ q.stopped = p.stopped
        /\ q.verified = p.verified /\ q.entries = p.entries
        /\ q.ok => p.ok
    BY <1>5 DEF GoFrom, LostFrom, BadFrom, Prep
  <2> QED
    BY <1>5, <2>1 DEF Shaped
<1>6. CASE p.pc = "dropDatabase" /\ q \in {GoFrom(p, "dropRunDir"), BadFrom(p, "dropRunDir")}
  <2>1. /\ q.pc \in {"dropRunDir"}
        /\ q.made = p.made /\ q.api = p.api /\ q.asked = p.asked /\ q.stopped = p.stopped
        /\ q.verified = p.verified /\ q.entries = p.entries
        /\ q.ok => p.ok
    BY <1>6 DEF GoFrom, LostFrom, BadFrom, Prep
  <2> QED
    BY <1>6, <2>1 DEF Shaped
<1>7. CASE p.pc = "dropRunDir" /\ q \in {GoFrom(p, "dropLogs"), BadFrom(p, "dropLogs")}
  <2>1. /\ q.pc \in {"dropLogs"}
        /\ q.made = p.made /\ q.api = p.api /\ q.asked = p.asked /\ q.stopped = p.stopped
        /\ q.verified = p.verified /\ q.entries = p.entries
        /\ q.ok => p.ok
    BY <1>7 DEF GoFrom, LostFrom, BadFrom, Prep
  <2> QED
    BY <1>7, <2>1 DEF Shaped
<1>8. CASE p.pc = "dropLogs" /\ q \in {GoFrom(p, "verify"), BadFrom(p, "verify")}
  <2>1. /\ q.pc \in {"verify"}
        /\ q.made = p.made /\ q.api = p.api /\ q.asked = p.asked /\ q.stopped = p.stopped
        /\ q.verified = p.verified /\ q.entries = p.entries
        /\ q.ok => p.ok
    BY <1>8 DEF GoFrom, LostFrom, BadFrom, Prep
  <2> QED
    BY <1>8, <2>1 DEF Shaped
<1>9. CASE p.pc = "verify" /\ q \in {[GoFrom(p, "artifacts") EXCEPT !.verified = FALSE, !.ok = FALSE],
                                     BadFrom(p, "artifacts")}
  <2>1. /\ q.pc \in {"artifacts"}
        /\ q.made = p.made /\ q.api = p.api /\ q.asked = p.asked /\ q.stopped = p.stopped
        /\ q.entries = p.entries
        /\ ~q.ok
    BY <1>9 DEF GoFrom, LostFrom, BadFrom, Prep
  <2> QED
    BY <1>9, <2>1 DEF Shaped
<1>10. CASE p.pc = "verify" /\ p.ok /\ q = [GoFrom(p, "artifacts") EXCEPT !.verified = TRUE, !.ok = TRUE]
  <2>1. /\ q.pc \in {"artifacts"}
        /\ q.made = p.made /\ q.api = p.api /\ q.asked = p.asked /\ q.stopped = p.stopped
        /\ q.entries = p.entries
        /\ q.verified
    BY <1>10 DEF GoFrom, LostFrom, BadFrom, Prep
  <2> QED
    BY <1>10, <2>1 DEF Shaped
<1>11. CASE p.pc = "artifacts" /\ q \in {GoFrom(p, "over"), LostFrom(p, "over")}
  <2>1. /\ q.pc \in {"over"}
        /\ q.made = p.made /\ q.api = p.api /\ q.asked = p.asked /\ q.stopped = p.stopped
        /\ q.verified = p.verified /\ q.entries = p.entries
        /\ q.ok = p.ok /\ (p.error => q.error)
    BY <1>11 DEF GoFrom, LostFrom, BadFrom, Prep
  <2> QED
    BY <1>11, <2>1 DEF Shaped
<1> QED
  BY <1>1, <1>2, <1>3, <1>4, <1>5, <1>6, <1>7, <1>8, <1>9, <1>10, <1>11 DEF TakenDown

\* What no step of a preparation changes, but the one or two whose purpose it is.
Steady(p, q) ==
    /\ p.pc \notin {"schema", "database", "runDir"} => q.made = p.made
    /\ p.pc # "retrieve" => q.asked = p.asked /\ q.pc # "retrieving"
    /\ p.pc # "retrieving" => q.entries = p.entries
    /\ p.pc # "absent" /\ q.pc # "absent"
    /\ p.pc # "start" /\ q.api => p.api
    /\ p.pc \in AfterSchema => q.pc \in AfterSchema
    /\ p.pc \in AfterDatabase => q.pc \in AfterDatabase
    /\ p.pc # "verify" => q.verified = p.verified

LEMMA SteadyCourse ==
    ASSUME NEW p \in Prep, NEW q \in Prep, Begun(p, q) \/ TakenDown(p, q)
    PROVE  Steady(p, q)
<1> USE DEF Steady, GoFrom, LostFrom, BadFrom, Made, Prep, AfterSchema, AfterDatabase
<1>1. CASE p.pc = "idle" /\ q \in {GoFrom(p, "inspect"), LostFrom(p, "artifacts"), LostFrom(p, "over")}
  BY <1>1
<1>2. CASE p.pc = "inspect" /\ q \in {GoFrom(p, "schema"), LostFrom(p, "artifacts")}
  BY <1>2
<1>3. CASE p.pc = "schema" /\ q \in {Made(p, "schema", "path"), LostFrom(p, "stop")}
  BY <1>3
<1>4. CASE p.pc = "path" /\ q \in {GoFrom(p, "database"), LostFrom(p, "stop")}
  BY <1>4
<1>5. CASE p.pc = "database" /\ q \in {Made(p, "database", "runDir"), LostFrom(p, "stop")}
  BY <1>5
<1>6. CASE p.pc = "runDir" /\ q \in {Made(p, "runDir", "configure"), LostFrom(p, "stop")}
  BY <1>6
<1>7. CASE p.pc = "configure" /\ q \in {[GoFrom(p, "start") EXCEPT !.configured = TRUE],
                                        [LostFrom(p, "stop") EXCEPT !.configured = TRUE]}
  BY <1>7
<1>8. CASE p.pc = "start" /\ q \in {[GoFrom(p, "ready") EXCEPT !.api = TRUE], LostFrom(p, "stop")}
  BY <1>8
<1>9. CASE p.pc = "ready" /\ q \in {GoFrom(p, "retrieve"), LostFrom(p, "stop")}
  BY <1>9
<1>10. CASE p.pc = "retrieve" /\ q = [GoFrom(p, "retrieving") EXCEPT !.asked = TRUE]
  BY <1>10
<1>11. CASE /\ p.pc = "retrieving"
            /\ q \in {LostFrom(p, "stop"), [GoFrom(p, "stop") EXCEPT !.entries = TRUE, !.error = FALSE],
                      [GoFrom(p, "stop") EXCEPT !.entries = FALSE, !.error = TRUE]}
  BY <1>11
<1>12. CASE p.pc = "stop" /\ q \in {[GoFrom(p, "logging") EXCEPT !.api = FALSE, !.stopped = TRUE],
                                    BadFrom(p, "dropSchema")}
  BY <1>12
<1>13. CASE p.pc = "logging" /\ q \in {[GoFrom(p, "residuals") EXCEPT !.quiet = TRUE],
                                       BadFrom(p, "residuals")}
  BY <1>13
<1>14. CASE p.pc = "residuals" /\ q \in {[GoFrom(p, "dispose") EXCEPT !.cleaned = TRUE],
                                         BadFrom(p, "dispose")}
  BY <1>14
<1>15. CASE p.pc = "dispose" /\ q \in {[GoFrom(p, "dropSchema") EXCEPT !.disposed = TRUE],
                                       BadFrom(p, "dropSchema")}
  BY <1>15
<1>16. CASE p.pc = "dropSchema" /\ q \in {GoFrom(p, "dropDatabase"), BadFrom(p, "dropDatabase")}
  BY <1>16
<1>17. CASE p.pc = "dropDatabase" /\ q \in {GoFrom(p, "dropRunDir"), BadFrom(p, "dropRunDir")}
  BY <1>17
<1>18. CASE p.pc = "dropRunDir" /\ q \in {GoFrom(p, "dropLogs"), BadFrom(p, "dropLogs")}
  BY <1>18
<1>19. CASE p.pc = "dropLogs" /\ q \in {GoFrom(p, "verify"), BadFrom(p, "verify")}
  BY <1>19
<1>20. CASE p.pc = "verify" /\ q \in {[GoFrom(p, "artifacts") EXCEPT !.verified = FALSE, !.ok = FALSE],
                                      BadFrom(p, "artifacts")}
  BY <1>20
<1>21. CASE p.pc = "verify" /\ p.ok /\ q = [GoFrom(p, "artifacts") EXCEPT !.verified = TRUE, !.ok = TRUE]
  BY <1>21
<1>22. CASE p.pc = "artifacts" /\ q \in {GoFrom(p, "over"), LostFrom(p, "over")}
  BY <1>22
<1> QED
  BY <1>1, <1>2, <1>3, <1>4, <1>5, <1>6, <1>7, <1>8, <1>9, <1>10, <1>11,
     <1>12, <1>13, <1>14, <1>15, <1>16, <1>17, <1>18, <1>19, <1>20, <1>21, <1>22 DEF Begun, TakenDown

LEMMA PrepareCourse ==
    ASSUME prep \in [Preparer -> Prep], NEW w \in Preparer, PrepareStep(w)
    PROVE  Begun(prep[w], prep'[w])
<1> USE DEF Begun, GoFrom, LostFrom, Made, At, Into, Go, Lost
<1>0. \A record : Into(w, record) => prep'[w] = record
  OBVIOUS
<1>1. CASE BeginPreparation(w) \/ InspectTargets(w) \/ VerifySearchPath(w) \/ WaitApiReady(w)
  BY <1>1 DEF BeginPreparation, InspectTargets, VerifySearchPath, WaitApiReady
<1>2. CASE CreateSchema(w) \/ CreateDatabase(w)
  BY <1>2 DEF CreateSchema, CreateDatabase, Create, Prep
<1>3. CASE CreateRunDirectory(w)
  BY <1>3 DEF CreateRunDirectory, Prep
<1>4. CASE ConfigureRuntime(w) \/ StartApi(w)
  BY <1>4 DEF ConfigureRuntime, StartApi
<1>5. CASE RunRetrieval(w)
  BY <1>5 DEF RunRetrieval
<1>6. CASE BuildDataset(w)
  <2>1. \/ prep'[w] = Lost(w, "stop")
        \/ \E some \in BOOLEAN :
              prep'[w] = [Go(w, "stop") EXCEPT !.entries = some, !.error = ~some]
    BY <1>6 DEF BuildDataset
  <2>2. (~TRUE) = FALSE /\ (~FALSE) = TRUE
    OBVIOUS
  <2>3. prep'[w] \in {Lost(w, "stop"), [Go(w, "stop") EXCEPT !.entries = TRUE, !.error = FALSE],
                      [Go(w, "stop") EXCEPT !.entries = FALSE, !.error = TRUE]}
    BY <2>1, <2>2, Zenon
  <2> QED
    BY <1>6, <2>3 DEF BuildDataset
<1> QED
  BY <1>1, <1>2, <1>3, <1>4, <1>5, <1>6 DEF PrepareStep

LEMMA TeardownCourse ==
    ASSUME prep \in [Preparer -> Prep], NEW w \in Preparer, TeardownStep(w)
    PROVE  TakenDown(prep[w], prep'[w])
<1> USE DEF TakenDown, GoFrom, LostFrom, BadFrom, At, Into, Go, Lost, Bad
<1>1. CASE StopApi(w) \/ ShutdownLogging(w) \/ CleanupRetrieval(w) \/ DisposeRuntime(w)
  BY <1>1 DEF StopApi, ShutdownLogging, CleanupRetrieval, DisposeRuntime
<1>2. CASE DropSchema(w)
  BY <1>2 DEF DropSchema, Drop
<1>3. CASE DropDatabase(w)
  BY <1>3 DEF DropDatabase, Drop
<1>4. CASE DropRunDirectory(w)
  BY <1>4 DEF DropRunDirectory, Drop
<1>5. CASE DropLogs(w)
  BY <1>5 DEF DropLogs, Drop
<1>6. CASE VerifyCleanup(w)
  <2> DEFINE verified == Gone(w) /\ prep[w].ok
  <2>1. verified \in BOOLEAN /\ Go(w, "artifacts").ok = prep[w].ok
        /\ (verified => prep[w].ok)
    BY DEF Prep
  <2>2. \/ prep'[w] = [Go(w, "artifacts") EXCEPT !.verified = verified, !.ok = verified]
        \/ prep'[w] = Bad(w, "artifacts")
    BY <1>6, <2>1 DEF VerifyCleanup
  <2> HIDE DEF verified
  <2> QED
    BY <1>6, <2>1, <2>2 DEF VerifyCleanup
<1>7. CASE WriteArtifacts(w)
  BY <1>7 DEF WriteArtifacts
<1> QED
  BY <1>1, <1>2, <1>3, <1>4, <1>5, <1>6, <1>7 DEF TeardownStep

\* What the steps of a run do to the containers: it empties its own database
\* and removes its own directory, and neither makes nor takes away a schema.
Contained ==
    /\ run.pc \notin Ended \cup {"idle"} /\ run'.kind = run.kind
    /\ run'.pc \notin {"idle", "start"} /\ run'.phase = run.phase
    /\ world'.schema = world.schema /\ world'.results = world.results
    /\ world'.logDir = world.logDir
    /\ world'.database = world.database \/ (run.pc = "chroma" /\ world'.database = None)
    /\ world'.runDir \in {world.runDir, None}
    /\ run.kind = "retrieval" => capture' = capture
    /\ run'.pc \in PreChroma => run.pc \in PreChroma \ {"chroma"}

LEMMA SeedContained ==
    ASSUME RunTypes, RunShape, SeedStep
    PROVE  Contained
<1> USE FailFields, FailType DEF RunTypes, Ended
<1>1. /\ run.pc \in {"start", "register", "login", "projects", "upload", "confirm", "use",
                     "persist", "probe", "capture", "result"}
      /\ run.kind = "retrieval" => capture' = capture
  BY DEF SeedStep, AssertEmpty, BeginCalibration, RegisterPrincipal, LoginPrincipal, SeedProjects,
         SeedUpload, SeedConfirm, CollectOutcomes, RankQueries, DiagnoseRetrieval, ProbeGraph,
         CompareFusions, AskLegacy, WriteCapture, WriteResult, Look, RunShape
<1> DEFINE SameWorld ==
      /\ world'.schema = world.schema /\ world'.results = world.results
      /\ world'.logDir = world.logDir /\ world'.database = world.database
      /\ world'.runDir = world.runDir
<1>2. SameWorld
  <2>1. CASE UNCHANGED world
    BY <2>1
  <2>2. CASE RegisterPrincipal \/ LoginPrincipal \/ SeedConfirm
    BY <2>2 DEF RegisterPrincipal, LoginPrincipal, SeedConfirm, Attempt, World
  <2>3. CASE SeedProjects
    <3>1. PICK p \in SeedProject :
             world' \in {world, [world EXCEPT !.projects = @ \cup {p}, !.bases = @ \cup {p}]}
      BY <2>3 DEF SeedProjects, Attempt
    <3> QED
      BY <3>1 DEF World
  <2>4. CASE SeedUpload
    <3>1. PICK d \in SeedDoc :
             world' \in {world, [world EXCEPT !.documents = @ \cup {d}, !.uploads = @ \cup {d},
                                              !.local = TRUE]}
      BY <2>4 DEF SeedUpload, Attempt
    <3> QED
      BY <3>1 DEF World
  <2>5. CASE ProbeGraph \/ AskLegacy
    <3>1. CASE world' = [world EXCEPT !.local = TRUE]
      BY <3>1 DEF World
    <3>2. CASE \E left : world' = [world EXCEPT !.threads = left, !.local = TRUE]
      BY <3>2 DEF World
    <3>3. CASE \E talk : world' = [world EXCEPT !.threads = talk]
      BY <3>3 DEF World
    <3> QED
      BY <2>5, <3>1, <3>2, <3>3 DEF ProbeGraph, AskLegacy
  <2> QED
    BY <2>1, <2>2, <2>3, <2>4, <2>5
       DEF SeedStep, AssertEmpty, BeginCalibration, CollectOutcomes, RankQueries,
           DiagnoseRetrieval, CompareFusions, WriteCapture, WriteResult, Look
<1>3. run'.kind = run.kind /\ run'.phase = run.phase /\ run'.pc \notin {"idle", "start"}
  <2>1. CASE run' \in {Fail, Refused, Cleaning}
    BY <2>1
  <2>2. CASE AssertEmpty \/ BeginCalibration
    BY <2>2 DEF AssertEmpty, BeginCalibration, Run
  <2>3. CASE RegisterPrincipal
    <3> DEFINE once == RememberedAtOnce
    <3> HIDE DEF once
    <3>1. run' \in {[run EXCEPT !.pc = "login", !.user = once], Fail}
      BY <2>3 DEF RegisterPrincipal, Attempt, once
    <3> QED
      BY <3>1 DEF Run
  <2>4. CASE LoginPrincipal
    BY <2>4 DEF LoginPrincipal, Attempt, Run
  <2>5. CASE SeedProjects
    BY <2>5 DEF SeedProjects, Attempt, Run
  <2>6. CASE SeedUpload
    BY <2>6 DEF SeedUpload, Attempt, Run
  <2>7. CASE SeedConfirm
    BY <2>7 DEF SeedConfirm, Attempt, Run
  <2>8. CASE CollectOutcomes \/ RankQueries \/ DiagnoseRetrieval \/ CompareFusions
    BY <2>8 DEF CollectOutcomes, RankQueries, DiagnoseRetrieval, CompareFusions, Look, Run
  <2>9. CASE ProbeGraph \/ AskLegacy
    BY <2>9 DEF ProbeGraph, AskLegacy
  <2>10. CASE WriteCapture
    BY <2>10 DEF WriteCapture, Run
  <2>11. CASE WriteResult
    <3>1. \/ run' = Fail
          \/ \E pc \in {"documents", "close"} : run' = [Cleaning EXCEPT !.pc = pc]
      BY <2>11 DEF WriteResult
    <3> QED
      BY <3>1 DEF Run
  <2> QED
    BY <2>2, <2>3, <2>4, <2>5, <2>6, <2>7, <2>8, <2>9, <2>10, <2>11 DEF SeedStep
<1> QED
  BY <1>1, <1>2, <1>3 DEF Contained, PreChroma, RunPc

LEMMA CleanupContained ==
    ASSUME RunTypes, RunShape, CleanupStep
    PROVE  Contained
<1>1. SameRun /\ CleanupTurn
  BY CleanupRun
<1>2. /\ world'.schema = world.schema /\ world'.results = world.results
      /\ world'.logDir = world.logDir
      /\ world'.database = world.database \/ (run.pc = "chroma" /\ world'.database = None)
      /\ world'.runDir \in {world.runDir, None}
  <2> USE DEF RunTypes
  <2>1. CASE UNCHANGED world
    BY <2>1
  <2>2. CASE DeleteSeeded
    BY <2>2 DEF DeleteSeeded, PartlyDeleted, World
  <2>3. CASE RemoveSeededProject
    BY <2>3 DEF RemoveSeededProject, World
  <2>4. CASE PurgePrincipal
    BY <2>4 DEF PurgePrincipal, World
  <2>5. CASE DeleteIsolatedChroma
    BY <2>5 DEF DeleteIsolatedChroma, World
  <2>6. CASE RemoveLocalTargets
    BY <2>6 DEF RemoveLocalTargets, World
  <2> QED
    BY <2>1, <2>2, <2>3, <2>4, <2>5, <2>6
       DEF CleanupStep, DiscardCapture, TurnToProjects, LogOut, CloseApi, VerifyZero
<1>3. run.kind = "retrieval" => capture' = capture
  BY DEF CleanupStep, DiscardCapture, DeleteSeeded, TurnToProjects, RemoveSeededProject,
         LogOut, PurgePrincipal, CloseApi, DeleteIsolatedChroma, RemoveLocalTargets, VerifyZero
<1> QED
  BY <1>1, <1>2, <1>3 DEF Contained, SameRun, CleanupTurn, Turn, PreChroma, RunPc, Ended

LEMMA SampleContained ==
    ASSUME RunTypes, RunShape, SampleStep
    PROVE  Contained
<1> USE FailFields, FailType DEF RunTypes
<1>1. /\ capture' = capture
      /\ world'.schema = world.schema /\ world'.results = world.results
      /\ world'.logDir = world.logDir /\ world'.database = world.database
      /\ world'.runDir = world.runDir
  <2>1. CASE UNCHANGED <<world, capture>>
    BY <2>1
  <2>2. CASE OpenSample
    <3>1. /\ capture' = capture
          /\ \/ world' = world
             \/ \E p \in SeedProject : world' = [world EXCEPT !.threads = @ \cup {p}]
      BY <2>2 DEF OpenSample
    <3> QED
      BY <3>1 DEF World
  <2> QED
    BY <2>1, <2>2 DEF SampleStep, AnswerDirectly, Decide, Judge, InCall, CloseSample,
                      AbandonSample, FinishBatch, RecordFailure, FinalReport
<1>2. \/ run.pc = "use" /\ run' \in {run, Fail, Cleaning}
      \/ /\ run.pc \in {"discard", "report"}
         /\ \E pc \in {"documents", "close", "over"} : run' = [run EXCEPT !.pc = pc]
         /\ run.pc = "report" => run'.pc = "over"
  <2>1. CASE OpenSample \/ AnswerDirectly \/ Decide \/ Judge
    BY <2>1 DEF OpenSample, AnswerDirectly, Decide, Judge, InCall, Sampling
  <2>2. CASE CloseSample \/ AbandonSample \/ FinishBatch
    BY <2>2 DEF CloseSample, AbandonSample, FinishBatch, Sampling
  <2>3. CASE RecordFailure
    BY <2>3 DEF RecordFailure
  <2>4. CASE FinalReport
    BY <2>4 DEF FinalReport, Run
  <2> QED
    BY <2>1, <2>2, <2>3, <2>4 DEF SampleStep
<1> QED
  BY <1>1, <1>2 DEF Contained, PreChroma, RunPc, Ended, Run

-----------------------------------------------------------------------------
\* The claims of the preparers on the containers and on the one retrieval.
Claims == SchemaInv /\ DirectoryInv /\ RetrievalInv /\ DatabaseInv
Shapes == \A w \in Preparer : PrepShape(w)
Others(w) == \A v \in Preparer \ {w} : prep'[v] = prep[v]

\* What most steps of a preparer have in common: they leave the claims alone.
Mild(w) ==
    LET p == prep[w]
        q == prep'[w]
    IN /\ run' = run /\ capture' = capture /\ Others(w)
       /\ world'.schema = world.schema /\ world'.database = world.database
       /\ world.results => world'.results
       /\ q.made = p.made /\ q.asked = p.asked /\ q.entries = p.entries
       /\ p.pc \notin {"absent", "retrieving"} /\ q.pc \notin {"absent", "retrieving"}
       /\ q.api => p.api \/ p.pc \notin AfterSchema
       /\ p.pc \in AfterSchema => q.pc \in AfterSchema
       /\ p.pc \in AfterDatabase => q.pc \in AfterDatabase

LEMMA MildClaims ==
    ASSUME prep \in [Preparer -> Prep], NEW w \in Preparer, Mild(w), Claims
    PROVE  Claims'
<1> USE DEF Claims, Mild, Others
<1>0. \A v \in Preparer :
         /\ prep'[v].made = prep[v].made /\ prep'[v].asked = prep[v].asked
         /\ prep'[v].entries = prep[v].entries
         /\ prep'[v].pc = "retrieving" <=> prep[v].pc = "retrieving"
         /\ prep'[v].pc = "absent" <=> prep[v].pc = "absent"
  OBVIOUS
<1>1. SchemaInv'
  BY DEF SchemaInv
<1>2. DirectoryInv'
  BY <1>0 DEF DirectoryInv
<1>3. RetrievalInv'
  BY <1>0 DEF RetrievalInv
<1>4. DatabaseInv'
  BY <1>0 DEF DatabaseInv
<1> QED
  BY <1>1, <1>2, <1>3, <1>4

LEMMA RunClaims ==
    ASSUME Contained, prep' = prep, Claims, Shapes
    PROVE  Claims'
<1> USE DEF Claims, Contained
<1>1. SchemaInv'
  BY DEF SchemaInv
<1>2. DirectoryInv'
  BY DEF DirectoryInv
<1>3. RetrievalInv'
  <2>1. run.pc \notin Ended \cup {"idle"}
    OBVIOUS
  <2> SUFFICES ASSUME NEW w \in Preparer
               PROVE  /\ prep[w].pc # "absent" =>
                            /\ run'.kind = "retrieval" /\ capture' = "none"
                            /\ \E v \in Preparer : prep[v].pc = "retrieving"
                            /\ \E v \in Preparer : prep[v].asked
                      /\ prep[w].asked => prep[w].pc = "retrieving" /\ run'.pc # "idle"
                      /\ ~prep[w].entries
    BY DEF RetrievalInv
  <2> QED
    BY <2>1 DEF RetrievalInv, Ended
<1>4. DatabaseInv'
  <2> SUFFICES ASSUME \A v \in Preparer :
                         prep[v].asked => prep[v].pc = "retrieving" /\ run'.pc \in PreChroma,
                      NEW w \in Preparer,
                      "database" \in prep[w].made, prep[w].pc \notin AfterDatabase
               PROVE  world'.database = w
    BY DEF DatabaseInv
  <2>1. prep[w].pc # "absent"
    BY DEF Shapes, PrepShape, Shaped
  <2>2. PICK v \in Preparer : prep[v].asked
    BY <2>1 DEF RetrievalInv
  <2>3. run.pc \in PreChroma /\ run.pc # "chroma"
    BY <2>2
  <2> QED
    BY <2>3 DEF DatabaseInv
<1> QED
  BY <1>1, <1>2, <1>3, <1>4

\* Most steps of a preparer are mild.
LEMMA MildSteps ==
    ASSUME TypeOK, NEW w \in Preparer, Shapes,
           \/ BeginPreparation(w) \/ InspectTargets(w) \/ VerifySearchPath(w)
           \/ ConfigureRuntime(w) \/ StartApi(w) \/ WaitApiReady(w)
           \/ StopApi(w) \/ ShutdownLogging(w) \/ CleanupRetrieval(w) \/ DisposeRuntime(w)
           \/ DropRunDirectory(w) \/ DropLogs(w) \/ VerifyCleanup(w) \/ WriteArtifacts(w)
    PROVE  Mild(w)
<1> DEFINE p == prep[w]
           q == prep'[w]
<1>0. p \in Prep /\ (PrepareStep(w) \/ TeardownStep(w))
  BY DEF TypeOK, PrepareStep, TeardownStep
<1>1. run' = run /\ capture' = capture /\ Others(w)
  <2>1. \E record : Into(w, record)
    BY DEF BeginPreparation, InspectTargets, VerifySearchPath, ConfigureRuntime, StartApi,
           WaitApiReady, StopApi, ShutdownLogging, CleanupRetrieval, DisposeRuntime,
           DropRunDirectory, DropLogs, VerifyCleanup, WriteArtifacts, Drop
  <2>2. Others(w)
    BY <2>1 DEF Others, Into, TypeOK
  <2> QED
    BY <2>2 DEF BeginPreparation, InspectTargets, VerifySearchPath, ConfigureRuntime, StartApi,
           WaitApiReady, StopApi, ShutdownLogging, CleanupRetrieval, DisposeRuntime,
           DropRunDirectory, DropLogs, VerifyCleanup, WriteArtifacts, Reading, Alone, Around
<1>2. /\ world'.schema = world.schema /\ world'.database = world.database
      /\ world.results => world'.results
  <2>1. CASE world' = world
    BY <2>1
  <2>2. CASE ConfigureRuntime(w)
    BY <2>2 DEF ConfigureRuntime, TypeOK, World
  <2>3. CASE DropRunDirectory(w)
    BY <2>3 DEF DropRunDirectory, Drop, TypeOK, World
  <2>4. CASE DropLogs(w)
    BY <2>4 DEF DropLogs, Drop, TypeOK, World
  <2>5. CASE WriteArtifacts(w)
    BY <2>5 DEF WriteArtifacts, TypeOK, World
  <2> QED
    BY <2>1, <2>2, <2>3, <2>4, <2>5
       DEF BeginPreparation, InspectTargets, VerifySearchPath, StartApi, WaitApiReady,
           StopApi, ShutdownLogging, CleanupRetrieval, DisposeRuntime, VerifyCleanup, Reading
<1>3. p \in Prep /\ q \in Prep /\ Steady(p, q)
  <2>1. prep' \in [Preparer -> Prep]
    BY <1>0, PrepareTypes, TeardownTypes DEF TypeOK
  <2> QED
    BY <1>0, <2>1, PrepareCourse, TeardownCourse, SteadyCourse DEF TypeOK
<1>4. p.pc \notin {"absent", "schema", "database", "runDir", "retrieve", "retrieving"}
  BY DEF BeginPreparation, InspectTargets, VerifySearchPath, ConfigureRuntime, StartApi,
         WaitApiReady, StopApi, ShutdownLogging, CleanupRetrieval, DisposeRuntime,
         DropRunDirectory, DropLogs, VerifyCleanup, WriteArtifacts, At
<1> QED
  BY <1>1, <1>2, <1>3, <1>4 DEF Mild, Steady, AfterSchema

\* Steps that touch a claim, one by one.
LEMMA ClaimsOfOthers ==
    ASSUME prep \in [Preparer -> Prep], NEW w \in Preparer, NEW record, Into(w, record)
    PROVE  Others(w) /\ prep'[w] = record
BY DEF Others, Into

\* The rest of a step that changes no flag but those of its own pc.
LEMMA PreparerStep ==
    ASSUME TypeOK, NEW w \in Preparer, PrepareStep(w) \/ TeardownStep(w), Shapes
    PROVE  /\ prep[w] \in Prep /\ prep'[w] \in Prep /\ Steady(prep[w], prep'[w])
           /\ Others(w) /\ capture' = capture /\ Shapes'
<1>1. /\ prep' \in [Preparer -> Prep] /\ capture' = capture
      /\ prep[w] \in Prep
  BY PrepareTypes, TeardownTypes DEF TypeOK
<1>2. \E record : Into(w, record)
  BY DEF PrepareStep, BeginPreparation, InspectTargets, CreateSchema, VerifySearchPath,
         CreateDatabase, Create, CreateRunDirectory, ConfigureRuntime, StartApi, WaitApiReady,
         RunRetrieval, BuildDataset, TeardownStep, StopApi, ShutdownLogging,
         CleanupRetrieval, DisposeRuntime, DropSchema, DropDatabase, DropRunDirectory,
         DropLogs, Drop, VerifyCleanup, WriteArtifacts
<1>3. Others(w)
  BY <1>2, ClaimsOfOthers DEF TypeOK
<1>4. Begun(prep[w], prep'[w]) \/ TakenDown(prep[w], prep'[w])
  BY PrepareCourse, TeardownCourse DEF TypeOK
<1>5. Steady(prep[w], prep'[w])
  BY <1>1, <1>4, SteadyCourse
<1>6. Shaped(prep'[w])
  BY <1>1, <1>4, ShapedBegun, ShapedTaken DEF Shapes, PrepShape
<1>7. Shapes'
  BY <1>3, <1>6 DEF Shapes, PrepShape, Others
<1> QED
  BY <1>1, <1>3, <1>5, <1>7

\* A name is only taken while it is free, so nobody else has a claim on it.
LEMMA CreateSchemaClaims ==
    ASSUME TypeOK, NEW w \in Preparer, Shapes, Claims, CreateSchema(w)
    PROVE  Claims'
<1> DEFINE p == prep[w]
           q == prep'[w]
<1>1. /\ p \in Prep /\ q \in Prep /\ Steady(p, q) /\ Others(w) /\ capture' = capture
      /\ p.pc = "schema" /\ run' = run /\ p.made = {}
  <2>1. PrepareStep(w) /\ p.pc = "schema" /\ run' = run
    BY DEF PrepareStep, CreateSchema, At, Alone
  <2> QED
    BY <2>1, PreparerStep DEF Shapes, PrepShape, Shaped
<1>2. /\ world'.database = world.database /\ world'.results = world.results
      /\ \/ world'.schema = world.schema
         \/ world.schema = None /\ world'.schema = w
      /\ q.made \in {{}, {"schema"}}
      /\ q.made = {} \/ world'.schema = w
  <2> DEFINE created == [world EXCEPT !["schema"] = w]
             made == [Go(w, "path") EXCEPT !.made = @ \cup {"schema"}]
  <2>1. /\ world' \in {world, created} /\ (world' = world \/ world["schema"] = None)
        /\ q = Lost(w, "stop") \/ (q = made /\ world' = created)
    <3>1. Create(w, "schema", "path") /\ \A r : Into(w, r) => q = r
      BY DEF CreateSchema, Into, TypeOK
    <3> QED
      BY <3>1 DEF Create
  <2>2. /\ created.schema = w /\ created.database = world.database
        /\ created.results = world.results
    BY DEF TypeOK, World
  <2>3. made.made = p.made \cup {"schema"} /\ Lost(w, "stop").made = p.made
    BY <1>1 DEF Go, Lost, Prep
  <2> HIDE DEF created, made, q
  <2> QED
    BY <1>1, <2>1, <2>2, <2>3
<1>3. None \notin Preparer
  BY OwnerFacts
<1>4. /\ \A v \in Preparer \ {w} : prep'[v] = prep[v]
      /\ q.asked = p.asked /\ q.entries = p.entries /\ p.pc # "absent" /\ q.pc # "absent"
      /\ q.pc # "retrieving"
  BY <1>1 DEF Others, Steady
<1> HIDE DEF p, q
<1>5. SchemaInv'
  <2> SUFFICES ASSUME NEW v \in Preparer, "schema" \in prep'[v].made,
                      prep'[v].api \/ prep'[v].pc \notin AfterSchema
               PROVE  world'.schema = v
    BY DEF SchemaInv
  <2>1. CASE v = w
    BY <1>2, <2>1 DEF q
  <2>2. CASE v # w
    BY <1>2, <1>3, <1>4, <2>2 DEF Claims, SchemaInv
  <2> QED
    BY <2>1, <2>2
<1>6. DirectoryInv'
  BY <1>1, <1>2, <1>4 DEF Claims, DirectoryInv, p, q
<1>7. RetrievalInv'
  BY <1>1, <1>2, <1>4 DEF Claims, RetrievalInv, p, q
<1>8. DatabaseInv'
  BY <1>1, <1>2, <1>4 DEF Claims, DatabaseInv, p, q
<1> QED
  BY <1>5, <1>6, <1>7, <1>8 DEF Claims

LEMMA CreateDatabaseClaims ==
    ASSUME TypeOK, NEW w \in Preparer, Shapes, Claims, CreateDatabase(w)
    PROVE  Claims'
<1> DEFINE p == prep[w]
           q == prep'[w]
<1>1. /\ p \in Prep /\ q \in Prep /\ Steady(p, q) /\ Others(w) /\ capture' = capture
      /\ p.pc = "database" /\ run' = run
  <2>1. PrepareStep(w) /\ p.pc = "database" /\ run' = run
    BY DEF PrepareStep, CreateDatabase, At, Alone
  <2> QED
    BY <2>1, PreparerStep
<1>2. /\ world'.schema = world.schema /\ world'.results = world.results
      /\ \/ world'.database = world.database
         \/ world.database = None /\ world'.database = w
      /\ q.made \in {p.made, p.made \cup {"database"}}
      /\ q.made = p.made \/ world'.database = w
  <2> DEFINE created == [world EXCEPT !["database"] = w]
             made == [Go(w, "runDir") EXCEPT !.made = @ \cup {"database"}]
  <2>1. /\ world' \in {world, created} /\ (world' = world \/ world["database"] = None)
        /\ q = Lost(w, "stop") \/ (q = made /\ world' = created)
    <3>1. Create(w, "database", "runDir") /\ \A r : Into(w, r) => q = r
      BY DEF CreateDatabase, Into, TypeOK
    <3> QED
      BY <3>1 DEF Create
  <2>2. /\ created.database = w /\ created.schema = world.schema
        /\ created.results = world.results
    BY DEF TypeOK, World
  <2>3. made.made = p.made \cup {"database"} /\ Lost(w, "stop").made = p.made
    BY <1>1 DEF Go, Lost, Prep
  <2> HIDE DEF created, made, q
  <2> QED
    BY <1>1, <2>1, <2>2, <2>3
<1>3. None \notin Preparer
  BY OwnerFacts
<1>4. /\ \A v \in Preparer \ {w} : prep'[v] = prep[v]
      /\ q.asked = p.asked /\ q.entries = p.entries /\ p.pc # "absent" /\ q.pc # "absent"
      /\ q.pc # "retrieving" /\ (q.api => p.api)
  BY <1>1 DEF Others, Steady
<1> HIDE DEF p, q
<1>5. SchemaInv'
  <2> SUFFICES ASSUME NEW v \in Preparer, "schema" \in prep'[v].made,
                      prep'[v].api \/ prep'[v].pc \notin AfterSchema
               PROVE  world'.schema = v
    BY DEF SchemaInv
  <2>1. CASE v = w
    BY <1>1, <1>2, <2>1 DEF p, q, Claims, SchemaInv, AfterSchema
  <2>2. CASE v # w
    BY <1>2, <1>4, <2>2 DEF Claims, SchemaInv
  <2> QED
    BY <2>1, <2>2
<1>6. DirectoryInv'
  <2>1. \A v \in Preparer : "runDir" \in prep'[v].made => "runDir" \in prep[v].made
    BY <1>2, <1>4 DEF p, q
  <2> QED
    BY <1>2, <2>1 DEF Claims, DirectoryInv
<1>7. RetrievalInv'
  BY <1>1, <1>2, <1>4 DEF Claims, RetrievalInv, p, q
<1>8. DatabaseInv'
  <2> SUFFICES ASSUME \A v \in Preparer :
                         prep'[v].asked => prep'[v].pc = "retrieving" /\ run.pc \in PreChroma,
                      NEW v \in Preparer,
                      "database" \in prep'[v].made, prep'[v].pc \notin AfterDatabase
               PROVE  world'.database = v
    BY <1>1 DEF DatabaseInv
  <2>1. \A u \in Preparer :
           prep[u].asked => prep[u].pc = "retrieving" /\ run.pc \in PreChroma
    BY <1>4 DEF p, q
  <2>2. CASE v = w
    BY <1>1, <1>2, <2>1, <2>2 DEF p, q, Claims, DatabaseInv, AfterDatabase, AfterSchema
  <2>3. CASE v # w
    BY <1>2, <1>3, <1>4, <2>1, <2>3 DEF Claims, DatabaseInv
  <2> QED
    BY <2>2, <2>3
<1> QED
  BY <1>5, <1>6, <1>7, <1>8 DEF Claims

\* The directory of the results is made once and never goes away.
LEMMA CreateRunDirectoryClaims ==
    ASSUME TypeOK, NEW w \in Preparer, Shapes, Claims, CreateRunDirectory(w)
    PROVE  Claims'
<1> DEFINE p == prep[w]
           q == prep'[w]
<1>1. /\ p \in Prep /\ q \in Prep /\ Steady(p, q) /\ Others(w) /\ capture' = capture
      /\ p.pc = "runDir" /\ run' = run
  <2>1. PrepareStep(w) /\ p.pc = "runDir" /\ run' = run
    BY DEF PrepareStep, CreateRunDirectory, At, Alone
  <2> QED
    BY <2>1, PreparerStep
<1>2. /\ world'.schema = world.schema /\ world'.database = world.database
      /\ world.results => world'.results
      /\ \/ q.made = p.made
         \/ q.made = p.made \cup {"runDir"} /\ ~world.results /\ world'.results
  <2> DEFINE half == [world EXCEPT !.runDir = w]
             full == [half EXCEPT !.results = TRUE]
             made == [Go(w, "configure") EXCEPT !.made = @ \cup {"runDir"}]
  <2>1. \/ world' \in {world, half} /\ q = Lost(w, "stop")
        \/ world' = full /\ q = made /\ ~world.results
    <3>1. \A r : Into(w, r) => q = r
      BY DEF Into, TypeOK
    <3> QED
      BY <3>1 DEF CreateRunDirectory
  <2>2. /\ half.schema = world.schema /\ half.database = world.database
        /\ half.results = world.results /\ full.results
        /\ full.schema = world.schema /\ full.database = world.database
    BY DEF TypeOK, World
  <2>3. made.made = p.made \cup {"runDir"} /\ Lost(w, "stop").made = p.made
    BY <1>1 DEF Go, Lost, Prep
  <2> HIDE DEF half, full, made, q
  <2> QED
    BY <1>1, <2>1, <2>2, <2>3
<1>4. /\ \A v \in Preparer \ {w} : prep'[v] = prep[v]
      /\ q.asked = p.asked /\ q.entries = p.entries /\ p.pc # "absent" /\ q.pc # "absent"
      /\ q.pc # "retrieving" /\ (q.api => p.api)
  BY <1>1 DEF Others, Steady
<1> HIDE DEF p, q
<1>5. SchemaInv'
  <2> SUFFICES ASSUME NEW v \in Preparer, "schema" \in prep'[v].made,
                      prep'[v].api \/ prep'[v].pc \notin AfterSchema
               PROVE  world'.schema = v
    BY DEF SchemaInv
  <2>1. CASE v = w
    BY <1>1, <1>2, <2>1 DEF p, q, Claims, SchemaInv, AfterSchema
  <2>2. CASE v # w
    BY <1>2, <1>4, <2>2 DEF Claims, SchemaInv
  <2> QED
    BY <2>1, <2>2
<1>6. DirectoryInv'
  <2>1. \A v \in Preparer \ {w} : "runDir" \in prep'[v].made => "runDir" \in prep[v].made
    BY <1>4
  <2> QED
    BY <1>2, <2>1 DEF Claims, DirectoryInv, p, q
<1>7. RetrievalInv'
  BY <1>1, <1>2, <1>4 DEF Claims, RetrievalInv, p, q
<1>8. DatabaseInv'
  <2> SUFFICES ASSUME \A v \in Preparer :
                         prep'[v].asked => prep'[v].pc = "retrieving" /\ run.pc \in PreChroma,
                      NEW v \in Preparer,
                      "database" \in prep'[v].made, prep'[v].pc \notin AfterDatabase
               PROVE  world'.database = v
    BY <1>1 DEF DatabaseInv
  <2>1. \A u \in Preparer :
           prep[u].asked => prep[u].pc = "retrieving" /\ run.pc \in PreChroma
    BY <1>4 DEF p, q
  <2>2. CASE v = w
    BY <1>1, <1>2, <2>1, <2>2 DEF p, q, Claims, DatabaseInv, AfterDatabase, AfterSchema
  <2>3. CASE v # w
    BY <1>2, <1>4, <2>1, <2>3 DEF Claims, DatabaseInv
  <2> QED
    BY <2>2, <2>3
<1> QED
  BY <1>5, <1>6, <1>7, <1>8 DEF Claims

\* Nobody has had a retrieval before who now has the directory of the results.
LEMMA RunRetrievalClaims ==
    ASSUME TypeOK, NEW w \in Preparer, Shapes, Claims, RunRetrieval(w)
    PROVE  Claims'
<1> DEFINE p == prep[w]
           q == prep'[w]
<1>1. /\ p \in Prep /\ q \in Prep /\ Steady(p, q) /\ Others(w) /\ capture' = capture
      /\ p.pc = "retrieve" /\ run' = NewRun("retrieval", "aggregate") /\ world' = world
  <2>1. /\ PrepareStep(w) /\ p.pc = "retrieve" /\ world' = world
        /\ run' = NewRun("retrieval", "aggregate")
    BY DEF PrepareStep, RunRetrieval, At
  <2> QED
    BY <2>1, PreparerStep
<1>2. q.asked /\ q.pc = "retrieving"
  <2>1. q = [Go(w, "retrieving") EXCEPT !.asked = TRUE]
    BY DEF RunRetrieval, Into, TypeOK
  <2> QED
    BY <1>1, <2>1 DEF Go, Prep
<1>3. /\ run'.pc = "start" /\ run'.kind = "retrieval"
  BY <1>1 DEF NewRun
<1>4. \A v \in Preparer : ~prep[v].asked
  BY <1>1 DEF Shapes, PrepShape, Shaped, Claims, DirectoryInv, Starting, HoldsSchema,
              HoldsDatabase, HoldsDirectory
<1>5. /\ \A v \in Preparer \ {w} : prep'[v] = prep[v]
      /\ q.made = p.made /\ q.entries = p.entries /\ (q.api => p.api)
      /\ p.pc \notin AfterSchema
  BY <1>1 DEF Others, Steady, AfterSchema
<1> HIDE DEF p, q
<1>6. SchemaInv'
  BY <1>1, <1>5 DEF Claims, SchemaInv, p, q
<1>7. DirectoryInv'
  <2>1. \A v \in Preparer : prep'[v].made = prep[v].made
    BY <1>5 DEF p, q
  <2> QED
    BY <1>1, <2>1 DEF Claims, DirectoryInv
<1>8. RetrievalInv'
  <2> SUFFICES ASSUME NEW v \in Preparer
               PROVE  /\ run'.kind = "retrieval" /\ capture' = "none"
                      /\ prep'[w].pc = "retrieving" /\ prep'[w].asked
                      /\ prep'[v].asked => prep'[v].pc = "retrieving"
                      /\ ~prep'[v].entries
    BY <1>3 DEF RetrievalInv
  <2>1. capture = "none"
    BY <1>1 DEF Claims, RetrievalInv, p
  <2>2. ~prep[v].entries
    BY <1>4 DEF Shapes, PrepShape, Shaped
  <2>3. ~prep'[v].entries
    BY <1>5, <2>2 DEF p, q
  <2> QED
    BY <1>1, <1>2, <1>3, <1>4, <1>5, <2>1, <2>3 DEF q
<1>9. DatabaseInv'
  <2> SUFFICES ASSUME NEW v \in Preparer,
                      "database" \in prep'[v].made, prep'[v].pc \notin AfterDatabase
               PROVE  world'.database = v
    BY DEF DatabaseInv
  <2>1. "database" \in prep[v].made /\ prep[v].pc \notin AfterDatabase
    BY <1>1, <1>5 DEF p, q, AfterDatabase, AfterSchema
  <2> QED
    BY <1>1, <1>4, <2>1 DEF Claims, DatabaseInv
<1> QED
  BY <1>6, <1>7, <1>8, <1>9 DEF Claims

LEMMA BuildDatasetClaims ==
    ASSUME TypeOK, RunShape, NEW w \in Preparer, Shapes, Claims, BuildDataset(w)
    PROVE  Claims'
<1> DEFINE p == prep[w]
           q == prep'[w]
<1>1. /\ p \in Prep /\ q \in Prep /\ Steady(p, q) /\ Others(w) /\ capture' = capture
      /\ p.pc = "retrieving" /\ run' = run /\ world' = world
      /\ run.pc \in Ended
  <2>1. /\ PrepareStep(w) /\ p.pc = "retrieving" /\ world' = world
        /\ run' = run /\ run.pc \in Ended
    BY DEF PrepareStep, BuildDataset, At, Reading, Alone, Ended
  <2> QED
    BY <2>1, PreparerStep
<1>2. q.entries => run.pc = "over" /\ ~run.primary /\ run.failed = {}
  <2>1. run.pc = "refused" => run.primary
    BY DEF RunShape
  <2>2. CASE run.primary \/ run.failed # {}
    <3>1. q = Lost(w, "stop")
      BY <2>2 DEF BuildDataset, Into, TypeOK
    <3>2. ~p.entries
      BY <1>1 DEF Shapes, PrepShape, Shaped, Starting, HoldsSchema
    <3> QED
      BY <1>1, <3>1, <3>2 DEF Lost, Prep
  <2> QED
    BY <1>1, <2>1, <2>2 DEF Ended
<1>3. /\ q.asked /\ p.asked /\ q.pc # "retrieving"
  BY <1>1 DEF Steady, Shapes, PrepShape, Shaped
<1>4. /\ \A v \in Preparer \ {w} : prep'[v] = prep[v]
      /\ q.made = p.made /\ (q.api => p.api) /\ p.pc \notin AfterSchema
  BY <1>1 DEF Others, Steady, AfterSchema
<1> HIDE DEF p, q
<1>5. SchemaInv'
  BY <1>1, <1>4 DEF Claims, SchemaInv, p, q
<1>6. DirectoryInv'
  <2>1. \A v \in Preparer : prep'[v].made = prep[v].made
    BY <1>4 DEF p, q
  <2> QED
    BY <1>1, <2>1 DEF Claims, DirectoryInv
<1>7. RetrievalInv'
  <2>1. run.kind = "retrieval" /\ capture = "none"
    BY <1>1 DEF Claims, RetrievalInv, p
  <2> SUFFICES ASSUME NEW v \in Preparer
               PROVE  /\ run.pc # "idle" => prep'[w].asked
                      /\ prep'[v].asked => run.pc # "idle"
                      /\ prep'[v].entries => run.pc = "over" /\ ~run.primary /\ run.failed = {}
    BY <1>1, <2>1 DEF RetrievalInv, Ended
  <2> QED
    BY <1>1, <1>2, <1>3, <1>4 DEF Claims, RetrievalInv, p, q, Ended
<1>8. DatabaseInv'
  BY <1>3 DEF DatabaseInv, q
<1> QED
  BY <1>5, <1>6, <1>7, <1>8 DEF Claims

\* Only its creator may drop the schema, and then its API is gone.
LEMMA DropSchemaOnlyOwn ==
    ASSUME TypeOK, NEW w \in Preparer, Shapes, Claims, DropSchema(w)
    PROVE  /\ world'.database = world.database /\ world'.results = world.results
           /\ \/ world'.schema = world.schema
              \/ world.schema = w /\ world'.schema = None
<1> DEFINE dropped == [world EXCEPT !.schema = None, !.user = FALSE, !.login = FALSE,
                                    !.bases = {}, !.projects = {}, !.documents = {}]
<1>1. \/ world' = world
      \/ MayDropSchema(w) /\ world' \in {world, dropped}
  BY DEF DropSchema, Drop
<1>2. /\ dropped.schema = None /\ dropped.database = world.database
      /\ dropped.results = world.results
  BY DEF TypeOK, World
<1>3. MayDropSchema(w) => world.schema = w
  BY DEF MayDropSchema, DropSchema, At, Claims, SchemaInv, AfterSchema
<1> HIDE DEF dropped
<1> QED
  BY <1>1, <1>2, <1>3

LEMMA DropSchemaClaims ==
    ASSUME TypeOK, NEW w \in Preparer, Shapes, Claims, DropSchema(w)
    PROVE  Claims'
<1> DEFINE p == prep[w]
           q == prep'[w]
<1>1. /\ p \in Prep /\ q \in Prep /\ Steady(p, q) /\ Others(w) /\ capture' = capture
      /\ p.pc = "dropSchema" /\ run' = run
  <2>1. TeardownStep(w) /\ p.pc = "dropSchema" /\ run' = run
    BY DEF TeardownStep, DropSchema, At, Alone
  <2> QED
    BY <2>1, PreparerStep
<1>2. /\ world'.database = world.database /\ world'.results = world.results
      /\ \/ world'.schema = world.schema
         \/ world.schema = w /\ world'.schema = None
  BY DropSchemaOnlyOwn
<1>3. /\ \A v \in Preparer \ {w} : prep'[v] = prep[v]
      /\ q.made = p.made /\ q.asked = p.asked /\ q.entries = p.entries
      /\ p.pc # "absent" /\ q.pc # "absent" /\ q.pc # "retrieving"
      /\ p.pc \notin AfterSchema /\ (q.api => p.api)
  BY <1>1 DEF Others, Steady, AfterSchema
<1>4. "schema" \in p.made /\ world'.schema # world.schema => ~q.api /\ q.pc \in AfterSchema
  <2>1. q.pc = "dropDatabase"
    <3>1. q \in {Go(w, "dropDatabase"), Bad(w, "dropDatabase")}
      BY DEF DropSchema, Drop, Into, TypeOK
    <3> QED
      BY <1>1, <3>1 DEF Go, Bad, Prep
  <2>2. world'.schema # world.schema => MayDropSchema(w)
    BY DEF DropSchema, Drop
  <2>3. MayDropSchema(w) => ~p.api
    BY DEF MayDropSchema, Shapes, PrepShape, Shaped
  <2> QED
    BY <1>3, <2>1, <2>2, <2>3 DEF AfterSchema
<1> HIDE DEF p, q
<1>5. SchemaInv'
  <2> SUFFICES ASSUME NEW v \in Preparer, "schema" \in prep'[v].made,
                      prep'[v].api \/ prep'[v].pc \notin AfterSchema
               PROVE  world'.schema = v
    BY DEF SchemaInv
  <2>1. CASE v = w
    BY <1>2, <1>3, <1>4, <2>1 DEF p, q, Claims, SchemaInv
  <2>2. CASE v # w
    BY <1>2, <1>3, <2>2 DEF Claims, SchemaInv
  <2> QED
    BY <2>1, <2>2
<1>6. DirectoryInv'
  <2>1. \A v \in Preparer : prep'[v].made = prep[v].made
    BY <1>3 DEF p, q
  <2> QED
    BY <1>2, <2>1 DEF Claims, DirectoryInv
<1>7. RetrievalInv'
  BY <1>1, <1>2, <1>3 DEF Claims, RetrievalInv, p, q
<1>8. DatabaseInv'
  <2> SUFFICES ASSUME \A v \in Preparer :
                         prep'[v].asked => prep'[v].pc = "retrieving" /\ run.pc \in PreChroma,
                      NEW v \in Preparer,
                      "database" \in prep'[v].made, prep'[v].pc \notin AfterDatabase
               PROVE  world'.database = v
    BY <1>1 DEF DatabaseInv
  <2>1. \A u \in Preparer :
           prep[u].asked => prep[u].pc = "retrieving" /\ run.pc \in PreChroma
    BY <1>3 DEF p, q
  <2>2. "database" \in prep[v].made /\ prep[v].pc \notin AfterDatabase
    BY <1>1, <1>3 DEF p, q, AfterDatabase, AfterSchema
  <2> QED
    BY <1>2, <2>1, <2>2 DEF Claims, DatabaseInv
<1> QED
  BY <1>5, <1>6, <1>7, <1>8 DEF Claims

LEMMA DropDatabaseClaims ==
    ASSUME TypeOK, NEW w \in Preparer, Shapes, Claims, DropDatabase(w)
    PROVE  Claims'
<1> DEFINE p == prep[w]
           q == prep'[w]
           dropped == [world EXCEPT !.database = None, !.vectors = {}]
<1>1. /\ p \in Prep /\ q \in Prep /\ Steady(p, q) /\ Others(w) /\ capture' = capture
      /\ p.pc = "dropDatabase" /\ run' = run
  <2>1. TeardownStep(w) /\ p.pc = "dropDatabase" /\ run' = run
    BY DEF TeardownStep, DropDatabase, At, Alone
  <2> QED
    BY <2>1, PreparerStep
<1>2. /\ world'.schema = world.schema /\ world'.results = world.results
      /\ \/ world'.database = world.database
         \/ "database" \in p.made
  <2>1. world' = world \/ ("database" \in p.made /\ world' \in {world, dropped})
    BY DEF DropDatabase, Drop
  <2>2. dropped.schema = world.schema /\ dropped.results = world.results
    BY DEF TypeOK, World
  <2> HIDE DEF dropped
  <2> QED
    BY <2>1, <2>2
<1>3. /\ \A v \in Preparer \ {w} : prep'[v] = prep[v]
      /\ q.made = p.made /\ q.asked = p.asked /\ q.entries = p.entries
      /\ p.pc # "absent" /\ q.pc # "absent" /\ q.pc # "retrieving"
      /\ p.pc \in AfterSchema /\ q.pc \in AfterDatabase /\ q.pc \in AfterSchema /\ (q.api => p.api)
  <2>1. q.pc = "dropRunDir"
    BY <1>1 DEF DropDatabase, Drop, Into, Go, Bad, TypeOK, Prep
  <2> QED
    BY <1>1, <2>1 DEF Others, Steady, AfterSchema, AfterDatabase
<1> HIDE DEF p, q
<1>5. SchemaInv'
  BY <1>2, <1>3 DEF Claims, SchemaInv, p, q
<1>6. DirectoryInv'
  <2>1. \A v \in Preparer : prep'[v].made = prep[v].made
    BY <1>3 DEF p, q
  <2> QED
    BY <1>2, <2>1 DEF Claims, DirectoryInv
<1>7. RetrievalInv'
  BY <1>1, <1>2, <1>3 DEF Claims, RetrievalInv, p, q
<1>8. DatabaseInv'
  <2> SUFFICES ASSUME \A v \in Preparer :
                         prep'[v].asked => prep'[v].pc = "retrieving" /\ run.pc \in PreChroma,
                      NEW v \in Preparer,
                      "database" \in prep'[v].made, prep'[v].pc \notin AfterDatabase
               PROVE  world'.database = v
    BY <1>1 DEF DatabaseInv
  <2>1. \A u \in Preparer :
           prep[u].asked => prep[u].pc = "retrieving" /\ run.pc \in PreChroma
    BY <1>1, <1>3 DEF p, q
  <2>2. v # w
    BY <1>3 DEF q
  <2>3. world.database = v
    BY <1>3, <2>1, <2>2 DEF Claims, DatabaseInv
  <2>4. "database" \in p.made => world.database = w
    BY <1>1, <2>1 DEF Claims, DatabaseInv, p, AfterDatabase
  <2> QED
    BY <1>2, <2>2, <2>3, <2>4
<1> QED
  BY <1>5, <1>6, <1>7, <1>8 DEF Claims

LEMMA PreparerClaims ==
    ASSUME TypeOK, RunShape, NEW w \in Preparer, Shapes, Claims,
           PrepareStep(w) \/ TeardownStep(w)
    PROVE  Claims'
<1>1. CASE CreateSchema(w) \/ CreateDatabase(w) \/ CreateRunDirectory(w)
  BY <1>1, CreateSchemaClaims, CreateDatabaseClaims, CreateRunDirectoryClaims
<1>2. CASE RunRetrieval(w) \/ BuildDataset(w)
  BY <1>2, RunRetrievalClaims, BuildDatasetClaims
<1>3. CASE DropSchema(w) \/ DropDatabase(w)
  BY <1>3, DropSchemaClaims, DropDatabaseClaims
<1>4. CASE \/ BeginPreparation(w) \/ InspectTargets(w) \/ VerifySearchPath(w)
           \/ ConfigureRuntime(w) \/ StartApi(w) \/ WaitApiReady(w)
           \/ StopApi(w) \/ ShutdownLogging(w) \/ CleanupRetrieval(w) \/ DisposeRuntime(w)
           \/ DropRunDirectory(w) \/ DropLogs(w) \/ VerifyCleanup(w) \/ WriteArtifacts(w)
  BY <1>4, MildSteps, MildClaims DEF TypeOK
<1> QED
  BY <1>1, <1>2, <1>3, <1>4 DEF PrepareStep, TeardownStep

\* A preparer puts its own name on a container or takes a name away, never
\* somebody else's on it.
LEMMA NamesOnly ==
    ASSUME TypeOK, NEW w \in Preparer, PrepareStep(w) \/ TeardownStep(w)
    PROVE  /\ world'.schema \in {world.schema, w, None}
           /\ world'.database \in {world.database, w, None}
           /\ world'.runDir \in {world.runDir, w, None}
           /\ world'.logDir \in {world.logDir, w, None}
<1> USE DEF TypeOK, World
<1>1. CASE world' = world
  BY <1>1
<1>2. CASE CreateSchema(w)
  <2>1. world' \in {world, [world EXCEPT !["schema"] = w]}
    BY <1>2 DEF CreateSchema, Create
  <2> QED
    BY <2>1
<1>3. CASE CreateDatabase(w)
  <2>1. world' \in {world, [world EXCEPT !["database"] = w]}
    BY <1>3 DEF CreateDatabase, Create
  <2> QED
    BY <2>1
<1>4. CASE CreateRunDirectory(w)
  <2> DEFINE half == [world EXCEPT !.runDir = w]
             full == [half EXCEPT !.results = TRUE]
  <2>1. world' \in {world, half, full}
    BY <1>4 DEF CreateRunDirectory
  <2> QED
    BY <2>1
<1>5. CASE ConfigureRuntime(w)
  <2>1. world' \in {world, [world EXCEPT !.logDir = w]}
    BY <1>5 DEF ConfigureRuntime
  <2> QED
    BY <2>1
<1>6. CASE DropSchema(w)
  <2>1. world' \in {world, [world EXCEPT !.schema = None, !.user = FALSE, !.login = FALSE,
                                         !.bases = {}, !.projects = {}, !.documents = {}]}
    BY <1>6 DEF DropSchema, Drop
  <2> QED
    BY <2>1
<1>7. CASE DropDatabase(w)
  <2>1. world' \in {world, [world EXCEPT !.database = None, !.vectors = {}]}
    BY <1>7 DEF DropDatabase, Drop
  <2> QED
    BY <2>1
<1>8. CASE DropRunDirectory(w)
  <2>1. world' \in {world, [world EXCEPT !.runDir = None, !.local = FALSE,
                                         !.uploads = {}, !.threads = {}]}
    BY <1>8 DEF DropRunDirectory, Drop
  <2> QED
    BY <2>1
<1>9. CASE DropLogs(w)
  <2>1. world' \in {world, [world EXCEPT !.logDir = None]}
    BY <1>9 DEF DropLogs, Drop
  <2> QED
    BY <2>1
<1>10. CASE WriteArtifacts(w)
  <2>1. world' \in {world, [world EXCEPT !.results = TRUE]}
    BY <1>10 DEF WriteArtifacts
  <2> QED
    BY <2>1
<1> QED
  BY <1>1, <1>2, <1>3, <1>4, <1>5, <1>6, <1>7, <1>8, <1>9, <1>10
     DEF PrepareStep, BeginPreparation, InspectTargets, VerifySearchPath, StartApi, WaitApiReady,
         RunRetrieval, BuildDataset, TeardownStep, StopApi, ShutdownLogging,
         CleanupRetrieval, DisposeRuntime, VerifyCleanup, Reading

\* Whoever is verified has seen its names gone, and nobody else puts them back.
LEMMA PreparerGone ==
    ASSUME TypeOK, NEW w \in Preparer, Shapes, GoneInv, PrepareStep(w) \/ TeardownStep(w)
    PROVE  GoneInv'
<1> DEFINE p == prep[w]
           q == prep'[w]
<1>1. /\ p \in Prep /\ q \in Prep /\ Steady(p, q) /\ Others(w) /\ Shapes'
  BY PreparerStep
<1>2. None \notin Preparer
  BY OwnerFacts
<1> SUFFICES ASSUME NEW v \in Preparer, prep'[v].verified
             PROVE  /\ ~prep'[v].api /\ world'.logDir # v
                    /\ world'.schema # v /\ world'.database # v /\ world'.runDir # v
  BY DEF GoneInv, Container
<1>3. CASE v # w
  <2>1. prep'[v] = prep[v]
    BY <1>1, <1>3 DEF Others
  <2>2. /\ ~prep[v].api /\ world.logDir # v
        /\ world.schema # v /\ world.database # v /\ world.runDir # v
    BY <2>1 DEF GoneInv, Container
  <2> QED
    BY <1>2, <1>3, <2>1, <2>2, NamesOnly
<1>4. CASE v = w /\ p.pc = "verify"
  <2>1. VerifyCleanup(w)
    BY <1>4 DEF PrepareStep, BeginPreparation, InspectTargets, CreateSchema, VerifySearchPath,
         CreateDatabase, Create, CreateRunDirectory, ConfigureRuntime, StartApi, WaitApiReady,
         RunRetrieval, BuildDataset, TeardownStep, StopApi, ShutdownLogging,
         CleanupRetrieval, DisposeRuntime, DropSchema, DropDatabase, DropRunDirectory,
         DropLogs, VerifyCleanup, WriteArtifacts, At
  <2>2. ~p.verified
    BY <1>4 DEF Shapes, PrepShape, Shaped
  <2>3. Gone(w) /\ p.ok
    <3> DEFINE verified == Gone(w) /\ p.ok
    <3>1. verified \in BOOLEAN /\ Go(w, "artifacts").ok = p.ok
      BY <1>1 DEF Go, Prep
    <3>2. \/ q = [Go(w, "artifacts") EXCEPT !.verified = verified, !.ok = verified]
          \/ q = Bad(w, "artifacts")
      BY <2>1, <3>1 DEF VerifyCleanup, Into, TypeOK
    <3>3. verified => Gone(w) /\ p.ok
      OBVIOUS
    <3> HIDE DEF verified
    <3>4. q.verified => verified
      BY <1>1, <2>2, <3>1, <3>2 DEF Go, Bad, Prep
    <3> QED
      BY <1>4, <3>3, <3>4
  <2>4. ~p.api
    BY <1>4, <2>3 DEF Shapes, PrepShape, Shaped, Starting, HoldsSchema
  <2>5. ~q.api /\ world' = world
    BY <1>1, <1>4, <2>1, <2>4 DEF Steady, VerifyCleanup, Reading
  <2> QED
    BY <1>2, <1>4, <2>3, <2>5 DEF Gone
<1>5. CASE v = w /\ p.pc # "verify"
  <2>1. p.verified
    BY <1>1, <1>5 DEF Steady
  <2>2. p.pc \in {"artifacts", "over"}
    BY <2>1 DEF Shapes, PrepShape, Shaped
  <2>3. WriteArtifacts(w)
    BY <2>2 DEF PrepareStep, BeginPreparation, InspectTargets, CreateSchema, VerifySearchPath,
         CreateDatabase, Create, CreateRunDirectory, ConfigureRuntime, StartApi, WaitApiReady,
         RunRetrieval, BuildDataset, TeardownStep, StopApi, ShutdownLogging,
         CleanupRetrieval, DisposeRuntime, DropSchema, DropDatabase, DropRunDirectory,
         DropLogs, VerifyCleanup, WriteArtifacts, At
  <2>4. world' \in {world, [world EXCEPT !.results = TRUE]}
    BY <2>3 DEF WriteArtifacts
  <2>5. /\ world'.logDir = world.logDir /\ world'.schema = world.schema
        /\ world'.database = world.database /\ world'.runDir = world.runDir
    BY <2>4 DEF TypeOK, World
  <2>6. ~q.api
    BY <1>1, <2>1, <2>2 DEF Steady, GoneInv
  <2> QED
    BY <1>5, <2>1, <2>5, <2>6 DEF GoneInv, Container
<1> QED
  BY <1>3, <1>4, <1>5

LEMMA RunGone ==
    ASSUME Contained, prep' = prep, GoneInv
    PROVE  GoneInv'
<1>1. None \notin Preparer
  BY OwnerFacts
<1> SUFFICES ASSUME NEW v \in Preparer, prep[v].verified
             PROVE  /\ ~prep[v].api /\ world'.logDir # v
                    /\ world'.schema # v /\ world'.database # v /\ world'.runDir # v
  BY DEF GoneInv, Container
<1>2. /\ ~prep[v].api /\ world.logDir # v
      /\ world.schema # v /\ world.database # v /\ world.runDir # v
  BY DEF GoneInv, Container
<1> QED
  BY <1>1, <1>2 DEF Contained

LEMMA PrepInit == Init => PrepInv
<1> SUFFICES ASSUME Init PROVE PrepInv
  OBVIOUS
<1>1. \/ prep = [w \in Preparer |-> NewPrep("absent")]
      \/ /\ prep = [w \in Preparer |-> NewPrep("idle")] /\ capture = "none"
         /\ run = [NewRun("retrieval", "aggregate") EXCEPT !.pc = "idle"]
  BY DEF Init
<1>2. \A w \in Preparer :
         /\ prep[w].pc \in {"absent", "idle"} /\ prep[w].made = {} /\ ~prep[w].api
         /\ ~prep[w].asked /\ ~prep[w].stopped /\ ~prep[w].verified /\ ~prep[w].entries
         /\ prep[w].pc = "idle" =>
               run.pc = "idle" /\ run.kind = "retrieval" /\ capture = "none"
  BY <1>1 DEF NewPrep, NewRun
<1>3. \A w \in Preparer : PrepShape(w)
  BY <1>2 DEF PrepShape, Shaped, HoldsSchema, HoldsDatabase, HoldsDirectory, Starting
<1> QED
  BY <1>2, <1>3 DEF PrepInv, SchemaInv, DirectoryInv, RetrievalInv, DatabaseInv, GoneInv, Ended

LEMMA PrepNext == TypeOK /\ Covered /\ RunShape /\ PrepInv /\ [Next]_tools => PrepInv'
<1> SUFFICES ASSUME TypeOK, Covered, RunShape, PrepInv, [Next]_tools PROVE PrepInv'
  OBVIOUS
<1>0. PrepInv <=> Shapes /\ Claims /\ GoneInv
  BY DEF PrepInv, Shapes, Claims
<1>1. CASE UNCHANGED tools
  BY <1>1 DEF tools, PrepInv, PrepShape, Shaped, SchemaInv, DirectoryInv, RetrievalInv,
              DatabaseInv, GoneInv
<1>2. CASE /\ SeedStep \/ CleanupStep \/ SampleStep
           /\ prep' = prep
  <2>1. Contained
    BY <1>2, SeedContained, CleanupContained, SampleContained DEF TypeOK, RunTypes
  <2>2. Shapes'
    BY <1>0, <1>2 DEF Shapes, PrepShape
  <2> QED
    BY <1>0, <1>2, <2>1, <2>2, RunClaims, RunGone DEF PrepInv, Shapes, Claims
<1>3. ASSUME NEW w \in Preparer, PrepareStep(w) \/ TeardownStep(w)
      PROVE  PrepInv'
  BY <1>0, <1>3, PreparerStep, PreparerClaims, PreparerGone DEF PrepInv, Shapes, Claims
<1> QED
  BY <1>1, <1>2, <1>3 DEF Next

\* What a preparation and its retrieval have in common, step after step.
Prepared == Based /\ PrepInv

LEMMA PreparedInit == Init => Prepared
BY TypeInit, CoveredInit, ShapeInit, PrepInit DEF Based, Prepared

LEMMA PreparedNext == Prepared /\ [Next]_tools => Prepared'
<1>1. Prepared /\ [Next]_tools => Based'
  BY BasedNext DEF Prepared
<1>2. Prepared /\ [Next]_tools => PrepInv'
  BY PrepNext DEF Prepared, Based
<1> QED
  BY <1>1, <1>2 DEF Prepared

\* With any number of preparers under one run id, in any order of their steps
\* and whatever fails: an API that has been started, and not yet stopped, has
\* the schema under it that its own preparation has created.
THEOREM SchemaOutlives == Spec => []SchemaOutlivesApi
<1>1. Prepared => SchemaOutlivesApi
  BY DEF Prepared, PrepInv, PrepShape, Shaped, SchemaInv, SchemaOutlivesApi
<1> QED
  BY <1>1, PreparedInit, PreparedNext, PTL DEF Spec

\* A cleanup that the summary calls verified has left nothing of its own, even
\* when another preparer under the same run id goes on creating; and a dataset
\* that is returned comes from a retrieval that has run and cleaned up.
THEOREM VerifiedIsGone == Spec => []VerifiedMeansGone
<1>1. Prepared => VerifiedMeansGone
  <2> SUFFICES ASSUME Prepared, NEW w \in Preparer
               PROVE  /\ prep[w].verified =>
                            /\ ~prep[w].api /\ world.logDir # w
                            /\ \A c \in Container : world[c] # w
                      /\ Returns(w) =>
                            /\ prep[w].verified /\ run.pc = "over" /\ ~run.primary
                            /\ run.failed = {}
    BY DEF VerifiedMeansGone
  <2>1. Returns(w) => prep[w].verified
    BY DEF Returns, At, Prepared, PrepInv, PrepShape, Shaped
  <2>2. Returns(w) => run.pc = "over" /\ ~run.primary /\ run.failed = {}
    BY DEF Returns, Prepared, PrepInv, RetrievalInv
  <2> QED
    BY <2>1, <2>2 DEF Prepared, PrepInv, GoneInv
<1> QED
  BY <1>1, PreparedInit, PreparedNext, PTL DEF Spec

LEMMA SchemaChanges ==
    ASSUME TypeOK, Shapes, NEW w \in Preparer, PrepareStep(w) \/ TeardownStep(w),
           world'.schema # world.schema
    PROVE  DropSchema(w) \/ (CreateSchema(w) /\ world.schema = None)
<1> USE DEF TypeOK, World
<1>1. ~(RunRetrieval(w) \/ BuildDataset(w))
  BY DEF RunRetrieval, BuildDataset, Reading
<1>2. ~CreateDatabase(w)
  <2>1. CreateDatabase(w) => world' \in {world, [world EXCEPT !["database"] = w]}
    BY DEF CreateDatabase, Create
  <2> QED
    BY <2>1
<1>3. ~CreateRunDirectory(w)
  <2> DEFINE half == [world EXCEPT !.runDir = w]
             full == [half EXCEPT !.results = TRUE]
  <2>1. CreateRunDirectory(w) => world' \in {world, half, full}
    BY DEF CreateRunDirectory
  <2> QED
    BY <2>1
<1>4. ~DropDatabase(w)
  <2>1. DropDatabase(w) => world' \in {world, [world EXCEPT !.database = None, !.vectors = {}]}
    BY DEF DropDatabase, Drop
  <2> QED
    BY <2>1
<1>5. CreateSchema(w) => world.schema = None
  <2>1. CreateSchema(w) => world["schema"] = None \/ world' = world
    BY DEF CreateSchema, Create
  <2> QED
    BY <2>1
<1>6. ~Mild(w)
  BY DEF Mild
<1> QED
  BY <1>1, <1>2, <1>3, <1>4, <1>5, <1>6, MildSteps DEF PrepareStep, TeardownStep

\* Nobody but the preparer that has created the schema takes it away, although
\* all of them know it by the same name: it needs to remember the creation.
THEOREM SchemaIsOwn == Spec => OwnSchemaOnly
<1> DEFINE Own == \A w \in Preparer :
                     world.schema = w /\ world'.schema # w => prep'[w] # prep[w]
<1>1. Prepared /\ [Next]_tools => [Own]_tools
  <2> SUFFICES ASSUME Prepared, Next, NEW w \in Preparer,
                      world.schema = w, world'.schema # w
               PROVE  prep'[w] # prep[w]
    OBVIOUS
  <2>0. TypeOK /\ RunShape /\ Shapes /\ Claims /\ None \notin Preparer
    BY OwnerFacts DEF Prepared, Based, PrepInv, Shapes, Claims
  <2>1. CASE SeedStep \/ CleanupStep \/ SampleStep
    <3>1. Contained
      BY <2>0, <2>1, SeedContained, CleanupContained, SampleContained DEF TypeOK, RunTypes
    <3> QED
      BY <3>1 DEF Contained
  <2>2. ASSUME NEW v \in Preparer, PrepareStep(v) \/ TeardownStep(v)
        PROVE  prep'[w] # prep[w]
    <3>1. DropSchema(v)
      BY <2>0, <2>2, SchemaChanges
    <3>2. v = w
      BY <2>0, <3>1, DropSchemaOnlyOwn
    <3>3. prep'[w] \in {Go(w, "dropDatabase"), Bad(w, "dropDatabase")}
      BY <2>0, <3>1, <3>2 DEF DropSchema, Drop, Into, TypeOK
    <3>4. prep'[w].pc = "dropDatabase" /\ prep[w].pc = "dropSchema"
      BY <2>0, <3>1, <3>2, <3>3 DEF Go, Bad, DropSchema, At, TypeOK, Prep
    <3> QED
      BY <3>4
  <2> QED
    BY <2>1, <2>2 DEF Next
<1>2. OwnSchemaOnly <=> [][Own]_tools
  BY DEF OwnSchemaOnly
<1> HIDE DEF Own
<1> QED
  BY <1>1, <1>2, PreparedInit, PreparedNext, PTL DEF Spec

-----------------------------------------------------------------------------
(***************************************************************************)
(* The calibration and its capture.                                         *)
(***************************************************************************)
\* A preparer only ever meets retrieval runs.
LEMMA RetrievalOnly ==
    ASSUME Prepared, NEW w \in Preparer, PrepareStep(w) \/ TeardownStep(w)
    PROVE  /\ run.kind = "retrieval" /\ run'.kind = "retrieval"
           /\ capture = "none" /\ capture' = "none"
           /\ run' = run \/ (run' = NewRun("retrieval", "aggregate") /\ run.pc = "idle" /\ world' = world)
<1>1. TypeOK /\ Shapes /\ RetrievalInv /\ Claims
  BY DEF Prepared, Based, PrepInv, Shapes, Claims
<1>2. prep[w].pc # "absent" /\ capture' = capture
  BY <1>1, PreparerStep DEF Steady
<1>3. run.kind = "retrieval" /\ capture = "none"
  BY <1>1, <1>2 DEF RetrievalInv
<1>4. run' = run \/ RunRetrieval(w)
  BY DEF PrepareStep, BeginPreparation, InspectTargets, CreateSchema, VerifySearchPath,
         CreateDatabase, CreateRunDirectory, ConfigureRuntime, StartApi, WaitApiReady,
         BuildDataset, TeardownStep, StopApi, ShutdownLogging,
         CleanupRetrieval, DisposeRuntime, DropSchema, DropDatabase, DropRunDirectory,
         DropLogs, VerifyCleanup, WriteArtifacts, Reading, Alone
<1>5. RunRetrieval(w) =>
         run' = NewRun("retrieval", "aggregate") /\ run.pc = "idle" /\ world' = world
  <2> SUFFICES ASSUME RunRetrieval(w)
               PROVE  run' = NewRun("retrieval", "aggregate") /\ run.pc = "idle" /\ world' = world
    OBVIOUS
  <2>1. prep[w].pc = "retrieve"
    BY DEF RunRetrieval, At
  <2>2. \A v \in Preparer : ~prep[v].asked
    BY <1>1, <2>1 DEF Shapes, PrepShape, Shaped, Claims, DirectoryInv, Starting, HoldsSchema,
                      HoldsDatabase, HoldsDirectory
  <2>3. run.pc = "idle"
    BY <1>1, <1>2, <2>2 DEF RetrievalInv
  <2> QED
    BY <2>3 DEF RunRetrieval
<1> QED
  BY <1>2, <1>3, <1>4, <1>5 DEF NewRun

\* As long as no request has failed.
Smooth ==
    /\ ~run.primary /\ run.failed = {}
    /\ world.documents \subseteq run.seeded /\ world.projects \subseteq run.listed
    /\ run.pc = "documents" => world.documents \subseteq run.todo
    /\ run.pc = "removal" =>
          world.documents = {} /\ world.projects \subseteq run.todo
    /\ run.pc = "purge" => world.projects = {}

LEMMA FaultlessSmooth ==
    ASSUME TypeOK
    PROVE  FaultlessInv <=> (run.kind = "calibration" /\ faults = 0 => Smooth)
BY FaultAssumption DEF TypeOK, FaultlessInv, Smooth

LEMMA SeedSmooth ==
    ASSUME RunTypes, RunShape, run.kind = "calibration", Smooth, SeedStep, ~Fault
    PROVE  Smooth'
<1> USE DEF RunTypes, Smooth
<1>1. CASE AssertEmpty \/ RankQueries \/ DiagnoseRetrieval \/ ProbeGraph \/ CompareFusions \/ AskLegacy
  BY <1>1 DEF AssertEmpty, RankQueries, DiagnoseRetrieval, ProbeGraph, CompareFusions, AskLegacy,
              RunShape
<1>2. CASE BeginCalibration
  BY <1>2 DEF BeginCalibration, Run
<1>3. CASE RegisterPrincipal
  <2> DEFINE once == RememberedAtOnce
  <2>1. world' = [world EXCEPT !.user = TRUE] /\ run' = [run EXCEPT !.pc = "login", !.user = once]
    BY <1>3 DEF RegisterPrincipal, Attempt
  <2> HIDE DEF once
  <2> QED
    BY <2>1 DEF Run, World
<1>4. CASE LoginPrincipal
  BY <1>4 DEF LoginPrincipal, Attempt, Run, World
<1>5. CASE SeedProjects
  <2>1. PICK p \in SeedProject, pc \in {"upload", "projects"} :
          /\ world' = [world EXCEPT !.projects = @ \cup {p}, !.bases = @ \cup {p}]
          /\ run' = [run EXCEPT !.listed = @ \cup {p}, !.pc = pc]
    BY <1>5 DEF SeedProjects, Attempt
  <2> QED
    BY <2>1 DEF Run, World
<1>6. CASE SeedUpload
  <2>1. PICK d \in SeedDoc :
          /\ world' = [world EXCEPT !.documents = @ \cup {d}, !.uploads = @ \cup {d},
                                    !.local = TRUE]
          /\ run' = [run EXCEPT !.seeded = @ \cup {d}, !.doc = d, !.pc = "confirm"]
    BY <1>6 DEF SeedUpload, Attempt
  <2> QED
    BY <2>1 DEF Run, World
<1>7. CASE SeedConfirm
  <2>1. PICK pc \in {"use", "upload"} :
          /\ world' = [world EXCEPT !.vectors = @ \cup {run.doc}]
          /\ run' = [run EXCEPT !.doc = None, !.pc = pc]
    BY <1>7 DEF SeedConfirm, Attempt
  <2> QED
    BY <2>1 DEF Run, World
<1>8. CASE CollectOutcomes
  <2>1. PICK pc \in {"result", "capture"} : run' = [run EXCEPT !.pc = pc] /\ world' = world
    BY <1>8 DEF CollectOutcomes, Look
  <2> QED
    BY <2>1 DEF Run
<1>9. CASE WriteCapture
  BY <1>9 DEF WriteCapture, Run
<1>10. CASE WriteResult
  <2>1. /\ world' = world
        /\ \E pc \in {"documents", "close"} : run' = [Cleaning EXCEPT !.pc = pc]
    BY <1>10 DEF WriteResult
  <2> QED
    BY <2>1, FailFields, FailType DEF Run
<1> QED
  BY <1>1, <1>2, <1>3, <1>4, <1>5, <1>6, <1>7, <1>8, <1>9, <1>10 DEF SeedStep

LEMMA CleanupSmooth ==
    ASSUME RunTypes, RunShape, run.kind = "calibration", Smooth, CleanupStep, ~Fault
    PROVE  Smooth'
<1> USE DEF RunTypes, Smooth
<1>1. CASE DiscardCapture
  BY <1>1 DEF DiscardCapture, RunShape
<1>2. CASE DeleteSeeded
  <2>1. PICK d \in run.todo :
          /\ run' = [run EXCEPT !.todo = @ \ {d}]
          /\ world' = [world EXCEPT !.vectors = @ \ {d}, !.uploads = @ \ {d},
                                    !.documents = @ \ {d}]
    BY <1>2 DEF DeleteSeeded
  <2> QED
    BY <1>2, <2>1 DEF Run, World, DeleteSeeded
<1>3. CASE TurnToProjects
  BY <1>3 DEF TurnToProjects, Run
<1>4. CASE RemoveSeededProject
  <2>1. PICK p \in run.todo :
          /\ run' = [run EXCEPT !.todo = @ \ {p}]
          /\ world' = [world EXCEPT !.projects = @ \ {p}, !.threads = @ \ {p}]
    BY <1>4 DEF RemoveSeededProject
  <2> QED
    BY <1>4, <2>1 DEF Run, World, RemoveSeededProject
<1>5. CASE LogOut
  BY <1>5 DEF LogOut, Run
<1>6. CASE PurgePrincipal
  <2>1. /\ run' = [run EXCEPT !.pc = "close"]
        /\ world' = [world EXCEPT !.user = FALSE, !.login = FALSE, !.bases = {}]
    BY <1>6 DEF PurgePrincipal
  <2> QED
    BY <2>1 DEF Run, World
<1>7. CASE CloseApi
  BY <1>7 DEF CloseApi, Run
<1>8. CASE DeleteIsolatedChroma \/ RemoveLocalTargets \/ VerifyZero
  BY <1>8 DEF DeleteIsolatedChroma, RemoveLocalTargets, VerifyZero, RunShape, Isolated
<1> QED
  BY <1>1, <1>2, <1>3, <1>4, <1>5, <1>6, <1>7, <1>8 DEF CleanupStep

LEMMA SampleAnswers ==
    ASSUME RunShape, SampleStep
    PROVE  run.kind = "answers" /\ capture' = capture
BY DEF SampleStep, OpenSample, AnswerDirectly, Decide, Judge, InCall, CloseSample,
       AbandonSample, FinishBatch, RecordFailure, FinalReport, Sampling, RunShape

\* Where the tools are after a step, as far as the kinds of runs tell.
LEMMA KindOfStep ==
    ASSUME Prepared, Next
    PROVE  \/ /\ SeedStep \/ CleanupStep
              /\ Contained /\ UNCHANGED <<batch, report, prep>>
           \/ SampleStep /\ Contained /\ run.kind = "answers" /\ capture' = capture
           \/ \E w \in Preparer :
                /\ PrepareStep(w) \/ TeardownStep(w)
                /\ run.kind = "retrieval" /\ run'.kind = "retrieval"
                /\ capture = "none" /\ capture' = "none"
<1>1. RunTypes /\ RunShape
  BY DEF Prepared, Based, TypeOK, RunTypes
<1>2. CASE (SeedStep \/ CleanupStep) /\ UNCHANGED <<batch, report, prep>>
  BY <1>1, <1>2, SeedContained, CleanupContained
<1>3. CASE SampleStep
  BY <1>1, <1>3, SampleContained, SampleAnswers
<1>4. CASE \E w \in Preparer : PrepareStep(w) \/ TeardownStep(w)
  BY <1>4, RetrievalOnly
<1> QED
  BY <1>2, <1>3, <1>4 DEF Next

LEMMA FaultsGrow ==
    ASSUME Prepared, Next
    PROVE  faults' \in Nat /\ faults \in Nat /\ faults' >= faults /\ (Fault => faults' >= 1)
<1>1. Prepared'
  BY PreparedNext
<1>2. faults \in 0 .. MaxFaults /\ faults' \in 0 .. MaxFaults
  BY <1>1 DEF Prepared, Based, TypeOK
<1>3. Sound \/ Fault \/ faults' = faults
  BY SeedTypes, CleanupTypes, SampleTypes, PrepareTypes, TeardownTypes
     DEF Next, Prepared, Based, TypeOK, RunTypes, RunShape
<1> QED
  BY <1>2, <1>3, FaultAssumption DEF Sound, Fault

LEMMA FaultlessNext == Prepared /\ FaultlessInv /\ Next => FaultlessInv'
<1> SUFFICES ASSUME Prepared, FaultlessInv, Next, run'.kind = "calibration"
             PROVE  /\ run'.primary \/ run'.failed # {} => faults' >= 1
                    /\ faults' = 0 => Smooth'
  BY DEF FaultlessInv, Smooth
<1>1. /\ SeedStep \/ CleanupStep
      /\ run.kind = "calibration"
  BY KindOfStep DEF Contained
<1>2. RunTypes /\ RunShape /\ TypeOK
  BY DEF Prepared, Based, TypeOK, RunTypes
<1>3. faults' \in Nat /\ faults \in Nat /\ faults' >= faults /\ (Fault => faults' >= 1)
  BY FaultsGrow
<1>4. faults' = 0 => Smooth'
  <2> SUFFICES ASSUME faults' = 0 PROVE Smooth'
    OBVIOUS
  <2>1. faults = 0 /\ ~Fault
    BY <1>3
  <2>2. Smooth
    BY <1>1, <1>2, <2>1, FaultlessSmooth
  <2> QED
    BY <1>1, <1>2, <2>1, <2>2, SeedSmooth, CleanupSmooth
<1>5. faults' = 0 => ~run'.primary /\ run'.failed = {}
  BY <1>4 DEF Smooth
<1> QED
  BY <1>3, <1>4, <1>5

LEMMA FaultlessInit == Init => FaultlessInv
<1> SUFFICES ASSUME Init, run.kind = "calibration" PROVE FaultlessInv
  BY DEF FaultlessInv
<1>1. faults = 0
  BY DEF Init
<1>2. run.pc = "start" /\ ~run.primary /\ run.failed = {}
  BY DEF Init, NewRun
<1>3. world.documents = {} /\ world.projects = {}
  BY DEF Init, NewRun, Untouched
<1> QED
  BY <1>1, <1>2, <1>3 DEF FaultlessInv

\* How a calibration becomes one that has failed.
LEMMA SeedPrimary ==
    ASSUME RunTypes, RunShape, SeedStep
    PROVE  /\ run'.primary => run'.pc = "discard" \/ run.kind # "calibration"
                              \/ (run.pc = "start" /\ run'.pc = "refused" /\ capture' = capture)
           /\ run'.pc # "over"
           /\ capture' \in {capture, "none", "new"}
           /\ capture = "old" /\ capture' = "old" => run.pc # "start" \/ run'.pc = "refused"
                                                     \/ run.kind # "calibration"
<1> USE FailFields DEF RunTypes
<1>0. ~run.primary
  BY DEF RunShape, Forward, SeedStep, AssertEmpty, BeginCalibration, RegisterPrincipal,
         LoginPrincipal, SeedProjects, SeedUpload, SeedConfirm, CollectOutcomes, RankQueries,
         DiagnoseRetrieval, ProbeGraph, CompareFusions, AskLegacy, WriteCapture, WriteResult
<1>1. CASE AssertEmpty
  BY <1>0, <1>1 DEF AssertEmpty, Run
<1>2. CASE BeginCalibration
  BY <1>0, <1>2 DEF BeginCalibration, DropOldCapture, Run
<1>3. CASE RegisterPrincipal
  <2> DEFINE once == RememberedAtOnce
  <2>1. /\ run' \in {[run EXCEPT !.pc = "login", !.user = once], Fail} /\ capture' = capture
        /\ run.pc = "register"
    BY <1>3 DEF RegisterPrincipal, Attempt
  <2> HIDE DEF once
  <2> QED
    BY <1>0, <2>1, FailType DEF Run
<1>4. CASE LoginPrincipal
  BY <1>0, <1>4, FailType DEF LoginPrincipal, Attempt, Run
<1>5. CASE SeedProjects
  <2>1. /\ \/ run' = Fail
           \/ \E p \in SeedProject, pc \in {"upload", "projects"} :
                 run' = [run EXCEPT !.listed = @ \cup {p}, !.pc = pc]
        /\ run.pc = "projects" /\ capture' = capture
    BY <1>5 DEF SeedProjects, Attempt
  <2> QED
    BY <1>0, <2>1, FailType DEF Run
<1>6. CASE SeedUpload
  <2>1. /\ \/ run' = Fail
           \/ \E d \in SeedDoc :
                 run' = [run EXCEPT !.seeded = @ \cup {d}, !.doc = d, !.pc = "confirm"]
        /\ run.pc = "upload" /\ capture' = capture
    BY <1>6 DEF SeedUpload, Attempt
  <2> QED
    BY <1>0, <2>1, FailType DEF Run
<1>7. CASE SeedConfirm
  <2>1. /\ \/ run' = Fail
           \/ \E pc \in {"use", "upload"} : run' = [run EXCEPT !.doc = None, !.pc = pc]
        /\ run.pc = "confirm" /\ capture' = capture
    BY <1>7 DEF SeedConfirm, Attempt
  <2> QED
    BY <1>0, <2>1, FailType DEF Run
<1>8. CASE CollectOutcomes \/ RankQueries \/ DiagnoseRetrieval \/ CompareFusions
  <2>1. /\ \/ run' = Fail \/ run' = Cleaning
           \/ \E pc \in {"capture", "result", "probe", "persist"} : run' = [run EXCEPT !.pc = pc]
        /\ run.pc # "start" /\ capture' = capture
    BY <1>8 DEF CollectOutcomes, RankQueries, DiagnoseRetrieval, CompareFusions, Look
  <2> QED
    BY <1>0, <2>1, FailType DEF Run
<1>9. CASE ProbeGraph \/ AskLegacy
  <2>1. run' \in {Fail, Cleaning} /\ run.pc # "start" /\ capture' = capture
    BY <1>9 DEF ProbeGraph, AskLegacy
  <2> QED
    BY <1>0, <2>1, FailType
<1>10. CASE WriteCapture
  BY <1>0, <1>10, FailType DEF WriteCapture, Run
<1>11. CASE WriteResult
  <2>1. /\ \/ run' = Fail
           \/ \E pc \in {"documents", "close"} : run' = [Cleaning EXCEPT !.pc = pc]
        /\ run.pc # "start" /\ capture' = capture
    BY <1>11 DEF WriteResult
  <2> QED
    BY <1>0, <2>1, FailType DEF Run
<1> QED
  BY <1>1, <1>2, <1>3, <1>4, <1>5, <1>6, <1>7, <1>8, <1>9, <1>10, <1>11 DEF SeedStep

LEMMA CaptureSeed ==
    ASSUME Prepared, CaptureInv, FaultlessInv, SeedStep, Next
    PROVE  CaptureInv'
<1>1. RunTypes /\ RunShape
  BY DEF Prepared, Based, TypeOK, RunTypes
<1>2. Contained
  BY <1>1, SeedContained
<1>3. capture = "old" => run.pc \in {"start", "refused"} /\ run.kind = "calibration"
  BY DEF CaptureInv
<1>4. capture' = "old" => run'.kind = "calibration" /\ run'.pc \in {"start", "refused"}
  BY <1>1, <1>2, <1>3, SeedPrimary DEF Contained, Ended
<1>5. run'.pc = "start" => capture' # "new"
  BY <1>2 DEF Contained
<1>6. ASSUME run'.phase = "dataset", capture' = "new"
      PROVE  /\ run'.primary /\ run'.pc # "discard" => faults' > 1
             /\ run'.failed # {} /\ run'.pc = "over" => faults' > 1
  <2>1. run.kind = "calibration"
    BY <1>1, <1>2, <1>6 DEF Contained, RunShape
  <2>2. run.pc = "start" => capture # "new"
    BY DEF CaptureInv
  <2> QED
    BY <1>1, <1>6, <2>1, <2>2, SeedPrimary
<1> QED
  BY <1>4, <1>5, <1>6 DEF CaptureInv

LEMMA CaptureCleanup ==
    ASSUME Prepared, CaptureInv, FaultlessInv, CleanupStep, Next
    PROVE  CaptureInv'
<1>1. RunTypes /\ RunShape
  BY DEF Prepared, Based, TypeOK, RunTypes
<1>2. Contained /\ SameRun /\ CleanupTurn /\ run.failed \subseteq run'.failed
  BY <1>1, CleanupContained, CleanupRun
<1>3. run.pc \notin {"start", "over"} \cup Ended
  BY <1>2 DEF CleanupTurn, Turn, Ended
<1>4. capture # "old"
  BY <1>3 DEF CaptureInv, Ended
<1>5. capture' \in {capture, "none"}
  BY DEF CleanupStep, DiscardCapture, DeleteSeeded, TurnToProjects, RemoveSeededProject,
         LogOut, PurgePrincipal, CloseApi, DeleteIsolatedChroma, RemoveLocalTargets, VerifyZero,
         Unlinked
<1>6. faults' \in Nat /\ faults \in Nat /\ faults' >= faults
  BY FaultsGrow
<1>7. ASSUME run'.phase = "dataset", capture' = "new"
      PROVE  /\ run'.primary /\ run'.pc # "discard" => faults' > 1
             /\ run'.failed # {} /\ run'.pc = "over" => faults' > 1
  <2>1. run.kind = "calibration" /\ run.phase = "dataset" /\ capture = "new"
    BY <1>1, <1>2, <1>5, <1>7 DEF SameRun, RunShape
  <2>2. run.primary \/ run.failed # {} => faults >= 1
    BY <2>1 DEF FaultlessInv
  <2>3. CASE DiscardCapture
    <3>1. Fault
      BY <1>7, <2>1, <2>3 DEF DiscardCapture, Unlinked
    <3>2. run.primary /\ run'.pc # "over"
      BY <1>1, <2>3 DEF DiscardCapture, RunShape, RunTypes, Run
    <3> QED
      BY <1>6, <2>2, <3>1, <3>2 DEF Fault
  <2>4. CASE CloseApi
    <3>1. run'.failed = run.failed
      BY <1>1, <2>1, <2>4 DEF CloseApi, RunTypes, Run
    <3>2. run.failed # {} => Fault
      BY <1>7, <2>1, <2>4 DEF CloseApi, Unlinked
    <3>3. run.primary /\ run.pc # "discard" => faults > 1
      BY <2>1 DEF CaptureInv
    <3>4. run.pc = "close"
      BY <2>4 DEF CloseApi
    <3> QED
      BY <1>2, <1>6, <2>2, <3>1, <3>2, <3>3, <3>4 DEF Fault, SameRun
  <2>5. CASE run.pc \notin {"discard", "close"}
    <3>1. run.primary => faults > 1
      BY <2>1, <2>5 DEF CaptureInv
    <3>2. run'.pc # "over"
      BY <1>1, <1>2, <2>1, <2>5 DEF CleanupTurn, Turn, RunShape
    <3> QED
      BY <1>2, <1>6, <3>1, <3>2 DEF SameRun
  <2>6. DiscardCapture \/ CloseApi \/ run.pc \notin {"discard", "close"}
    BY <2>1 DEF CleanupStep, DiscardCapture, DeleteSeeded, TurnToProjects, RemoveSeededProject,
       LogOut, PurgePrincipal, CloseApi, DeleteIsolatedChroma, RemoveLocalTargets, VerifyZero
  <2> QED
    BY <2>3, <2>4, <2>5, <2>6
<1> QED
  BY <1>2, <1>4, <1>5, <1>7 DEF CaptureInv, Contained

LEMMA CaptureNext == Prepared /\ CaptureInv /\ FaultlessInv /\ Next => CaptureInv'
<1> SUFFICES ASSUME Prepared, CaptureInv, FaultlessInv, Next PROVE CaptureInv'
  OBVIOUS
<1>1. RunShape /\ RunShape'
  BY PreparedNext DEF Prepared, Based
<1>2. CASE SeedStep \/ CleanupStep
  BY <1>2, CaptureSeed, CaptureCleanup
<1>3. CASE /\ Contained /\ run.kind = "answers" /\ capture' = capture
  BY <1>1, <1>3 DEF CaptureInv, Contained, RunShape
<1>4. CASE capture = "none" /\ capture' = "none"
  BY <1>4 DEF CaptureInv
<1> QED
  BY <1>2, <1>3, <1>4, KindOfStep

LEMMA CaptureInit == Init => CaptureInv
<1> SUFFICES ASSUME Init PROVE CaptureInv
  OBVIOUS
<1>1. \/ capture \in {"none", "old"} /\ run.kind = "calibration" /\ run.pc = "start"
      \/ capture = "none"
  BY DEF Init, NewRun
<1> QED
  BY <1>1 DEF CaptureInv

\* Whatever fails, and whenever: once a calibration is under way the capture of
\* an earlier one is gone, and a dataset that stays after its run belongs to a
\* run that has done all it had to, unless a second failure kept the file from
\* being removed.
THEOREM CapturesAreFresh == Spec => []CaptureIsFresh
<1> DEFINE Inv == Prepared /\ FaultlessInv /\ CaptureInv
<1>1. Init => Inv
  BY PreparedInit, FaultlessInit, CaptureInit
<1>2. Inv /\ [Next]_tools => Inv'
  <2>1. CASE Next
    BY <2>1, PreparedNext, FaultlessNext, CaptureNext
  <2>2. CASE UNCHANGED tools
    <3>1. FaultlessInv /\ UNCHANGED tools => FaultlessInv'
      BY DEF tools, FaultlessInv
    <3>2. CaptureInv /\ UNCHANGED tools => CaptureInv'
      BY DEF tools, CaptureInv
    <3> QED
      BY <2>2, <3>1, <3>2, PreparedNext
  <2> QED
    BY <2>1, <2>2
<1>3. Inv => CaptureIsFresh
  <2> SUFFICES ASSUME Inv PROVE CaptureIsFresh
    OBVIOUS
  <2>1. faults \in Nat /\ run.primary \in BOOLEAN
    BY FaultAssumption DEF Prepared, Based, TypeOK, Run
  <2>2. capture = "old" => run.pc \in {"start", "refused"}
    BY DEF CaptureInv
  <2>3. run.pc = "over" /\ run.phase = "dataset" /\ capture = "new" =>
           (~run.primary /\ run.failed = {}) \/ faults > 1
    BY <2>1 DEF CaptureInv
  <2> QED
    BY <2>2, <2>3 DEF CaptureIsFresh
<1> QED
  BY <1>1, <1>2, <1>3, PTL DEF Spec

-----------------------------------------------------------------------------
(***************************************************************************)
(* The runs that own their database and their directories.                  *)
(***************************************************************************)
\* What the forward half does to the stores of such a run, and to what the run
\* knows of its user.
SeedEffect ==
    /\ world'.vectors \subseteq world.vectors \/ run.pc = "confirm"
    /\ \/ world'.uploads \subseteq world.uploads /\ world'.threads \subseteq world.threads
       \/ world'.local
    /\ world.local => world'.local
    /\ run'.pc = "confirm" => world'.local
    /\ run'.pc = "use" => run.pc = "confirm"
    /\ world'.login => world.login \/ run.pc = "login"
    /\ run'.pc = "login" => run'.user
    /\ run.user => run'.user
    /\ run'.pc = "register" => run.pc = "start"
    /\ run'.pc = "close" => ~run.user
    /\ run'.pc \notin {"chroma", "local", "verify", "report", "over"}

LEMMA SeedEffects ==
    ASSUME RunTypes, RunShape, Isolated, SeedStep
    PROVE  SeedEffect
<1> USE FailFields DEF RunTypes, SeedEffect
<1>0. /\ run.pc \in RunPc /\ run.kind \in {"retrieval", "answers"} /\ run.user \in BOOLEAN
      /\ RememberedAtOnce
  BY DEF Run, Isolated, RememberedAtOnce
<1>1. CASE AssertEmpty
  BY <1>1 DEF AssertEmpty, Run
<1>2. CASE BeginCalibration \/ CollectOutcomes \/ DiagnoseRetrieval \/ WriteCapture \/ WriteResult
           \/ CompareFusions \/ AskLegacy
  BY <1>0, <1>2 DEF BeginCalibration, CollectOutcomes, DiagnoseRetrieval, WriteCapture, WriteResult,
                    CompareFusions, AskLegacy, RunShape
<1>3. CASE RegisterPrincipal
  <2> DEFINE once == RememberedAtOnce
             after == [world EXCEPT !.user = TRUE]
             next == [run EXCEPT !.pc = "login", !.user = once]
  <2>1. /\ world' \in {world, after} /\ run' \in {next, Fail} /\ run.pc = "register"
    BY <1>3 DEF RegisterPrincipal, Attempt
  <2>2. /\ after.vectors = world.vectors /\ after.uploads = world.uploads
        /\ after.threads = world.threads /\ after.local = world.local
        /\ after.login = world.login
    BY DEF World
  <2>3. once
    BY <1>0
  <2> HIDE DEF once, after
  <2>4. next.pc = "login" /\ next.user
    BY <2>3 DEF Run
  <2> HIDE DEF next
  <2> QED
    BY <1>0, <2>1, <2>2, <2>4
<1>4. CASE LoginPrincipal
  <2> DEFINE after == [world EXCEPT !.login = TRUE]
             next == [run EXCEPT !.pc = "projects", !.user = TRUE, !.token = TRUE]
  <2>1. /\ world' \in {world, after} /\ run' \in {next, Fail} /\ run.pc = "login"
    BY <1>4 DEF LoginPrincipal, Attempt
  <2>2. /\ after.vectors = world.vectors /\ after.uploads = world.uploads
        /\ after.threads = world.threads /\ after.local = world.local
    BY DEF World
  <2>3. next.pc = "projects" /\ next.user
    BY DEF Run
  <2> HIDE DEF after, next
  <2> QED
    BY <1>0, <2>1, <2>2, <2>3
<1>5. CASE SeedProjects
  <2>1. PICK p \in SeedProject, pc \in {"upload", "projects"} :
          /\ world' \in {world, [world EXCEPT !.projects = @ \cup {p}, !.bases = @ \cup {p}]}
          /\ run' \in {Fail, [run EXCEPT !.listed = @ \cup {p}, !.pc = pc]}
    BY <1>5 DEF SeedProjects, Attempt
  <2>2. /\ world'.vectors = world.vectors /\ world'.uploads = world.uploads
        /\ world'.threads = world.threads /\ world'.local = world.local
        /\ world'.login = world.login
    BY <2>1 DEF World
  <2>3. /\ run'.user = run.user /\ run'.pc \in {"discard", "documents", "close", "upload", "projects"}
        /\ run'.pc = "close" => ~run.user
    BY <1>0, <2>1 DEF Run
  <2> QED
    BY <2>2, <2>3
<1>6. CASE SeedUpload
  <2>1. PICK d \in SeedDoc :
          LET after == [world EXCEPT !.documents = @ \cup {d}, !.uploads = @ \cup {d},
                                     !.local = TRUE]
              next == [run EXCEPT !.seeded = @ \cup {d}, !.doc = d, !.pc = "confirm"]
          IN \/ world' = after /\ run' = next
             \/ world' \in {world, after} /\ run' = Fail
    BY <1>6 DEF SeedUpload, Attempt
  <2> DEFINE after == [world EXCEPT !.documents = @ \cup {d}, !.uploads = @ \cup {d},
                                    !.local = TRUE]
             next == [run EXCEPT !.seeded = @ \cup {d}, !.doc = d, !.pc = "confirm"]
  <2>2. /\ after.vectors = world.vectors /\ after.threads = world.threads /\ after.local
        /\ after.login = world.login
    BY DEF World
  <2>3. next.pc = "confirm" /\ next.user = run.user
    BY DEF Run
  <2>4. \/ world' = after /\ run' = next
        \/ world' \in {world, after} /\ run' = Fail
    BY <2>1
  <2> HIDE DEF after, next
  <2> QED
    BY <1>0, <2>2, <2>3, <2>4
<1>7. CASE SeedConfirm
  <2>1. /\ world' \in {world, [world EXCEPT !.vectors = @ \cup {run.doc}]} /\ run.pc = "confirm"
        /\ \/ run' = Fail
           \/ \E pc \in {"use", "upload"} : run' = [run EXCEPT !.doc = None, !.pc = pc]
    BY <1>7 DEF SeedConfirm, Attempt
  <2>2. /\ world'.uploads = world.uploads
        /\ world'.threads = world.threads /\ world'.local = world.local
        /\ world'.login = world.login
    BY <2>1 DEF World
  <2>3. /\ run'.user = run.user /\ run'.pc \in {"discard", "documents", "close", "upload", "use"}
        /\ run'.pc = "close" => ~run.user
    BY <1>0, <2>1 DEF Run
  <2> QED
    BY <2>1, <2>2, <2>3
<1>8. CASE RankQueries
  <2>1. world' = world /\ run' \in {Fail, [run EXCEPT !.pc = "probe"]}
    BY <1>8 DEF RankQueries, Look
  <2> QED
    BY <1>0, <2>1 DEF Run
<1>9. CASE ProbeGraph
  <2>1. /\ run' \in {Fail, Cleaning}
        /\ \/ world' = [world EXCEPT !.local = TRUE]
           \/ \E left : world' = [world EXCEPT !.threads = left, !.local = TRUE]
    BY <1>9 DEF ProbeGraph
  <2>2. world'.vectors = world.vectors /\ world'.local /\ world'.login = world.login
    BY <2>1 DEF World
  <2> QED
    BY <1>0, <2>1, <2>2
<1> QED
  BY <1>1, <1>2, <1>3, <1>4, <1>5, <1>6, <1>7, <1>8, <1>9 DEF SeedStep

LEMMA IsolatedSeed ==
    ASSUME RunTypes, RunShape, IsolatedInv, LoginInv, SeedStep
    PROVE  IsolatedInv' /\ LoginInv'
<1>1. Contained
  BY SeedContained
<1>2. CASE ~Isolated
  BY <1>1, <1>2 DEF Contained, IsolatedInv, LoginInv, Isolated
<1>3. CASE Isolated
  <2>1. SeedEffect
    BY <1>3, SeedEffects
  <2>2. run.pc = "confirm" => run.pc \in PreChroma
    BY DEF PreChroma, RunPc, Ended
  <2>3. run.pc # "chroma" /\ (run.pc \in {"start", "register"} => ~world.login)
        /\ run.pc \notin {"close", "chroma", "local", "verify", "report", "over"}
    BY <1>3 DEF LoginInv, SeedStep, AssertEmpty, BeginCalibration, RegisterPrincipal,
         LoginPrincipal, SeedProjects, SeedUpload, SeedConfirm, CollectOutcomes, RankQueries,
         DiagnoseRetrieval, ProbeGraph, CompareFusions, AskLegacy, WriteCapture, WriteResult
  <2>4. IsolatedInv'
    <3>1. run'.pc \in PreChroma => world'.database # None
      BY <1>1, <1>3, <2>3 DEF Contained, IsolatedInv
    <3>2. world'.database = None => world'.vectors = {}
      BY <1>1, <1>3, <2>1, <2>2, <2>3 DEF Contained, IsolatedInv, SeedEffect
    <3>3. ~world'.local => world'.uploads = {} /\ world'.threads = {}
      BY <1>3, <2>1 DEF SeedEffect, IsolatedInv
    <3>4. run'.kind = "answers" /\ run'.pc \in {"confirm", "use"} => world'.local
      BY <1>1, <1>3, <2>1 DEF SeedEffect, IsolatedInv, Contained
    <3> QED
      BY <3>1, <3>2, <3>3, <3>4 DEF IsolatedInv
  <2>5. LoginInv'
    <3>1. run'.pc = "login" => run'.user
      BY <2>1 DEF SeedEffect
    <3>2. run'.pc \in {"idle", "start", "register"} => ~world'.login
      BY <1>1, <1>3, <2>1, <2>3 DEF SeedEffect, Contained, LoginInv
    <3>3. world'.login => run'.user \/ run'.pc \in Ended
      BY <1>1, <1>3, <2>1, <2>3 DEF SeedEffect, Contained, LoginInv, Ended
    <3>4. world'.login => run'.pc \notin {"close", "chroma", "local", "verify", "report", "over"}
      BY <1>1, <1>3, <2>1, <2>3 DEF SeedEffect, Contained, LoginInv, Ended
    <3> QED
      BY <3>1, <3>2, <3>3, <3>4 DEF LoginInv
  <2> QED
    BY <2>4, <2>5
<1> QED
  BY <1>2, <1>3

\* The cleanup only takes away; a login that outlives its purge is on record.
CleanupEffect ==
    /\ world'.vectors \subseteq world.vectors /\ world'.uploads \subseteq world.uploads
    /\ world'.threads \subseteq world.threads
    /\ world'.login => world.login
    /\ world'.local = world.local \/ (world'.uploads = {} /\ world'.threads = {})
    /\ world'.database = None => world.database = None \/ world'.vectors = {}
    /\ run'.pc = "close" /\ world'.login =>
          "scope" \in run'.failed \/ "principal" \in run'.failed

LEMMA CleanupEffects ==
    ASSUME RunTypes, RunShape, run.pc # "discard", CleanupStep
    PROVE  CleanupEffect
<1> USE DEF RunTypes, CleanupEffect
<1>1. CASE DiscardCapture
  BY <1>1 DEF DiscardCapture
<1>2. CASE DeleteSeeded
  <2>1. PICK d \in run.todo :
          LET done == [run EXCEPT !.todo = @ \ {d}]
          IN \/ /\ Sound /\ run' = done
                /\ world' = [world EXCEPT !.vectors = @ \ {d}, !.uploads = @ \ {d},
                                          !.documents = @ \ {d}]
             \/ Fault /\ world' \in PartlyDeleted(d) /\ Unanswered(done, "document")
    BY <1>2 DEF DeleteSeeded
  <2>2. /\ world'.vectors \subseteq world.vectors /\ world'.uploads \subseteq world.uploads
        /\ world'.threads = world.threads /\ world'.login = world.login
        /\ world'.local = world.local /\ world'.database = world.database
    BY <2>1 DEF PartlyDeleted, World
  <2>3. LET done == [run EXCEPT !.todo = @ \ {d}]
        IN run' = done \/ run' = [done EXCEPT !.failed = Noted("document")]
           \/ Unanswered(done, "document")
    BY <2>1
  <2>4. run'.pc # "close" \/ "scope" \in run'.failed
    BY <1>2, <2>3, ScopeRun DEF DeleteSeeded, Step
  <2> QED
    BY <2>2, <2>4
<1>3. CASE TurnToProjects
  BY <1>3 DEF TurnToProjects, Run
<1>4. CASE RemoveSeededProject
  <2>1. PICK p \in run.todo :
          LET done == [run EXCEPT !.todo = @ \ {p}]
              gone == [world EXCEPT !.projects = @ \ {p}, !.threads = @ \ {p}]
          IN IF \E d \in world.documents : Home[d] = p
             THEN Sound /\ UNCHANGED world /\ run' = [done EXCEPT !.failed = Noted("project")]
             ELSE \/ Sound /\ world' = gone /\ run' = done
                  \/ Fault /\ world' \in {world, gone} /\ Unanswered(done, "project")
    BY <1>4 DEF RemoveSeededProject
  <2>2. world' \in {world, [world EXCEPT !.projects = @ \ {p}, !.threads = @ \ {p}]}
    BY <2>1
  <2>3. /\ world'.vectors = world.vectors /\ world'.uploads = world.uploads
        /\ world'.threads \subseteq world.threads /\ world'.login = world.login
        /\ world'.local = world.local /\ world'.database = world.database
    BY <2>2 DEF World
  <2>4. LET done == [run EXCEPT !.todo = @ \ {p}]
        IN run' = done \/ run' = [done EXCEPT !.failed = Noted("project")]
           \/ Unanswered(done, "project")
    BY <2>1
  <2>5. run'.pc # "close" \/ "scope" \in run'.failed
    BY <1>4, <2>4, ScopeRun DEF RemoveSeededProject, Step
  <2> QED
    BY <2>3, <2>5
<1>5. CASE LogOut
  <2>1. world' = world
    BY <1>5 DEF LogOut
  <2>2. \/ run' = [run EXCEPT !.pc = "purge"]
        \/ Unanswered([run EXCEPT !.pc = "purge"], "logout")
    BY <1>5 DEF LogOut
  <2> DEFINE done == [run EXCEPT !.pc = "purge"]
             again == [done EXCEPT !.failed = Noted("logout")]
             scope == [run EXCEPT !.failed = Noted("scope"), !.pc = "close"]
  <2>3. run' \in {done, again, scope}
    BY <2>2 DEF Unanswered
  <2>4. done.pc # "close" /\ again.pc # "close" /\ "scope" \in scope.failed
    BY DEF Run, Noted
  <2> HIDE DEF done, again, scope
  <2>5. run'.pc # "close" \/ "scope" \in run'.failed
    BY <2>3, <2>4
  <2> QED
    BY <2>1, <2>5
<1>6. CASE PurgePrincipal
  <2> DEFINE purged == [world EXCEPT !.user = FALSE, !.login = FALSE, !.bases = {}]
             done == [run EXCEPT !.pc = "close"]
  <2>1. \/ world' = purged
        \/ world' = world /\ run' = [done EXCEPT !.failed = Noted("principal")]
    BY <1>6 DEF PurgePrincipal
  <2>2. /\ purged.vectors = world.vectors /\ purged.uploads = world.uploads
        /\ purged.threads = world.threads /\ ~purged.login
        /\ purged.local = world.local /\ purged.database = world.database
    BY DEF World
  <2>3. "principal" \in [done EXCEPT !.failed = Noted("principal")].failed
    BY DEF Run, Noted
  <2> HIDE DEF purged, done
  <2> QED
    BY <2>1, <2>2, <2>3
<1>7. CASE CloseApi
  <2>1. world' = world /\ run.pc = "close"
    BY <1>7 DEF CloseApi
  <2>2. run'.pc # "close"
    BY <2>1, CleanupRun DEF CleanupTurn, Turn
  <2> QED
    BY <2>1, <2>2
<1>8. CASE DeleteIsolatedChroma
  <2> DEFINE emptied == [world EXCEPT !.vectors = {}]
             dropped == [emptied EXCEPT !.database = None]
  <2>1. world' \in {world, emptied, dropped} /\ run.pc = "chroma"
    BY <1>8 DEF DeleteIsolatedChroma
  <2>2. run'.pc # "close"
    BY <2>1, CleanupRun DEF CleanupTurn, Turn
  <2> QED
    BY <2>1, <2>2 DEF World
<1>9. CASE RemoveLocalTargets
  <2> DEFINE files == [world EXCEPT !.local = FALSE, !.uploads = {}, !.threads = {}]
             gone == [files EXCEPT !.runDir = None]
  <2>1. world' \in {world, files, gone} /\ run.pc = "local"
    BY <1>9 DEF RemoveLocalTargets
  <2>2. run'.pc # "close"
    BY <2>1, CleanupRun DEF CleanupTurn, Turn
  <2> QED
    BY <2>1, <2>2 DEF World
<1>10. CASE VerifyZero
  <2>1. world' = world /\ run.pc = "verify"
    BY <1>10 DEF VerifyZero
  <2>2. run'.pc # "close"
    BY <2>1, CleanupRun DEF CleanupTurn, Turn
  <2> QED
    BY <2>1, <2>2
<1> QED
  BY <1>1, <1>2, <1>3, <1>4, <1>5, <1>6, <1>7, <1>8, <1>9, <1>10 DEF CleanupStep

LEMMA IsolatedCleanup ==
    ASSUME RunTypes, RunShape, IsolatedInv, LoginInv, CleanupStep
    PROVE  IsolatedInv' /\ LoginInv'
<1>1. Contained /\ SameRun /\ CleanupTurn /\ run.failed \subseteq run'.failed
  BY CleanupContained, CleanupRun
<1>2. CASE ~Isolated
  BY <1>1, <1>2 DEF Contained, IsolatedInv, LoginInv, Isolated
<1>3. CASE Isolated /\ run.pc = "discard"
  <2>1. ~CleanupStep
    BY <1>3 DEF Isolated, CleanupStep, DiscardCapture, DeleteSeeded, TurnToProjects,
         RemoveSeededProject, LogOut, PurgePrincipal, CloseApi, DeleteIsolatedChroma,
         RemoveLocalTargets, VerifyZero
  <2> QED
    BY <2>1
<1>4. CASE Isolated /\ run.pc # "discard"
  <2>1. CleanupEffect
    BY <1>4, CleanupEffects
  <2>2. IsolatedInv'
    <3>1. run'.pc \in PreChroma => world'.database # None
      BY <1>1, <1>4 DEF Contained, IsolatedInv
    <3>2. world'.database = None => world'.vectors = {}
      BY <1>4, <2>1 DEF IsolatedInv, CleanupEffect
    <3>3. ~world'.local => world'.uploads = {} /\ world'.threads = {}
      BY <1>4, <2>1 DEF IsolatedInv, CleanupEffect
    <3>4. run'.pc \notin {"confirm", "use"}
      BY <1>1 DEF CleanupTurn, Turn
    <3> QED
      BY <3>1, <3>2, <3>3, <3>4 DEF IsolatedInv
  <2>3. LoginInv'
    <3>1. run'.pc \notin {"idle", "start", "register", "login"}
      BY <1>1 DEF CleanupTurn, Turn
    <3>2. world'.login => run'.user
      BY <1>1, <1>4, <2>1 DEF SameRun, CleanupEffect, LoginInv, Contained
    <3>3. world'.login /\ run'.pc \in {"close", "chroma", "local", "verify", "report", "over"}
             => run'.failed \cap {"scope", "principal"} # {}
      <4>1. CASE run'.pc = "close"
        BY <2>1, <4>1 DEF CleanupEffect
      <4>2. CASE run'.pc \in {"chroma", "local", "verify", "report", "over"}
        <5>1. run.pc \in {"close", "chroma", "local", "verify", "report", "over"}
          BY <1>1, <4>2 DEF CleanupTurn, Turn
        <5> QED
          BY <1>1, <1>4, <2>1, <5>1 DEF LoginInv, CleanupEffect
      <4> QED
        BY <4>1, <4>2
    <3> QED
      BY <3>1, <3>2, <3>3 DEF LoginInv
  <2> QED
    BY <2>2, <2>3
<1> QED
  BY <1>2, <1>3, <1>4

LEMMA IsolatedSample ==
    ASSUME RunTypes, RunShape, IsolatedInv, LoginInv, SampleStep
    PROVE  IsolatedInv' /\ LoginInv'
<1>1. Contained /\ run.kind = "answers"
  BY SampleContained, SampleAnswers
<1>2. Isolated /\ Isolated'
  BY <1>1 DEF Contained, Isolated
<1>3. /\ world'.vectors = world.vectors /\ world'.uploads = world.uploads
      /\ world'.local = world.local /\ world'.login = world.login
      /\ world'.threads = world.threads \/ run.pc = "use"
  <2>1. CASE world' = world
    BY <2>1
  <2>2. CASE OpenSample
    <3>1. \/ world' = world
          \/ \E p \in SeedProject : world' = [world EXCEPT !.threads = @ \cup {p}]
      BY <2>2 DEF OpenSample
    <3>2. run.pc = "use"
      BY <2>2 DEF OpenSample, Sampling
    <3> QED
      BY <3>1, <3>2 DEF RunTypes, World
  <2> QED
    BY <2>1, <2>2 DEF SampleStep, AnswerDirectly, Decide, Judge, InCall, CloseSample,
                      AbandonSample, FinishBatch, RecordFailure, FinalReport
<1>4. /\ run'.user = run.user /\ run'.failed = run.failed
      /\ run'.pc \in {"confirm", "use"} => run.pc = "use"
      /\ run'.pc # "login"
      /\ \/ run'.pc \notin {"close", "chroma", "local", "verify", "report", "over"}
         \/ run'.pc = "close" /\ ~run.user
         \/ run.pc = "report"
  <2> USE FailFields DEF RunTypes
  <2>1. CASE run.pc = "use" /\ run' \in {run, Fail, Cleaning}
    BY <1>1, <2>1
  <2>2. CASE RecordFailure
    BY <2>2 DEF RecordFailure, Run
  <2>3. CASE FinalReport
    BY <2>3 DEF FinalReport, Run
  <2>4. CASE OpenSample \/ AnswerDirectly \/ Decide \/ Judge \/ CloseSample \/ AbandonSample
             \/ FinishBatch
    <3>1. run.pc = "use" /\ run' \in {run, Fail, Cleaning}
      BY <2>4 DEF OpenSample, AnswerDirectly, Decide, Judge, InCall, Sampling, CloseSample,
                  AbandonSample, FinishBatch
    <3> QED
      BY <2>1, <3>1
  <2> QED
    BY <2>2, <2>3, <2>4 DEF SampleStep
<1>5. IsolatedInv'
  <2>1. run'.pc \in PreChroma => world'.database # None
    BY <1>1, <1>2 DEF Contained, IsolatedInv
  <2>2. world'.database = None => world'.vectors = {}
    <3>1. run.pc # "chroma"
      BY DEF SampleStep, OpenSample, AnswerDirectly, Decide, Judge, InCall, Sampling, CloseSample,
             AbandonSample, FinishBatch, RecordFailure, FinalReport
    <3> QED
      BY <1>1, <1>2, <1>3, <3>1 DEF Contained, IsolatedInv
  <2>3. ~world'.local => world'.uploads = {} /\ world'.threads = {}
    BY <1>1, <1>2, <1>3 DEF IsolatedInv
  <2>4. run'.pc \in {"confirm", "use"} => world'.local
    BY <1>1, <1>2, <1>3, <1>4 DEF IsolatedInv
  <2> QED
    BY <2>1, <2>2, <2>3, <2>4 DEF IsolatedInv
<1>6. LoginInv'
  <2>1. run'.pc \in {"idle", "start", "register"} => ~world'.login
    <3>1. run'.pc # "register"
      <4> USE FailFields DEF RunTypes
      <4>1. \/ run.pc = "use" /\ run' \in {run, Fail, Cleaning}
            \/ \E pc \in {"documents", "close", "over"} : run' = [run EXCEPT !.pc = pc]
        BY DEF SampleStep, OpenSample, AnswerDirectly, Decide, Judge, InCall, Sampling,
               CloseSample, AbandonSample, FinishBatch, RecordFailure, FinalReport
      <4> QED
        BY <4>1 DEF Run
    <3> QED
      BY <1>1, <3>1 DEF Contained
  <2>2. world'.login => run'.user
    BY <1>1, <1>2, <1>3, <1>4 DEF LoginInv, Contained
  <2>3. world'.login /\ run'.pc \in {"close", "chroma", "local", "verify", "report", "over"}
           => run'.failed \cap {"scope", "principal"} # {}
    BY <1>2, <1>3, <1>4, <2>2 DEF LoginInv
  <2> QED
    BY <1>2, <1>4, <2>1, <2>2, <2>3 DEF LoginInv
<1> QED
  BY <1>5, <1>6

LEMMA IsolatedInit == Init => IsolatedInv /\ LoginInv
<1> SUFFICES ASSUME Init, Isolated PROVE IsolatedInv /\ LoginInv
  BY DEF IsolatedInv, LoginInv
<1> USE OwnerFacts DEF Untouched, NewRun, IsolatedInv, LoginInv, Isolated, PreChroma, RunPc, Ended
<1>1. CASE \E kind \in Kind, left \in SUBSET SeedDoc : \E phase \in Phases[kind] :
             /\ run = NewRun(kind, phase)
             /\ world = [Untouched(Operator) EXCEPT
                            !.vectors = IF kind = "calibration" THEN {} ELSE left]
  <2>1. PICK kind \in Kind, left \in SUBSET SeedDoc : \E phase \in Phases[kind] :
             /\ run = NewRun(kind, phase)
             /\ world = [Untouched(Operator) EXCEPT
                            !.vectors = IF kind = "calibration" THEN {} ELSE left]
    BY <1>1
  <2>2. run.pc = "start" /\ ~run.user
    BY <2>1
  <2>3. world.database # None /\ ~world.login /\ world.uploads = {} /\ world.threads = {}
    BY <2>1
  <2> QED
    BY <2>2, <2>3
<1>2. CASE run = [NewRun("retrieval", "aggregate") EXCEPT !.pc = "idle"]
             /\ world = Untouched(None)
  BY <1>2
<1> QED
  BY <1>1, <1>2 DEF Init

\* A preparer that takes a database or a directory away takes away with it what
\* is in it, and only ends sessions.
LEMMA PreparerEffects ==
    ASSUME TypeOK, NEW w \in Preparer, PrepareStep(w) \/ TeardownStep(w)
    PROVE  /\ world'.vectors \subseteq world.vectors
           /\ world'.uploads \subseteq world.uploads /\ world'.threads \subseteq world.threads
           /\ world'.login => world.login
           /\ world'.local = world.local \/ (world'.uploads = {} /\ world'.threads = {})
           /\ world'.database = None => world.database = None \/ world'.vectors = {}
           /\ world'.local => world.local
<1> USE DEF TypeOK, World
<1>1. CASE world' = world
  BY <1>1
<1>2. CASE CreateSchema(w) \/ CreateDatabase(w)
  <2>1. \/ world' = world
        \/ world' = [world EXCEPT !["schema"] = w]
        \/ world' = [world EXCEPT !["database"] = w]
    BY <1>2 DEF CreateSchema, CreateDatabase, Create
  <2> QED
    BY <2>1, OwnerFacts
<1>3. CASE CreateRunDirectory(w)
  <2> DEFINE half == [world EXCEPT !.runDir = w]
             full == [half EXCEPT !.results = TRUE]
  <2>1. world' \in {world, half, full}
    BY <1>3 DEF CreateRunDirectory
  <2> QED
    BY <2>1
<1>4. CASE ConfigureRuntime(w)
  <2>1. world' \in {world, [world EXCEPT !.logDir = w]}
    BY <1>4 DEF ConfigureRuntime
  <2> QED
    BY <2>1
<1>5. CASE DropSchema(w)
  <2>1. world' \in {world, [world EXCEPT !.schema = None, !.user = FALSE, !.login = FALSE,
                                    !.bases = {}, !.projects = {}, !.documents = {}]}
    BY <1>5 DEF DropSchema, Drop
  <2> QED
    BY <2>1
<1>6. CASE DropDatabase(w)
  <2>1. world' \in {world, [world EXCEPT !.database = None, !.vectors = {}]}
    BY <1>6 DEF DropDatabase, Drop
  <2> QED
    BY <2>1
<1>7. CASE DropRunDirectory(w)
  <2>1. world' \in {world, [world EXCEPT !.runDir = None, !.local = FALSE, !.uploads = {},
                                         !.threads = {}]}
    BY <1>7 DEF DropRunDirectory, Drop
  <2> QED
    BY <2>1
<1>8. CASE DropLogs(w)
  <2>1. world' \in {world, [world EXCEPT !.logDir = None]}
    BY <1>8 DEF DropLogs, Drop
  <2> QED
    BY <2>1
<1>9. CASE WriteArtifacts(w)
  <2>1. world' \in {world, [world EXCEPT !.results = TRUE]}
    BY <1>9 DEF WriteArtifacts
  <2> QED
    BY <2>1
<1> QED
  BY <1>1, <1>2, <1>3, <1>4, <1>5, <1>6, <1>7, <1>8, <1>9
     DEF PrepareStep, BeginPreparation, InspectTargets, VerifySearchPath, StartApi,
         WaitApiReady, RunRetrieval, BuildDataset, TeardownStep, StopApi, ShutdownLogging,
         CleanupRetrieval, DisposeRuntime, VerifyCleanup, Reading

\* While a retrieval is before the removal of its database, that database is the
\* one of the preparer that waits for it.
AtHome ==
    run.pc \in PreChroma /\ (\E w \in Preparer : prep[w].pc # "absent") => world.database # None

LEMMA WaitedFor == PrepInv => AtHome
<1> SUFFICES ASSUME PrepInv, NEW w \in Preparer, prep[w].pc # "absent", run.pc \in PreChroma
             PROVE  world.database # None
  BY DEF AtHome
<1>1. PICK v \in Preparer : prep[v].pc = "retrieving"
  BY DEF PrepInv, RetrievalInv, PreChroma, Ended
<1>2. Shaped(prep[v])
  BY DEF PrepInv, PrepShape
<1>3. "database" \in prep[v].made /\ "runDir" \in prep[v].made /\ prep[v].pc \notin AfterDatabase
  BY <1>1, <1>2 DEF Shaped, HoldsSchema, HoldsDatabase, HoldsDirectory, AfterDatabase, AfterSchema
<1>4. \A u \in Preparer : prep[u].asked => u = v
  BY <1>3 DEF PrepInv, PrepShape, Shaped, DirectoryInv
<1>5. world.database = v
  BY <1>1, <1>3, <1>4 DEF PrepInv, DatabaseInv
<1> QED
  BY <1>5, OwnerFacts

LEMMA IsolatedPreparer ==
    ASSUME Prepared, IsolatedInv, LoginInv, NEW w \in Preparer, PrepareStep(w) \/ TeardownStep(w)
    PROVE  IsolatedInv' /\ LoginInv'
<1>1. /\ run.kind = "retrieval" /\ run'.kind = "retrieval"
      /\ run' = run \/ (run' = NewRun("retrieval", "aggregate") /\ run.pc = "idle"
                        /\ world' = world)
  BY RetrievalOnly
<1>2. TypeOK /\ PrepInv' /\ Shapes
  BY PreparedNext DEF Prepared, Based, Next, PrepInv, Shapes
<1>3. /\ world'.vectors \subseteq world.vectors
      /\ world'.uploads \subseteq world.uploads /\ world'.threads \subseteq world.threads
      /\ world'.login => world.login
      /\ world'.local = world.local \/ (world'.uploads = {} /\ world'.threads = {})
      /\ world'.database = None => world.database = None \/ world'.vectors = {}
  BY <1>2, PreparerEffects
<1>4. Isolated /\ Isolated'
  BY <1>1 DEF Isolated
<1>5. IsolatedInv'
  <2>1. prep'[w].pc # "absent"
    BY <1>2, PreparerStep DEF Steady
  <2>2. PrepInv' => AtHome'
    BY WaitedFor, PTL
  <2>3. run'.pc \in PreChroma => world'.database # None
    BY <1>2, <2>1, <2>2 DEF AtHome
  <2> QED
    BY <1>1, <1>3, <1>4, <2>3 DEF IsolatedInv
<1>6. LoginInv'
  <2>1. CASE run' = run
    BY <1>3, <1>4, <2>1 DEF LoginInv
  <2>2. CASE run' = NewRun("retrieval", "aggregate") /\ run.pc = "idle" /\ world' = world
    <3>1. ~world'.login /\ run'.pc = "start"
      BY <1>4, <2>2 DEF LoginInv, NewRun
    <3> QED
      BY <3>1 DEF LoginInv
  <2> QED
    BY <1>1, <2>1, <2>2
<1> QED
  BY <1>5, <1>6

LEMMA IsolatedNext == Prepared /\ IsolatedInv /\ LoginInv /\ Next => IsolatedInv' /\ LoginInv'
<1>1. Prepared => RunTypes /\ RunShape
  BY DEF Prepared, Based, TypeOK, RunTypes
<1> QED
  BY <1>1, IsolatedSeed, IsolatedCleanup, IsolatedSample, IsolatedPreparer DEF Next

-----------------------------------------------------------------------------
(***************************************************************************)
(* What a calibration leaves.                                               *)
(***************************************************************************)
LEMMA CalibrationInit == Init => CalibrationInv
<1> SUFFICES ASSUME Init, run.kind = "calibration" PROVE CalibrationInv
  BY DEF CalibrationInv
<1>1. PICK kind \in Kind, left \in SUBSET SeedDoc : \E phase \in Phases[kind] :
             /\ run = NewRun(kind, phase)
             /\ world = [Untouched(Operator) EXCEPT
                            !.vectors = IF kind = "calibration" THEN {} ELSE left]
  BY DEF Init, NewRun
<1>2. run.pc = "start" /\ kind = "calibration"
  BY <1>1 DEF NewRun
<1>3. world.threads = {} /\ world.vectors = {} /\ world.uploads = {} /\ world.documents = {}
  BY <1>1, <1>2 DEF Untouched
<1> QED
  BY <1>2, <1>3 DEF CalibrationInv

LEMMA CalibrationSeed ==
    ASSUME RunTypes, RunShape, CalibrationInv, run.kind = "calibration", SeedStep
    PROVE  CalibrationInv'
<1> USE DEF RunTypes, CalibrationInv
<1>0. Fail.pc = "discard" /\ Fail.listed = run.listed /\ Fail.failed = run.failed
  BY DEF Fail, Run
<1>1. CASE AssertEmpty \/ RankQueries \/ DiagnoseRetrieval \/ ProbeGraph \/ CompareFusions \/ AskLegacy
  BY <1>1 DEF AssertEmpty, RankQueries, DiagnoseRetrieval, ProbeGraph, CompareFusions, AskLegacy,
              RunShape
<1>2. CASE BeginCalibration
  BY <1>2 DEF BeginCalibration, Run, Refused
<1>3. CASE RegisterPrincipal
  <2> DEFINE once == RememberedAtOnce
  <2>1. /\ world' \in {world, [world EXCEPT !.user = TRUE]}
        /\ run' \in {Fail, [run EXCEPT !.pc = "login", !.user = once]}
    BY <1>3 DEF RegisterPrincipal, Attempt
  <2> HIDE DEF once
  <2> QED
    BY <1>0, <2>1 DEF Run, World
<1>4. CASE LoginPrincipal
  <2>1. /\ world' \in {world, [world EXCEPT !.login = TRUE]}
        /\ run' \in {Fail, [run EXCEPT !.pc = "projects", !.user = TRUE, !.token = TRUE]}
    BY <1>4 DEF LoginPrincipal, Attempt
  <2> QED
    BY <1>0, <2>1 DEF Run, World
<1>5. CASE SeedProjects
  <2>1. PICK p \in SeedProject \ run.listed :
          Attempt([world EXCEPT !.projects = @ \cup {p}, !.bases = @ \cup {p}],
                  [run EXCEPT !.listed = @ \cup {p},
                      !.pc = IF run.listed \cup {p} = SeedProject THEN "upload" ELSE "projects"],
                  Fail)
    BY <1>5 DEF SeedProjects
  <2>2. /\ world'.threads = world.threads /\ world'.vectors = world.vectors
        /\ world'.uploads = world.uploads /\ world'.documents = world.documents
    BY <2>1 DEF Attempt, World
  <2>3. CASE run' = Fail
    BY <1>0, <2>2, <2>3
  <2>4. CASE run' = [run EXCEPT !.listed = @ \cup {p},
                      !.pc = IF run.listed \cup {p} = SeedProject THEN "upload" ELSE "projects"]
    <3>1. run'.pc = (IF run.listed \cup {p} = SeedProject THEN "upload" ELSE "projects")
          /\ run'.listed = run.listed \cup {p}
      BY <2>4 DEF Run
    <3>2. run.listed = SeedProject => run'.listed = SeedProject
      BY <2>1, <3>1
    <3> QED
      BY <2>2, <3>1, <3>2
  <2> QED
    BY <2>1, <2>3, <2>4 DEF Attempt
<1>6. CASE SeedUpload
  <2>1. PICK d \in SeedDoc :
          Attempt([world EXCEPT !.documents = @ \cup {d}, !.uploads = @ \cup {d},
                                !.local = TRUE],
                  [run EXCEPT !.seeded = @ \cup {d}, !.doc = d, !.pc = "confirm"], Fail)
    BY <1>6 DEF SeedUpload
  <2>2. run.pc = "upload" /\ run.listed = SeedProject
    BY <1>6 DEF SeedUpload
  <2>3. CASE world' = world /\ run' = Fail
    BY <1>0, <2>3
  <2>4. CASE /\ world' = [world EXCEPT !.documents = @ \cup {d}, !.uploads = @ \cup {d},
                                       !.local = TRUE]
             /\ run' = Fail
    BY <1>0, <2>2, <2>4 DEF World
  <2>5. CASE /\ world' = [world EXCEPT !.documents = @ \cup {d}, !.uploads = @ \cup {d},
                                       !.local = TRUE]
             /\ run' = [run EXCEPT !.seeded = @ \cup {d}, !.doc = d, !.pc = "confirm"]
    BY <2>2, <2>5 DEF World, Run
  <2> QED
    BY <2>1, <2>3, <2>4, <2>5 DEF Attempt
<1>7. CASE SeedConfirm
  <2>1. run.pc = "confirm" /\ run.listed = SeedProject /\ run.doc \in world.documents
    BY <1>7 DEF SeedConfirm
  <2>2. /\ world' \in {world, [world EXCEPT !.vectors = @ \cup {run.doc}]}
        /\ run' = Fail \/ \E pc \in {"use", "upload"} : run' = [run EXCEPT !.doc = None, !.pc = pc]
    BY <1>7 DEF SeedConfirm, Attempt
  <2>3. /\ world'.threads = world.threads /\ world'.uploads = world.uploads
        /\ world'.documents = world.documents
        /\ world'.vectors \subseteq world.vectors \cup {run.doc}
    BY <2>2 DEF World
  <2>4. run'.listed = SeedProject /\ run'.pc \in {"discard", "use", "upload"}
    BY <1>0, <2>1, <2>2 DEF Run
  <2> QED
    BY <2>1, <2>3, <2>4
<1>8. CASE CollectOutcomes
  <2>1. \/ run' = Fail
        \/ \E pc \in {"result", "capture"} : run' = [run EXCEPT !.pc = pc]
    BY <1>8 DEF CollectOutcomes, Look
  <2>2. run.pc = "use" /\ world' = world
    BY <1>8 DEF CollectOutcomes, Look
  <2> QED
    BY <1>0, <2>1, <2>2 DEF Run
<1>9. CASE WriteCapture
  BY <1>0, <1>9 DEF WriteCapture, Run
<1>10. CASE WriteResult
  <2>1. /\ world' = world /\ run.pc = "result"
        /\ \/ run' = Fail
           \/ run' = [Cleaning EXCEPT !.pc = IF run.user THEN "documents" ELSE "close"]
    BY <1>10 DEF WriteResult
  <2>2. CASE run' = [Cleaning EXCEPT !.pc = IF run.user THEN "documents" ELSE "close"]
    <3>1. /\ run'.listed = run.listed
          /\ run'.pc = "documents" \/ (run'.pc = "close" /\ ~run'.user)
      BY <2>2 DEF Cleaning, Run
    <3> QED
      BY <2>1, <3>1
  <2> QED
    BY <1>0, <2>1, <2>2
<1> QED
  BY <1>1, <1>2, <1>3, <1>4, <1>5, <1>6, <1>7, <1>8, <1>9, <1>10 DEF SeedStep

LEMMA CalibrationCleanup ==
    ASSUME RunTypes, RunShape, CalibrationInv, run.kind = "calibration", CleanupStep
    PROVE  CalibrationInv'
<1> USE DEF RunTypes, CalibrationInv
<1>0. /\ run'.kind = "calibration" /\ run'.listed = run.listed /\ run'.user = run.user
      /\ run'.failed = {} => run.failed = {}
  BY CleanupRun DEF SameRun
<1>1. CASE DiscardCapture
  <2>1. world' = world /\ (run'.pc = "documents" \/ (run'.pc = "close" /\ ~run'.user))
    BY <1>1 DEF DiscardCapture, Run
  <2> QED
    BY <1>0, <2>1
<1>2. CASE DeleteSeeded
  <2>1. PICK d \in run.todo :
          LET done == [run EXCEPT !.todo = @ \ {d}]
          IN \/ /\ Sound /\ run' = done
                /\ world' = [world EXCEPT !.vectors = @ \ {d}, !.uploads = @ \ {d},
                                          !.documents = @ \ {d}]
             \/ Fault /\ world' \in PartlyDeleted(d) /\ Unanswered(done, "document")
    BY <1>2 DEF DeleteSeeded
  <2>2. /\ world'.threads = {} /\ world'.documents \subseteq world.documents
        /\ world'.vectors \subseteq world'.documents /\ world'.uploads \subseteq world'.documents
    <3>1. \/ /\ world' \in {world, [world EXCEPT !.vectors = @ \ {d}],
                           [world EXCEPT !.vectors = @ \ {d}, !.uploads = @ \ {d}]}
          \/ world' = [world EXCEPT !.vectors = @ \ {d}, !.uploads = @ \ {d},
                                    !.documents = @ \ {d}]
      BY <2>1 DEF PartlyDeleted
    <3>2. CASE world' \in {world, [world EXCEPT !.vectors = @ \ {d}],
                           [world EXCEPT !.vectors = @ \ {d}, !.uploads = @ \ {d}]}
      <4> DEFINE one == [world EXCEPT !.vectors = @ \ {d}]
                 two == [world EXCEPT !.vectors = @ \ {d}, !.uploads = @ \ {d}]
      <4>1. one.threads = world.threads /\ one.documents = world.documents
            /\ one.vectors = world.vectors \ {d} /\ one.uploads = world.uploads
        BY DEF World
      <4>2. two.threads = world.threads /\ two.documents = world.documents
            /\ two.vectors = world.vectors \ {d} /\ two.uploads = world.uploads \ {d}
        BY DEF World
      <4> HIDE DEF one, two
      <4>3. world' \in {world, one, two}
        BY <3>2 DEF one, two
      <4> QED
        BY <4>1, <4>2, <4>3
    <3>3. CASE world' = [world EXCEPT !.vectors = @ \ {d}, !.uploads = @ \ {d},
                                      !.documents = @ \ {d}]
      <4>1. /\ world'.threads = world.threads /\ world'.documents = world.documents \ {d}
            /\ world'.vectors = world.vectors \ {d} /\ world'.uploads = world.uploads \ {d}
        BY <3>3 DEF World
      <4> QED
        BY <4>1
    <3> QED
      BY <3>1, <3>2, <3>3
  <2>3. LET done == [run EXCEPT !.todo = @ \ {d}]
        IN run' = done \/ run' = [done EXCEPT !.failed = Noted("document")]
           \/ Unanswered(done, "document")
    BY <2>1
  <2>4. run.pc = "documents" /\ run'.pc \in {"documents", "close"}
        /\ (run'.pc = "close" => run'.failed # {})
    BY <1>2, <2>3, ScopeRun DEF DeleteSeeded, Step
  <2> QED
    BY <1>0, <2>2, <2>4
<1>3. CASE TurnToProjects
  <2>1. world' = world /\ run' = [run EXCEPT !.pc = "removal", !.todo = run.listed]
    BY <1>3 DEF TurnToProjects
  <2>2. run'.pc = "removal" /\ run'.todo = run.listed
    BY <2>1 DEF Run
  <2>3. \A d \in world.documents : Home[d] \in SeedProject
    BY HomeAssumption DEF World
  <2> QED
    BY <1>0, <2>1, <2>2, <2>3
<1>4. CASE RemoveSeededProject
  <2>1. PICK p \in run.todo :
          LET done == [run EXCEPT !.todo = @ \ {p}]
              gone == [world EXCEPT !.projects = @ \ {p}, !.threads = @ \ {p}]
          IN IF \E d \in world.documents : Home[d] = p
             THEN Sound /\ UNCHANGED world /\ run' = [done EXCEPT !.failed = Noted("project")]
             ELSE \/ Sound /\ world' = gone /\ run' = done
                  \/ Fault /\ world' \in {world, gone} /\ Unanswered(done, "project")
    BY <1>4 DEF RemoveSeededProject
  <2>2. world' \in {world, [world EXCEPT !.projects = @ \ {p}, !.threads = @ \ {p}]}
    BY <2>1
  <2>3. /\ world'.vectors = world.vectors /\ world'.uploads = world.uploads
        /\ world'.threads = {} /\ world'.documents = world.documents
    <3>1. [world EXCEPT !.projects = @ \ {p}, !.threads = @ \ {p}].threads = {}
      BY DEF World
    <3> QED
      BY <2>2, <3>1 DEF World
  <2>4. LET done == [run EXCEPT !.todo = @ \ {p}]
        IN run' = done \/ run' = [done EXCEPT !.failed = Noted("project")]
           \/ Unanswered(done, "project")
    BY <2>1
  <2>5. run.pc = "removal" /\ run'.pc \in {"removal", "close"}
        /\ (run'.pc = "close" => run'.failed # {})
        /\ (run'.pc = "removal" => run'.todo = run.todo \ {p})
    BY <1>4, <2>4, ScopeRun DEF RemoveSeededProject, Step
  <2>6. run'.failed = {} => ~ \E d \in world.documents : Home[d] = p
    <3>1. CASE \E d \in world.documents : Home[d] = p
      <4>1. run' = [[run EXCEPT !.todo = @ \ {p}] EXCEPT !.failed = Noted("project")]
        BY <2>1, <3>1
      <4>2. "project" \in run'.failed
        BY <4>1 DEF Run, Noted
      <4> QED
        BY <4>2
    <3> QED
      BY <3>1
  <2> QED
    BY <1>0, <2>3, <2>5, <2>6
<1>5. CASE LogOut
  <2> DEFINE done == [run EXCEPT !.pc = "purge"]
             again == [done EXCEPT !.failed = Noted("logout")]
             scope == [run EXCEPT !.failed = Noted("scope"), !.pc = "close"]
  <2>1. /\ world' = world /\ run.pc = "removal" /\ run.todo = {}
        /\ run' \in {done, again, scope}
    BY <1>5 DEF LogOut, Unanswered
  <2>2. done.pc = "purge" /\ again.pc = "purge" /\ scope.pc = "close" /\ scope.failed # {}
    BY DEF Run, Noted
  <2> HIDE DEF done, again, scope
  <2> QED
    BY <1>0, <2>1, <2>2
<1>6. CASE PurgePrincipal
  <2> DEFINE purged == [world EXCEPT !.user = FALSE, !.login = FALSE, !.bases = {}]
             done == [run EXCEPT !.pc = "close"]
             unpurged == [done EXCEPT !.failed = Noted("principal")]
  <2>1. /\ run.pc = "purge"
        /\ \/ world' = purged /\ world.projects = {} /\ run' = done
           \/ world' = world /\ run' = unpurged
    BY <1>6 DEF PurgePrincipal
  <2>2. done.pc = "close" /\ unpurged.pc = "close" /\ unpurged.failed # {}
    BY DEF Run, Noted
  <2>3. /\ purged.threads = world.threads /\ purged.vectors = world.vectors
        /\ purged.uploads = world.uploads /\ purged.documents = world.documents
        /\ purged.projects = world.projects /\ purged.bases = {} /\ ~purged.user /\ ~purged.login
    BY DEF World
  <2> HIDE DEF purged, done, unpurged
  <2>4. CASE world' = purged /\ world.projects = {} /\ run' = done
    <3>1. run'.failed = {} => world.documents = {}
      BY <1>0, <2>1
    <3>2. run'.failed = {} => ~HasData(world')
      BY <2>3, <2>4, <3>1 DEF HasData, HasRows
    <3> QED
      BY <1>0, <2>1, <2>2, <2>3, <2>4, <3>2 DEF HasData, HasRows
  <2>5. CASE world' = world /\ run' = unpurged
    BY <1>0, <2>1, <2>2, <2>5
  <2> QED
    BY <2>1, <2>4, <2>5
<1>7. CASE CloseApi
  <2>1. world' = world /\ run'.pc = "over"
    BY <1>7 DEF CloseApi, Run
  <2> QED
    BY <1>0, <2>1
<1>8. CASE DeleteIsolatedChroma \/ RemoveLocalTargets \/ VerifyZero
  BY <1>8 DEF DeleteIsolatedChroma, RemoveLocalTargets, VerifyZero, RunShape, Isolated
<1> QED
  BY <1>1, <1>2, <1>3, <1>4, <1>5, <1>6, <1>7, <1>8 DEF CleanupStep

LEMMA CalibrationNext == Prepared /\ CalibrationInv /\ Next => CalibrationInv'
<1> SUFFICES ASSUME Prepared, CalibrationInv, Next, run'.kind = "calibration"
             PROVE  CalibrationInv'
  BY DEF CalibrationInv
<1>1. run.kind = "calibration" /\ (SeedStep \/ CleanupStep)
  BY KindOfStep DEF Contained
<1>2. RunTypes /\ RunShape
  BY DEF Prepared, Based, TypeOK, RunTypes
<1> QED
  BY <1>1, <1>2, CalibrationSeed, CalibrationCleanup

-----------------------------------------------------------------------------
(***************************************************************************)
(* What is reported of a run.                                               *)
(***************************************************************************)
\* No run is over while it is still seeding, and an answer run gets past its
\* batch only by completing it or by failing.
LEMMA SeedGoesOn ==
    ASSUME RunTypes, RunShape, SeedStep
    PROVE  /\ run'.pc \notin {"report", "over"}
           /\ run.kind = "answers" => run'.primary \/ run'.pc \in Forward
<1> USE DEF RunTypes, Forward
<1>0. /\ Fail.primary /\ Fail.pc \in {"discard", "documents", "close"}
      /\ Refused.primary /\ Refused.pc = "refused"
  BY DEF Fail, Refused, Run
<1>1. CASE AssertEmpty \/ BeginCalibration
  BY <1>0, <1>1 DEF AssertEmpty, BeginCalibration, Run
<1>2. CASE RegisterPrincipal
  <2> DEFINE once == RememberedAtOnce
  <2>1. run' \in {Fail, [run EXCEPT !.pc = "login", !.user = once]}
    BY <1>2 DEF RegisterPrincipal, Attempt
  <2> HIDE DEF once
  <2> QED
    BY <1>0, <2>1 DEF Run
<1>3. CASE LoginPrincipal
  BY <1>0, <1>3 DEF LoginPrincipal, Attempt, Run
<1>4. CASE SeedProjects
  <2>1. \E p \in SeedProject, pc \in {"upload", "projects"} :
           run' \in {Fail, [run EXCEPT !.listed = @ \cup {p}, !.pc = pc]}
    BY <1>4 DEF SeedProjects, Attempt
  <2> QED
    BY <1>0, <2>1 DEF Run
<1>5. CASE SeedUpload
  BY <1>0, <1>5 DEF SeedUpload, Attempt, Run
<1>6. CASE SeedConfirm
  <2>1. \E pc \in {"use", "upload"} : run' \in {Fail, [run EXCEPT !.doc = None, !.pc = pc]}
    BY <1>6 DEF SeedConfirm, Attempt
  <2> QED
    BY <1>0, <2>1 DEF Run
<1>7. CASE CollectOutcomes
  <2>1. \E pc \in {"result", "capture"} : run' \in {Fail, [run EXCEPT !.pc = pc]}
    BY <1>7 DEF CollectOutcomes, Look
  <2> QED
    BY <1>0, <1>7, <2>1 DEF CollectOutcomes, Run
<1>8. CASE RankQueries \/ DiagnoseRetrieval
  BY <1>0, <1>8 DEF RankQueries, DiagnoseRetrieval, Look, Run
<1>9. CASE ProbeGraph \/ CompareFusions \/ AskLegacy
  <2>1. run.kind # "answers" /\ run' \in {Fail, Cleaning}
    BY <1>9 DEF ProbeGraph, CompareFusions, AskLegacy, Look, RunShape
  <2>2. Cleaning.pc = "documents"
    BY DEF Cleaning, Run
  <2> QED
    BY <1>0, <2>1, <2>2
<1>10. CASE WriteCapture
  BY <1>0, <1>10 DEF WriteCapture, Run
<1>11. CASE WriteResult
  <2>1. /\ run.kind # "answers"
        /\ \E pc \in {"documents", "close"} : run' \in {Fail, [Cleaning EXCEPT !.pc = pc]}
    BY <1>11 DEF WriteResult, RunShape
  <2>2. \A pc \in {"documents", "close"} : [Cleaning EXCEPT !.pc = pc].pc = pc
    BY DEF Cleaning, Run
  <2> QED
    BY <1>0, <2>1, <2>2
<1> QED
  BY <1>1, <1>2, <1>3, <1>4, <1>5, <1>6, <1>7, <1>8, <1>9, <1>10, <1>11 DEF SeedStep

\* The check after the cleanup finds whatever would be left.
LEMMA CheckFinds ==
    ASSUME RunTypes, RunShape, IsolatedInv, VerifyZero
    PROVE  /\ world' = world /\ run.kind # "calibration" /\ run'.kind = run.kind
           /\ run'.failed = {} => ~Residue'
<1>1. /\ world' = world /\ run.kind # "calibration" /\ run'.kind = run.kind
  BY CleanupRun DEF VerifyZero, RunShape, SameRun, CleanupStep
<1>2. ~Left => ~Residue
  BY DEF Left, Residue, IsolatedInv, HasData
<1>3. run'.failed = {} => ~Left
  <2> DEFINE over == [run EXCEPT !.pc = IF run.kind = "answers" THEN "report" ELSE "over"]
  <2>1. Left => run' = [over EXCEPT !.failed = Noted("verify")]
    BY DEF VerifyZero
  <2>2. "verify" \in [over EXCEPT !.failed = Noted("verify")].failed
    BY DEF RunTypes, Run, Noted
  <2> QED
    BY <2>1, <2>2
<1>4. Residue' <=> Residue
  BY <1>1 DEF Residue, Isolated
<1> QED
  BY <1>1, <1>2, <1>3, <1>4

LEMMA ReportInit == Init => ReportInv
<1> SUFFICES ASSUME Init PROVE ReportInv
  OBVIOUS
<1>1. ~report.verified /\ report.status = "none"
  BY DEF Init, NoReport
<1>2. run.pc \in {"start", "idle"}
  BY DEF Init, NewRun
<1> QED
  BY <1>1, <1>2 DEF ReportInv, ReportIsTrue, Forward

LEMMA ReportSeed ==
    ASSUME RunTypes, RunShape, ReportInv, SeedStep, UNCHANGED <<batch, report>>
    PROVE  ReportInv'
<1>1. Contained
  BY SeedContained
<1>2. ~report.verified /\ report.status # "completed"
  BY <1>1 DEF ReportInv, Contained, Ended
<1> QED
  BY <1>1, <1>2, SeedGoesOn DEF ReportInv, ReportIsTrue, Contained

LEMMA ReportCleanup ==
    ASSUME RunTypes, RunShape, IsolatedInv, ReportInv, CleanupStep, UNCHANGED <<batch, report>>
    PROVE  ReportInv'
<1>1. Contained /\ SameRun /\ CleanupTurn
  BY CleanupContained, CleanupRun
<1>2. ~report.verified /\ report.status # "completed"
  BY <1>1 DEF ReportInv, Contained, Ended
<1>3. run.pc \notin Forward
  BY <1>1 DEF CleanupTurn, Turn, Forward
<1>4. run'.kind = "answers" /\ run'.failed = {} /\ run'.pc \in {"report", "over"} => ~Residue'
  <2> SUFFICES ASSUME run'.kind = "answers", run'.pc \in {"report", "over"}, run'.failed = {}
               PROVE  ~Residue'
    OBVIOUS
  <2>1. run.kind = "answers" /\ run.pc = "verify"
    BY <1>1 DEF CleanupTurn, Turn, SameRun
  <2>2. VerifyZero
    BY <2>1 DEF CleanupStep, DiscardCapture, DeleteSeeded, TurnToProjects, RemoveSeededProject,
                LogOut, PurgePrincipal, CloseApi, DeleteIsolatedChroma, RemoveLocalTargets
  <2> QED
    BY <2>2, CheckFinds
<1> QED
  BY <1>1, <1>2, <1>3, <1>4 DEF ReportInv, ReportIsTrue, SameRun

LEMMA ReportSample ==
    ASSUME RunTypes, RunShape, ReportInv, SampleStep, batch \in Batch
    PROVE  ReportInv'
<1>1. Contained /\ run.kind = "answers"
  BY SampleContained, SampleAnswers
<1>2. ~report.verified /\ report.status # "completed"
  BY <1>1 DEF ReportInv, Contained, Ended
<1>3. Fail.primary /\ Fail.pc = "discard" /\ Cleaning.pc = "documents"
      /\ Cleaning.primary = run.primary
  BY <1>1 DEF RunTypes, Run, Fail, Cleaning
<1>4. CASE OpenSample \/ AnswerDirectly \/ Decide \/ Judge
  <2>1. run' = run /\ report' = report /\ run.pc = "use"
    BY <1>4 DEF OpenSample, AnswerDirectly, Decide, Judge, InCall, Sampling
  <2> QED
    BY <1>2, <2>1 DEF ReportInv, ReportIsTrue, Forward
<1>5. CASE CloseSample \/ AbandonSample
  <2>1. /\ run' = Fail \/ (run' = run /\ run.pc = "use")
        /\ \/ report' = report
           \/ report' = [Progress("running") EXCEPT !.samples = @ + 1]
           \/ report' = [Progress("stopped") EXCEPT !.samples = @ + 1]
    BY <1>5 DEF CloseSample, AbandonSample, Sampling
  <2>2. ~report'.verified /\ report'.status # "completed"
    BY <1>2, <2>1 DEF Progress
  <2> QED
    BY <1>3, <2>1, <2>2 DEF ReportInv, ReportIsTrue, Forward
<1>6. CASE FinishBatch
  <2>1. run' = Cleaning /\ report' = report /\ batch' = batch /\ batch.done = Len(Plan)
    BY <1>6 DEF FinishBatch
  <2> QED
    BY <1>2, <1>3, <2>1 DEF ReportInv, ReportIsTrue
<1>7. CASE RecordFailure
  <2>1. /\ run.primary /\ (\E pc \in {"documents", "close"} : run' = [run EXCEPT !.pc = pc])
        /\ report' \in {report, Progress("failed")}
    BY <1>7 DEF RecordFailure, RunShape
  <2>2. run'.primary /\ run'.pc \in {"documents", "close"}
    BY <2>1 DEF RunTypes, Run
  <2>3. ~report'.verified /\ report'.status # "completed"
    BY <1>2, <2>1 DEF Progress
  <2> QED
    BY <2>2, <2>3 DEF ReportInv, ReportIsTrue
<1>8. CASE FinalReport
  <2> DEFINE clean == run.failed = {}
             final == [Progress(FinalStatus) EXCEPT !.verified = clean]
  <2>1. /\ run.pc = "report" /\ world' = world /\ batch' = batch
        /\ run' = [run EXCEPT !.pc = "over"] /\ report' \in {report, final}
    BY <1>8 DEF FinalReport
  <2>2. /\ final.verified = clean /\ final.status = FinalStatus
        /\ final.samples = batch.done
    BY DEF Progress
  <2>3. /\ run'.pc = "over" /\ run'.kind = run.kind /\ run'.failed = run.failed
        /\ run'.primary = run.primary
    BY <2>1 DEF RunTypes, Run
  <2>4. FinalStatus = "completed" => ~run.primary /\ clean
    BY DEF FinalStatus
  <2>5. ~run.primary => batch.done = Len(Plan)
    BY <1>1, <2>1 DEF ReportInv, Forward
  <2>6. clean => ~Residue
    BY <1>1, <2>1 DEF ReportInv
  <2>7. Residue' <=> Residue
    BY <2>1, <2>3 DEF Residue, Isolated
  <2> HIDE DEF final
  <2>8. CASE report' = report
    BY <1>2, <2>1, <2>3, <2>5, <2>6, <2>7, <2>8 DEF ReportInv, ReportIsTrue
  <2>9. CASE report' = final
    BY <1>1, <2>1, <2>2, <2>3, <2>4, <2>5, <2>6, <2>7, <2>9 DEF ReportInv, ReportIsTrue
  <2> QED
    BY <2>1, <2>8, <2>9
<1> QED
  BY <1>4, <1>5, <1>6, <1>7, <1>8 DEF SampleStep

LEMMA ReportNext == Prepared /\ IsolatedInv /\ ReportInv /\ Next => ReportInv'
<1> SUFFICES ASSUME Prepared, IsolatedInv, ReportInv, Next PROVE ReportInv'
  OBVIOUS
<1>1. RunTypes /\ RunShape /\ batch \in Batch
  BY DEF Prepared, Based, TypeOK, RunTypes
<1>2. CASE (SeedStep \/ CleanupStep) /\ UNCHANGED <<batch, report, prep>>
  BY <1>1, <1>2, ReportSeed, ReportCleanup
<1>3. CASE SampleStep
  BY <1>1, <1>3, ReportSample
<1>4. ASSUME NEW w \in Preparer, PrepareStep(w) \/ TeardownStep(w) PROVE ReportInv'
  <2>1. run.kind = "retrieval" /\ run'.kind = "retrieval"
    BY <1>4, RetrievalOnly
  <2>2. report' = report
    BY <1>4 DEF PrepareStep, BeginPreparation, InspectTargets, CreateSchema, VerifySearchPath,
         CreateDatabase, CreateRunDirectory, ConfigureRuntime, StartApi, WaitApiReady,
         RunRetrieval, BuildDataset, TeardownStep, StopApi, ShutdownLogging,
         CleanupRetrieval, DisposeRuntime, DropSchema, DropDatabase, DropRunDirectory,
         DropLogs, VerifyCleanup, WriteArtifacts, Reading, Alone, Around
  <2> QED
    BY <2>1, <2>2 DEF ReportInv, ReportIsTrue
<1> QED
  BY <1>2, <1>3, <1>4 DEF Next

\* All that is known of the stores and of what is said about them.
Accounted == Prepared /\ IsolatedInv /\ LoginInv /\ CalibrationInv /\ ReportInv

LEMMA AccountedInit == Init => Accounted
BY PreparedInit, IsolatedInit, CalibrationInit, ReportInit DEF Accounted

LEMMA AccountedNext == Accounted /\ [Next]_tools => Accounted'
<1> SUFFICES ASSUME Accounted, [Next]_tools PROVE Accounted'
  OBVIOUS
<1>1. CASE Next
  BY <1>1, PreparedNext, IsolatedNext, CalibrationNext, ReportNext DEF Accounted
<1>2. CASE UNCHANGED tools
  <2>1. Prepared'
    BY PreparedNext DEF Accounted
  <2>2. IsolatedInv' /\ LoginInv'
    BY <1>2 DEF Accounted, tools, IsolatedInv, LoginInv, Isolated
  <2>3. CalibrationInv'
    BY <1>2 DEF Accounted, tools, CalibrationInv
  <2>4. ReportInv'
    BY <1>2 DEF Accounted, tools, ReportInv, ReportIsTrue, Residue, Isolated
  <2> QED
    BY <2>1, <2>2, <2>3, <2>4 DEF Accounted
<1> QED
  BY <1>1, <1>2

\* The result file of the answer run never calls a batch completed that was cut
\* short or left something, nor a cleanup verified that was not
\* (write_batch_result and the finally block of run_acceptance in
\* scripts/archive_world_bank_answer_acceptance.py).
THEOREM ReportHolds == Spec => []ReportIsTrue
<1>1. Accounted => ReportIsTrue
  BY DEF Accounted, ReportInv
<1> QED
  BY <1>1, AccountedInit, AccountedNext, PTL DEF Spec

\* No run that ends without a cleanup error has left anything, and nobody's
\* login outlives an isolated run without a word.
THEOREM NothingIsHidden == Spec => ResidueIsReported
<1> DEFINE Told == run'.pc = "over" /\ run.pc # "over" =>
          /\ Residue' /\ run'.failed = {} => run.kind = "calibration" /\ ~run.user
          /\ Isolated /\ world'.login => run'.failed \cap {"scope", "principal"} # {}
<1>1. Accounted /\ [Next]_tools => [Told]_tools
  <2> SUFFICES ASSUME Accounted, Next, run'.pc = "over", run.pc # "over"
               PROVE  /\ Residue' /\ run'.failed = {} => run.kind = "calibration" /\ ~run.user
                      /\ Isolated /\ world'.login =>
                            run'.failed \cap {"scope", "principal"} # {}
    OBVIOUS
  <2>1. RunTypes /\ RunShape /\ Prepared /\ LoginInv'
    BY AccountedNext DEF Accounted, Prepared, Based, TypeOK, RunTypes
  <2>2. ~ \E w \in Preparer : PrepareStep(w) \/ TeardownStep(w)
    BY <2>1, RetrievalOnly DEF NewRun
  <2>3. CleanupStep \/ SampleStep
    BY <2>1, <2>2, SeedGoesOn DEF Next
  <2>4. run'.kind = run.kind
    BY <2>1, <2>3, CleanupContained, SampleContained DEF Contained
  <2>5. Isolated /\ world'.login => run'.failed \cap {"scope", "principal"} # {}
    BY <2>1, <2>4 DEF LoginInv, Isolated
  <2>6. ASSUME Residue', run'.failed = {} PROVE run.kind = "calibration" /\ ~run.user
    <3>1. CASE SampleStep
      <4>1. run.kind = "answers" /\ ReportInv'
        BY <2>1, <3>1, SampleAnswers, AccountedNext DEF Accounted
      <4> QED
        BY <2>4, <2>6, <4>1 DEF ReportInv
    <3>2. CASE CleanupStep
      <4>1. run.pc = "verify" \/ (run.kind = "calibration" /\ run.pc = "close")
        BY <2>1, <3>2, CleanupRun DEF CleanupTurn, Turn
      <4>2. VerifyZero \/ (CloseApi /\ run.kind = "calibration")
        BY <3>2, <4>1 DEF CleanupStep, DiscardCapture, DeleteSeeded, TurnToProjects,
             RemoveSeededProject, LogOut, PurgePrincipal, CloseApi, DeleteIsolatedChroma,
             RemoveLocalTargets, VerifyZero
      <4>3. ~VerifyZero
        BY <2>1, <2>6, CheckFinds DEF Accounted
      <4>4. world' = world /\ run.failed = {} /\ run.kind = "calibration" /\ run.pc = "close"
        BY <2>1, <2>6, <3>2, <4>2, <4>3, CleanupRun DEF CloseApi
      <4>5. HasData(world)
        BY <2>4, <2>6, <4>4 DEF Residue, Isolated
      <4> QED
        BY <4>4, <4>5 DEF Accounted, CalibrationInv
    <3> QED
      BY <2>3, <3>1, <3>2
  <2> QED
    BY <2>5, <2>6
<1>2. ResidueIsReported <=> [][Told]_tools
  BY DEF ResidueIsReported
<1> HIDE DEF Told
<1> QED
  BY <1>1, <1>2, AccountedInit, AccountedNext, PTL DEF Spec
=============================================================================
