-------------------------- MODULE ProductInstance --------------------------
(***************************************************************************)
(* The standalone instance on one host, as its command line makes, stops   *)
(* and removes it: two state files under /tmp, the Compose volumes, the    *)
(* container that installs the wiki, and the release qualification that    *)
(* runs the commands one after the other for every backend.                *)
(*                                                                         *)
(* One command runs at a time; it may fail or be killed at any step, while *)
(* the containers go on.  Secrets are numbered in the order they are made; *)
(* a volume keeps those it was initialized with.                           *)
(***************************************************************************)
EXTENDS Integers, FiniteSets, Sequences

CONSTANTS ProductBackends,   \* JWB_BACKENDS, in their order
          MaxCommands        \* bound on commands outside the qualification

ASSUME ProductAssumption ==
    /\ ProductBackends \in Seq({"none", "virtuoso", "fuseki-tdb2", "oxigraph"})
    /\ MaxCommands \in Nat

VARIABLES files,      \* what is under /tmp; runtime 0 and profile "" are absent
          volumes,    \* volumes[v]: the secrets it was made with, and what is in it
          core,       \* the wikibase container: phase of its entrypoint, secrets it was given
          shell,      \* the command in progress
          qualifier,  \* jwb-release-qualify
          made,       \* how many secrets were made
          replaced,   \* volumes whose profile was replaced by another
          commands    \* how many commands the user ran

productVars == <<files, volumes, core, shell, qualifier, made, replaced, commands>>

Backends == {ProductBackends[i] : i \in DOMAIN ProductBackends}
NoFiles == [runtime |-> 0, profile |-> "", fixture |-> FALSE, difference |-> FALSE]
Down == [phase |-> "down", secrets |-> 0]

\* composeFiles(backend), as the volumes these files declare.
VolumesOf(backend) ==
    {"mariadb", "runtime-state"} \cup (IF backend = "none" THEN {} ELSE {"postgres", backend})

\* readRuntime and readProfile throw without their file.
StateReadable == files.runtime # 0 /\ files.profile # ""
StatePresent == files.runtime # 0 \/ files.profile # ""

ResourcesPresent == volumes # << >> \/ core # Down
Clean == ~ResourcesPresent /\ files = NoFiles

-----------------------------------------------------------------------------
\* The shell.

Idle == shell.pc = "idle"
ShellAt(command, pc) == shell.command = command /\ shell.pc = pc

Begin(command, pc, backend) ==
    shell' = [command |-> command, pc |-> pc, backend |-> backend, result |-> "running"]
Proceed(pc) == shell' = [shell EXCEPT !.pc = pc]
End(result) == shell' = [shell EXCEPT !.pc = "idle", !.result = result]
Ended(command, works) ==
    shell' = [command |-> command, pc |-> "idle", backend |-> "",
              result |-> IF works THEN "ok" ELSE "failed"]

\* create: two files, then compose up.  Secrets are new.
CreateInstance(backend) ==
    /\ IF StatePresent
       THEN Ended("create", FALSE) /\ UNCHANGED <<files, made>>
       ELSE /\ made' = made + 1
            /\ files' = [files EXCEPT !.runtime = made']
            /\ Begin("create", "profile", backend)
    /\ UNCHANGED <<volumes, core, replaced>>

WriteProfile ==
    /\ ShellAt("create", "profile")
    /\ files' = [files EXCEPT !.profile = shell.backend]
    /\ Proceed("up")
    /\ UNCHANGED <<volumes, core, made, replaced>>

\* start and the restarts are compose up with the files of the profile; those
\* that force a recreation replace the container.
UpCommand(command) ==
    /\ IF StateReadable THEN Begin(command, "up", files.profile) ELSE Ended(command, FALSE)
    /\ core' = IF StateReadable /\ command = "recreate-app" THEN Down ELSE core
    /\ UNCHANGED <<files, volumes, made, replaced>>

\* Volumes that are not there are made and initialized with the environment's
\* secrets; those that are there are kept.
ComposeUp ==
    /\ shell.pc = "up"
    /\ volumes' = [v \in DOMAIN volumes \cup VolumesOf(files.profile) |->
                     IF v \in DOMAIN volumes THEN volumes[v]
                     ELSE [secrets |-> files.runtime, filled |-> FALSE]]
    /\ core' = IF core.phase \in {"down", "failed"}
               THEN [phase |-> "starting", secrets |-> files.runtime] ELSE core
    /\ Proceed("wait")
    /\ UNCHANGED <<files, made, replaced>>

\* The stores of the query side take the passwords they were initialized with.
QueryReady == \A v \in VolumesOf(files.profile) \ {"mariadb", "runtime-state"} :
                  volumes[v].secrets = files.runtime

UpEnds ==
    /\ shell.pc = "wait"
    /\ core.phase \in {"up", "failed"}
    /\ End(IF core.phase = "up" /\ QueryReady THEN "ok" ELSE "failed")
    /\ UNCHANGED <<files, volumes, core, made, replaced>>

StopInstance ==
    /\ Ended("stop", StateReadable)
    /\ core' = IF StateReadable THEN Down ELSE core
    /\ UNCHANGED <<files, volumes, made, replaced>>

\* status, test, validate-*, promote: the state files are read and the instance asked.
CheckInstance ==
    /\ \E works \in {FALSE, StateReadable /\ core.phase = "up"} : Ended("check", works)
    /\ UNCHANGED <<files, volumes, core, made, replaced>>

\* jwb:fixture writes the manifest of what it made.
WriteFixture ==
    /\ LET works == files.runtime # 0 /\ core.phase = "up"
       IN  Ended("fixture", works) /\ files' = [files EXCEPT !.fixture = @ \/ works]
    /\ UNCHANGED <<volumes, core, made, replaced>>

\* A rebuild that finds a difference leaves a report of it.
RebuildInstance ==
    /\ LET works == StateReadable /\ files.profile # "none" /\ core.phase = "up"
       IN  \E equal \in BOOLEAN :
               /\ Ended("rebuild", works /\ equal)
               /\ files' = [files EXCEPT !.difference = @ \/ (works /\ ~equal)]
    /\ UNCHANGED <<volumes, core, made, replaced>>

\* Mutant: the files are removed before the volumes.
DestroyInstance_FilesFirst ==
    /\ IF StateReadable THEN Begin("destroy", "down", files.profile)
                        ELSE Ended("destroy", ~StatePresent)
    /\ files' = IF StateReadable THEN NoFiles ELSE files
    /\ UNCHANGED <<volumes, core, made, replaced>>

\* destroy: nothing to do without both files, an error without one of them.
DestroyInstance ==
    /\ IF StateReadable THEN Begin("destroy", "down", files.profile)
                        ELSE Ended("destroy", ~StatePresent)
    /\ UNCHANGED <<files, volumes, core, made, replaced>>

\* compose down --volumes: the containers, then the volumes these files declare.
RemoveContainers ==
    /\ ShellAt("destroy", "down")
    /\ core' = Down
    /\ Proceed("volumes")
    /\ UNCHANGED <<files, volumes, made, replaced>>

RemoveVolume ==
    /\ ShellAt("destroy", "volumes")
    /\ \E v \in VolumesOf(shell.backend) \cap DOMAIN volumes :
           /\ volumes' = [w \in DOMAIN volumes \ {v} |-> volumes[w]]
           /\ replaced' = replaced \ {v}
    /\ UNCHANGED <<files, core, shell, made>>

UnlinkFiles ==
    /\ shell.command = "destroy"
    /\ \/ /\ shell.pc = "volumes" /\ VolumesOf(shell.backend) \cap DOMAIN volumes = {}
          /\ files' = [files EXCEPT !.runtime = 0] /\ Proceed("profile")
       \/ shell.pc = "profile" /\ files' = [files EXCEPT !.profile = ""] /\ Proceed("fixture")
       \/ shell.pc = "fixture" /\ files' = [files EXCEPT !.fixture = FALSE] /\ End("ok")
    /\ UNCHANGED <<volumes, core, made, replaced>>

\* select overwrites the profile, whatever runs under the old one.
SelectProfile(backend) ==
    /\ files' = [files EXCEPT !.profile = backend]
    /\ replaced' = replaced \cup (DOMAIN volumes \ VolumesOf(backend))
    /\ Ended("select", TRUE)
    /\ UNCHANGED <<volumes, core, made>>

\* A step fails, or the command is killed.
CommandFails == ~Idle /\ End("failed") /\ UNCHANGED <<files, volumes, core, made, replaced>>

-----------------------------------------------------------------------------
\* entrypoint.sh of the wikibase container; it dies with it, never with the shell.

Installed == volumes["runtime-state"].filled

\* Sixty attempts to connect; then the marker is looked at.
ConnectDatabase ==
    /\ core.phase = "starting"
    /\ core' = [core EXCEPT !.phase =
                  CASE volumes["mariadb"].secrets # core.secrets -> "failed"
                    [] volumes["mariadb"].secrets = core.secrets /\ ~Installed -> "installing"
                    [] OTHER -> IF volumes["mariadb"].filled THEN "up" ELSE "failed"]
    /\ UNCHANGED <<files, volumes, shell, made, replaced>>

\* install.php under the lock, then the marker.
InstallWiki ==
    /\ core.phase = "installing"
    /\ volumes' = [volumes EXCEPT !["mariadb"].filled = TRUE]
    /\ core' = [core EXCEPT !.phase = "marking"]
    /\ UNCHANGED <<files, shell, made, replaced>>

MarkInstalled ==
    /\ core.phase = "marking"
    /\ volumes' = [volumes EXCEPT !["runtime-state"].filled = TRUE]
    /\ core' = [core EXCEPT !.phase = "up"]
    /\ UNCHANGED <<files, shell, made, replaced>>

-----------------------------------------------------------------------------
\* jwb-release-qualify: preflight, the commands of every profile, destroy in a
\* finally of each, and a cleanup at the end whatever happened before.

Steps(backend) ==
    IF backend = "none" THEN <<"create", "check", "stop", "start", "check">>
    ELSE <<"create", "check", "fixture", "check", "rebuild", "check", "stop", "start", "check">>

Qualifying(pc) == qualifier.pc = pc /\ Idle

Qualify ==
    /\ Idle /\ qualifier.pc = "never"
    /\ qualifier' = IF Clean THEN [pc |-> "profile", todo |-> ProductBackends, left |-> <<>>, failed |-> FALSE]
                    ELSE [pc |-> "cleanup", todo |-> <<>>, left |-> <<>>, failed |-> TRUE]
    /\ UNCHANGED <<files, volumes, core, shell, made, replaced>>

\* assertClean(before) of the next profile, or the classification.
NextProfile ==
    /\ Qualifying("profile")
    /\ qualifier' = CASE qualifier.todo = <<>> -> [qualifier EXCEPT !.pc = "cleanup"]
                      [] qualifier.todo # <<>> /\ Clean ->
                             [qualifier EXCEPT !.pc = "run", !.left = Steps(Head(qualifier.todo))]
                      [] OTHER -> [qualifier EXCEPT !.pc = "cleanup", !.failed = TRUE]
    /\ UNCHANGED <<files, volumes, core, shell, made, replaced>>

Perform(command) ==
    CASE command = "create"  -> CreateInstance(Head(qualifier.todo))
      [] command = "check"   -> CheckInstance
      [] command = "fixture" -> WriteFixture
      [] command = "rebuild" -> RebuildInstance
      [] command = "stop"    -> StopInstance
      [] command = "start"   -> UpCommand("start")

RunStep ==
    /\ Qualifying("run") /\ qualifier.left # <<>>
    /\ Perform(Head(qualifier.left))
    /\ qualifier' = [qualifier EXCEPT !.pc = "ran", !.left = Tail(@)]

StepEnded ==
    /\ Qualifying("ran")
    /\ qualifier' = IF shell.result = "ok" THEN [qualifier EXCEPT !.pc = "run"]
                    ELSE [qualifier EXCEPT !.pc = "run", !.left = <<>>, !.failed = TRUE]
    /\ UNCHANGED <<files, volumes, core, shell, made, replaced>>

DestroyProfile ==
    /\ Qualifying("run") /\ qualifier.left = <<>>
    /\ DestroyInstance
    /\ qualifier' = [qualifier EXCEPT !.pc = "destroyed"]

\* assertClean of the finally; a failed profile ends the run.
ProfileEnded ==
    /\ Qualifying("destroyed")
    /\ qualifier' = IF Clean /\ ~qualifier.failed
                    THEN [qualifier EXCEPT !.pc = "profile", !.todo = Tail(@)]
                    ELSE [qualifier EXCEPT !.pc = "cleanup", !.failed = TRUE]
    /\ UNCHANGED <<files, volumes, core, shell, made, replaced>>

\* Whatever is there is destroyed, a refused preflight's included.
Cleanup ==
    /\ Qualifying("cleanup")
    /\ IF ResourcesPresent THEN DestroyInstance
       ELSE UNCHANGED <<files, volumes, core, shell, made, replaced>>
    /\ qualifier' = [qualifier EXCEPT !.pc = "assert"]

Classification ==
    /\ Qualifying("assert")
    /\ qualifier' = [qualifier EXCEPT !.pc = "ended", !.failed = @ \/ ~Clean]
    /\ UNCHANGED <<files, volumes, core, shell, made, replaced>>

QualifierKilled ==
    /\ qualifier.pc \notin {"never", "ended"}
    /\ qualifier' = [qualifier EXCEPT !.pc = "ended", !.failed = TRUE]
    /\ shell' = [shell EXCEPT !.pc = "idle", !.result = "failed"]
    /\ UNCHANGED <<files, volumes, core, made, replaced>>

-----------------------------------------------------------------------------
UserCommand ==
    /\ Idle /\ qualifier.pc \in {"never", "ended"} /\ commands < MaxCommands
    /\ \/ \E b \in Backends : CreateInstance(b) \/ SelectProfile(b)
       \/ UpCommand("start") \/ UpCommand("recreate-app")
       \/ StopInstance \/ WriteFixture \/ RebuildInstance \/ DestroyInstance

CommandStep == \/ WriteProfile \/ ComposeUp \/ UpEnds \/ RemoveContainers \/ RemoveVolume
               \/ UnlinkFiles \/ CommandFails

ContainerStep == ConnectDatabase \/ InstallWiki \/ MarkInstalled

QualifierStep == \/ Qualify \/ NextProfile \/ RunStep \/ StepEnded \/ DestroyProfile
                 \/ ProfileEnded \/ Cleanup \/ Classification \/ QualifierKilled

ProductInit ==
    /\ files = NoFiles /\ volumes = << >> /\ core = Down
    /\ shell = [command |-> "none", pc |-> "idle", backend |-> "", result |-> "ok"]
    /\ qualifier = [pc |-> "never", todo |-> <<>>, left |-> <<>>, failed |-> FALSE]
    /\ made = 0 /\ replaced = {} /\ commands = 0

ProductNext ==
    \/ UserCommand /\ commands' = commands + 1 /\ UNCHANGED qualifier
    \/ (CommandStep \/ ContainerStep) /\ UNCHANGED <<qualifier, commands>>
    \/ QualifierStep /\ UNCHANGED commands

-----------------------------------------------------------------------------
\* What is there was made with the secrets in the runtime file and is declared
\* by the profile, so that destroy removes all of it; volumes a later select
\* left behind are the exception.
VolumesFitFiles ==
    \A v \in DOMAIN volumes \ replaced :
        /\ StateReadable
        /\ volumes[v].secrets = files.runtime
        /\ v \in VolumesOf(files.profile)

\* The qualification runs its profiles on volumes of its own.
QualifiesFreshInstance ==
    qualifier.pc \in {"run", "ran"} =>
        replaced = {} /\ \A v \in DOMAIN volumes : volumes[v].secrets = files.runtime

=============================================================================
