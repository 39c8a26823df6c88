---------------------------- MODULE DaemonTask ----------------------------
(***************************************************************************)
(* The supervisor of the gateway, daemonTask/daemonTask.c, and the part of *)
(* the gateway's start it watches: demo/demo.c writes the process number   *)
(* to /var/run/gateway.pid (fopen truncates the file, fclose fills it).    *)
(*                                                                         *)
(* The daemon looks every three seconds whether the process the file names *)
(* exists; if not it starts the gateway, at most so often.  Processes die  *)
(* at any step and their numbers are given out again, to the gateway or to *)
(* a stranger.  Time is counted in seconds up to the five the code tells   *)
(* apart.                                                                  *)
(***************************************************************************)
EXTENDS Integers, FiniteSets

CONSTANTS
    Pids,           \* process numbers the kernel gives out
    RestartLimit,   \* fast restarts before a pause (5 in the code)
    Strangers,      \* bound: strangers alive at a time
    StartsInTime    \* TRUE: a gateway that lives has written its number when
                    \* the daemon's sleep(3) ends

ASSUME DaemonAssumption ==
    /\ {"none", "empty", "unset"} \cap Pids = {}
    /\ RestartLimit \in Nat
    /\ Strangers \in Nat /\ StartsInTime \in BOOLEAN

VARIABLES
    procs,          \* process number -> what runs under it
    pidFile,        \* "none", "empty" or the number in gateway.pid
    dpc,            \* the daemon
    pid,            \* the number it has read, or "unset" when fscanf failed
    restartCount,   \* restart_count
    since,          \* seconds since last_time, at most 5
    quiet,          \* history: seconds since a gateway was started, at most 5
    burst           \* history: starts in a row less than 5 seconds apart

files  == <<procs, pidFile>>
daemon == <<dpc, pid, restartCount>>
time   == <<since, quiet>>
daemonVars == <<files, daemon, time, burst>>

Free(p)    == procs[p] = "free"
Starting   == {p \in Pids : procs[p] \in {"spawned", "truncated"}}
Gateways   == Starting \cup {p \in Pids : procs[p] = "up"}
StrangerAt == {p \in Pids : procs[p] = "stranger"}

Long == 5
Elapsed(t, s) == IF t + s > Long THEN Long ELSE t + s

\* last_time is 0: the epoch is long ago.  The file of an earlier boot may be
\* there.
DaemonInit ==
    /\ procs = [p \in Pids |-> "free"]
    /\ pidFile \in {"none"} \cup Pids
    /\ dpc = "read" /\ pid = "unset"
    /\ restartCount = 0
    /\ since = Long /\ quiet = Long
    /\ burst = 0
-----------------------------------------------------------------------------
(* The daemon.                                                             *)

\* is_process_running: without a file the gateway is not running.
ReadPidFile ==
    /\ dpc = "read"
    /\ pid' = IF pidFile \in Pids THEN pidFile ELSE "unset"
    /\ dpc' = IF pidFile = "none" THEN "limit" ELSE "kill"
    /\ UNCHANGED <<files, restartCount, time, burst>>

\* kill(pid, 0): it finds any process of that number.  pid is uninitialised
\* after an empty file, and the outcome arbitrary.
TestProcess ==
    /\ dpc = "kill"
    /\ \/ pid = "unset" /\ dpc' \in {"sleep", "limit"}
       \/ pid # "unset" /\ dpc' = IF Free(pid) THEN "limit" ELSE "sleep"
    /\ UNCHANGED <<files, pid, restartCount, time, burst>>

\* Mutant: last_time is not taken over.
MutLimitRate ==
    /\ dpc = "limit"
    /\ restartCount' = IF since < Long THEN restartCount + 1 ELSE 0
    /\ dpc' = IF restartCount' > RestartLimit THEN "pause" ELSE "spawn"
    /\ UNCHANGED <<files, pid, time, burst>>

\* The comparison of now with last_time, which becomes now.
LimitRate ==
    /\ dpc = "limit"
    /\ restartCount' = IF since < Long THEN restartCount + 1 ELSE 0
    /\ since' = 0
    /\ dpc' = IF restartCount' > RestartLimit THEN "pause" ELSE "spawn"
    /\ UNCHANGED <<files, pid, quiet, burst>>

\* sleep(10).
Pause ==
    /\ dpc = "pause"
    /\ restartCount' = 0
    /\ since' = Long /\ quiet' = Long
    /\ dpc' = "spawn"
    /\ UNCHANGED <<files, pid, burst>>

Spawn(p) ==
    /\ dpc = "spawn"
    /\ Free(p)
    /\ procs' = [procs EXCEPT ![p] = "spawned"]
    /\ burst' = IF quiet < Long THEN burst + 1 ELSE 1
    /\ quiet' = 0
    /\ dpc' = "sleep"
    /\ UNCHANGED <<pidFile, pid, restartCount, since>>

\* posix_spawn fails: nothing is done about it.
SpawnFails ==
    /\ dpc = "spawn"
    /\ dpc' = "sleep"
    /\ UNCHANGED <<files, pid, restartCount, time, burst>>

\* sleep(3), which may take a little longer.
Sleep ==
    /\ dpc = "sleep"
    /\ StartsInTime => Starting = {}
    /\ \E s \in 3 .. Long :
          since' = Elapsed(since, s) /\ quiet' = Elapsed(quiet, s)
    /\ dpc' = "read"
    /\ UNCHANGED <<files, pid, restartCount, burst>>

DaemonStep ==
    \/ ReadPidFile \/ TestProcess \/ LimitRate \/ Pause \/ SpawnFails \/ Sleep
    \/ \E p \in Pids : Spawn(p)
-----------------------------------------------------------------------------
(* The gateway and the other processes.                                    *)

\* fopen(GATEWAY_PID, "w").
OpenPidFile(p) ==
    /\ procs[p] = "spawned"
    /\ procs' = [procs EXCEPT ![p] = "truncated"]
    /\ pidFile' = "empty"
    /\ UNCHANGED <<daemon, time, burst>>

\* Mutant: without fclose the number stays in the buffer.
MutWritePid(p) ==
    /\ procs[p] = "truncated"
    /\ procs' = [procs EXCEPT ![p] = "up"]
    /\ UNCHANGED <<pidFile, daemon, time, burst>>

\* fprintf and fclose.
WritePid(p) ==
    /\ procs[p] = "truncated"
    /\ procs' = [procs EXCEPT ![p] = "up"]
    /\ pidFile' = p
    /\ UNCHANGED <<daemon, time, burst>>

\* Mutant: a dead child stays a zombie, which kill finds.
MutDie(p) ==
    /\ p \in Gateways
    /\ procs' = [procs EXCEPT ![p] = IF procs[p] = "up" THEN "zombie" ELSE "free"]
    /\ UNCHANGED <<pidFile, daemon, time, burst>>

\* The gateway dies.  SIGCHLD is ignored: nothing is left of it.
Die(p) ==
    /\ p \in Gateways
    /\ procs' = [procs EXCEPT ![p] = "free"]
    /\ UNCHANGED <<pidFile, daemon, time, burst>>

StrangerStarts(p) ==
    /\ Free(p)
    /\ Cardinality(StrangerAt) < Strangers
    /\ procs' = [procs EXCEPT ![p] = "stranger"]
    /\ UNCHANGED <<pidFile, daemon, time, burst>>

StrangerEnds(p) ==
    /\ procs[p] = "stranger"
    /\ procs' = [procs EXCEPT ![p] = "free"]
    /\ UNCHANGED <<pidFile, daemon, time, burst>>

GatewayStep(p) == OpenPidFile(p) \/ WritePid(p)

DaemonNext ==
    \/ DaemonStep
    \/ \E p \in Pids :
          GatewayStep(p) \/ Die(p) \/ StrangerStarts(p) \/ StrangerEnds(p)

DaemonSpec == DaemonInit /\ [][DaemonNext]_daemonVars

\* The daemon and the gateway run, and posix_spawn succeeds again and again if
\* it is tried again and again.  Nothing forces a death or a stranger.
DaemonFairness ==
    /\ WF_daemonVars(DaemonStep)
    /\ SF_daemonVars(\E p \in Pids : Spawn(p))
    /\ \A p \in Pids : WF_daemonVars(GatewayStep(p))

DaemonFairSpec == DaemonSpec /\ DaemonFairness
-----------------------------------------------------------------------------
(* Properties.                                                             *)

\* Type correctness.
DaemonTypeOK ==
    /\ procs \in [Pids -> {"free", "spawned", "truncated", "up", "stranger"}]
    /\ pidFile \in {"none", "empty"} \cup Pids
    /\ dpc \in {"read", "kill", "limit", "pause", "spawn", "sleep"}
    /\ pid \in {"unset"} \cup Pids
    /\ restartCount \in 0 .. RestartLimit + 1
    /\ since \in 0 .. Long /\ quiet \in 0 .. Long
    /\ burst \in Nat

\* The daemon never runs two gateways, which would share the socket, the message
\* queue and the log directory (daemonTask.c:63).  It needs StartsInTime.
OneGateway == \A p, q \in Gateways : p = q

\* The limit on restarts (comment, daemonTask.c:79): a gateway that keeps dying
\* is started at most seven times in a row less than five seconds apart.  It is
\* one more than the six the counter suggests: last_time is taken before the
\* pause, so the first start after the pause is not counted.
BurstBound == burst <= RestartLimit + 2

\* The file does not tell whether the gateway runs: it is empty, or a stranger
\* has the number it names.
Misled == pidFile = "empty" \/ pidFile \in StrangerAt

\* Without further deaths a gateway is up again and again, that is for good, or
\* the file misleads the daemon again and again.
CrashesEnd == <>[][\A p \in Pids : ~Die(p)]_daemonVars
ComesUp == CrashesEnd => []<>(Misled \/ \E p \in Pids : procs[p] = "up")
=============================================================================
