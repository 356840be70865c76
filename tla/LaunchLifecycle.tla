--------------------------- MODULE LaunchLifecycle ---------------------------
(***************************************************************************)
(* The live boundary of the release tooling: launchers                     *)
(* (scripts/launch_tp2.py calling inkling_release.launch.launch), the      *)
(* `docker run` command-line process each of them starts, the containers   *)
(* of one host, the receipt files, and scripts/stop_owned.py.              *)
(*                                                                         *)
(* A launcher never waits for Docker: Popen returns while the CLI process  *)
(* is still asking the daemon for the container, the receipt is written    *)
(* next to that race, and the readiness loop looks at two different        *)
(* things, its own CLI process (poll) and whatever answers on a loopback   *)
(* URL (probe).  The container belongs to the daemon, so it outlives a     *)
(* launcher that raises, returns or is killed.                             *)
(*                                                                         *)
(* Both ranks use host networking, so the containers of a host share one   *)
(* readiness endpoint.  A receipt write is one step here; AtomicWrite.tla  *)
(* opens it up.                                                            *)
(***************************************************************************)
CONSTANTS
  Launchers,  \* invocations of launch_tp2.py on the host
  Names,      \* container names that owned_container_name can return
  Paths,      \* receipt paths
  NameOf,     \* the name a launcher's node rank yields
  PathOf,     \* its --receipt argument
  Solo,       \* TRUE: operators start a launcher only on a quiet host
  Faults,     \* the faults of this instance, a subset of FaultKinds
  Nobody      \* neither a launcher nor a name: "no owner"

FaultKinds ==
  { "crash",   \* a launcher is killed
    "popen",   \* Popen raises OSError
    "write",   \* a receipt write raises (symlink, full disk, lost .tmp)
    "refuse",  \* docker run fails before it has a container
    "cli",     \* the docker CLI dies and leaves its container running
    "late",    \* the deadline passes between the loop test and the probe
    "garbled"  \* the URL, or what answers on it, is not HTTP
  }

ASSUME LaunchAssumption ==
  /\ NameOf \in [Launchers -> Names]
  /\ PathOf \in [Launchers -> Paths]
  /\ Solo \in BOOLEAN
  /\ Faults \subseteq FaultKinds
  /\ Nobody \notin Launchers

VARIABLES
  pc,       \* control point of each launcher
  url,      \* whether it was given a readiness URL
  result,   \* the status it printed, or "none"
  cli,      \* its docker CLI process
  box,      \* the container that process asked for
  late,     \* its readiness deadline has passed
  receipt,  \* content of each receipt file
  stop      \* the last stop_owned.py call of each name: phase, target, and
            \* (history) the launches that had started docker run before it

vars == <<pc, url, result, cli, box, late, receipt, stop>>

-----------------------------------------------------------------------------
(* The values of the variables. *)

Waiting == {"loop", "poll", "probe"}
Closing == {"ready", "expired", "failed"}
\* "unrecorded": killed, or raised, between Popen and the first receipt.
Ended   == {"returned", "raised", "crashed", "unrecorded"}
Points  == {"idle", "cleared", "spawned", "unspawned"}
             \cup Waiting \cup Closing \cup Ended

Statuses   == {"STARTED", "READY", "TIMEOUT", "FAILED"}
Results    == Statuses \cup {"none", "DRY_RUN", "FAIL"}
CliStates  == {"none", "pending", "attached", "exited"}
BoxStates  == {"none", "loading", "serving"}
StopPhases == {"idle", "sent", "STOPPED", "FAIL"}

\* A receipt names the launcher that wrote it (its pid field) and a status.
NoReceipt == [by |-> Nobody, status |-> "none"]
Receipts  == {NoReceipt} \cup [by : Launchers, status : Statuses]

\* What a command line asks for.  image "none" is the base image by default;
\* admitted is the answer of build_launch_spec; bounded, 0 < timeout <= 300.
Requests ==
  [admitted : BOOLEAN, execute : BOOLEAN,
   image : {"none", "base", "derivative"},
   bounded : BOOLEAN, url : {"none", "loopback", "other"}]

Running(l) == box[l] # "none"

\* Nothing on this host is left of the other launchers.
Quiet(l) ==
  \A m \in Launchers \ {l} :
    /\ pc[m] \in Ended \cup {"idle"}
    /\ cli[m] \in {"none", "exited"}
    /\ ~Running(m)

\* No two launchers write to one receipt.
PrivatePaths ==
  \A l, m \in Launchers : PathOf[l] = PathOf[m] => l = m

-----------------------------------------------------------------------------
Init ==
  /\ pc = [l \in Launchers |-> "idle"]
  /\ url = [l \in Launchers |-> FALSE]
  /\ result = [l \in Launchers |-> "none"]
  /\ cli = [l \in Launchers |-> "none"]
  /\ box = [l \in Launchers |-> "none"]
  /\ late = [l \in Launchers |-> FALSE]
  /\ receipt = [p \in Paths |-> NoReceipt]
  /\ stop = [n \in Names |-> [phase |-> "idle", target |-> Nobody, seen |-> {}]]

\* pc[l] moves to `to`, and on the way out the launcher prints `status`.
Goto(l, to) == pc' = [pc EXCEPT ![l] = to]
Finish(l, to, status) ==
  /\ Goto(l, to)
  /\ result' = [result EXCEPT ![l] = status]

\* write_receipt either replaces the receipt or raises and leaves it alone;
\* an OSError or ValueError ends launch_tp2 with status FAIL.
Write(l, status) ==
  receipt' = [receipt EXCEPT ![PathOf[l]] = [by |-> l, status |-> status]]

WriteRaises(l, to) ==
  /\ "write" \in Faults
  /\ Finish(l, to, "FAIL")
  /\ UNCHANGED receipt

\* Any container that serves on the host answers the URL.
Answered == \E m \in Launchers : box[m] = "serving"

-----------------------------------------------------------------------------
(* Wrong variants of definitions below, one mistake each.  No specification *)
(* uses them: they stand in for the right definition when the properties   *)
(* are tested for their power to notice the mistake.                       *)

\* The readiness word goes into the status field.
VerdictAsReadiness ==
  [ready |-> "PASS", expired |-> "TIMEOUT", failed |-> "FAILED"]

\* Only launches that wait for a URL leave a receipt.
RecordStartedIfWaiting(l) ==
  /\ pc[l] = "spawned"
  /\ \/ url[l] /\ Write(l, "STARTED") /\ Goto(l, "loop") /\ UNCHANGED result
     \/ ~url[l] /\ UNCHANGED receipt /\ Finish(l, "returned", "STARTED")
     \/ WriteRaises(l, "unrecorded")
  /\ UNCHANGED <<url, cli, box, late, stop>>

\* Every round of the loop takes the time anew.
TestNewDeadline(l) ==
  /\ pc[l] = "loop"
  /\ Goto(l, "poll")
  /\ late' = [late EXCEPT ![l] = FALSE]
  /\ UNCHANGED <<url, result, cli, box, receipt, stop>>

\* `is None` for `is not None`.
PollInverted(l) ==
  /\ pc[l] = "poll"
  /\ Goto(l, IF cli[l] # "exited" THEN "failed" ELSE "probe")
  /\ UNCHANGED <<url, result, cli, box, late, receipt, stop>>

\* A refused connection counts as an answer.
ProbeAnyOutcome(l) ==
  /\ pc[l] = "probe"
  /\ Goto(l, IF late[l] THEN "loop" ELSE "ready")
  /\ UNCHANGED <<url, result, cli, box, late, receipt, stop>>

\* The loop goes on after the FAILED receipt.
RecordVerdictNoReturn(l) ==
  /\ pc[l] \in Closing
  /\ Write(l, [ready |-> "READY", expired |-> "TIMEOUT", failed |-> "FAILED"][pc[l]])
  /\ IF pc[l] = "failed"
       THEN Goto(l, "loop") /\ UNCHANGED result
       ELSE Finish(l, "returned", "READY")
  /\ UNCHANGED <<url, cli, box, late, stop>>

\* A name without a container counts as stopped already.
StopMissingIsStopped(n) ==
  /\ stop[n].phase # "sent"
  /\ \/ \E l \in Launchers :
          /\ NameOf[l] = n /\ Running(l)
          /\ stop' = [stop EXCEPT ![n] = [phase |-> "sent", target |-> l,
                seen |-> {m \in Launchers : NameOf[m] = n /\ cli[m] # "none"}]]
     \/ /\ ~\E l \in Launchers : NameOf[l] = n /\ Running(l)
        /\ stop' = [stop EXCEPT ![n] = [phase |-> "STOPPED", target |-> Nobody,
              seen |-> {m \in Launchers : NameOf[m] = n /\ cli[m] # "none"}]]
  /\ UNCHANGED <<pc, url, result, cli, box, late, receipt>>

-----------------------------------------------------------------------------
(* The launcher. *)

\* launch_tp2.main up to Popen: the parser's check of --execute, then
\* build_launch_spec, then the guards of launch in their order.
Prepare(l) ==
  /\ pc[l] = "idle"
  /\ Solo => Quiet(l)
  /\ \E r \in Requests :
       LET parsed  == r.execute => r.image # "none"
           allowed == r.image = "derivative" /\ r.bounded /\ r.url # "other"
       IN \/ /\ ~parsed \/ ~r.admitted \/ (r.execute /\ ~allowed)
             /\ Finish(l, "raised", "FAIL")
             /\ UNCHANGED url
          \/ /\ parsed /\ r.admitted /\ ~r.execute
             /\ Finish(l, "returned", "DRY_RUN")
             /\ UNCHANGED url
          \/ /\ parsed /\ r.admitted /\ r.execute /\ allowed
             /\ Goto(l, "cleared")
             /\ url' = [url EXCEPT ![l] = r.url = "loopback"]
             /\ UNCHANGED result
  /\ UNCHANGED <<cli, box, late, receipt, stop>>

\* subprocess.Popen: a new session, so the child outlives the launcher.
Spawn(l) ==
  /\ pc[l] = "cleared"
  /\ \/ /\ Goto(l, "spawned")
        /\ cli' = [cli EXCEPT ![l] = "pending"]
     \/ /\ "popen" \in Faults
        /\ Goto(l, "unspawned")
        /\ UNCHANGED cli
  /\ UNCHANGED <<url, result, box, late, receipt, stop>>

RecordUnspawned(l) ==
  /\ pc[l] = "unspawned"
  /\ \/ Write(l, "FAILED") /\ Finish(l, "raised", "FAIL")
     \/ WriteRaises(l, "raised")
  /\ UNCHANGED <<url, cli, box, late, stop>>

RecordStarted(l) ==
  /\ pc[l] = "spawned"
  /\ \/ /\ Write(l, "STARTED")
        /\ \/ url[l] /\ Goto(l, "loop") /\ UNCHANGED result
           \/ ~url[l] /\ Finish(l, "returned", "STARTED")
     \/ WriteRaises(l, "unrecorded")
  /\ UNCHANGED <<url, cli, box, late, stop>>

\* while time.monotonic() < deadline
TestDeadline(l) ==
  /\ pc[l] = "loop"
  /\ Goto(l, IF late[l] THEN "expired" ELSE "poll")
  /\ UNCHANGED <<url, result, cli, box, late, receipt, stop>>

\* process.poll(): only this launcher's own CLI process is looked at.
Poll(l) ==
  /\ pc[l] = "poll"
  /\ Goto(l, IF cli[l] = "exited" THEN "failed" ELSE "probe")
  /\ UNCHANGED <<url, result, cli, box, late, receipt, stop>>

\* _probe_readiness with what is left of the deadline.  Two outcomes are not
\* failed probes, as `except (OSError, URLError)` lets them through: a
\* remainder below zero, which the socket refuses with a ValueError, and an
\* http.client.HTTPException (InvalidURL, BadStatusLine).  The latter passes
\* the except clause of launch_tp2 as well, which then prints no status.
Probe(l) ==
  /\ pc[l] = "probe"
  /\ \/ /\ late[l]
        /\ Finish(l, "raised", "FAIL")
     \/ /\ "garbled" \in Faults
        /\ Goto(l, "raised") /\ UNCHANGED result
     \/ /\ ~late[l]
        /\ Answered
        /\ Goto(l, "ready") /\ UNCHANGED result
     \/ /\ ~late[l]
        /\ Goto(l, "loop") /\ UNCHANGED result
  /\ UNCHANGED <<url, cli, box, late, receipt, stop>>

Verdict == [ready |-> "READY", expired |-> "TIMEOUT", failed |-> "FAILED"]

\* The write after the loop, or the FAILED write inside it.
RecordVerdict(l) ==
  /\ pc[l] \in Closing
  /\ \/ Write(l, Verdict[pc[l]]) /\ Finish(l, "returned", Verdict[pc[l]])
     \/ WriteRaises(l, "raised")
  /\ UNCHANGED <<url, cli, box, late, stop>>

\* The deadline is a time of the clock, not an event the loop sees.  Without
\* fault "late" it does not fall between the loop test and the probe.
PassDeadline(l) ==
  /\ pc[l] \in Waiting
  /\ pc[l] # "loop" => "late" \in Faults
  /\ ~late[l]
  /\ late' = [late EXCEPT ![l] = TRUE]
  /\ UNCHANGED <<pc, url, result, cli, box, receipt, stop>>

Crash(l) ==
  /\ "crash" \in Faults
  /\ pc[l] \notin Ended \cup {"idle"}
  /\ Goto(l, IF pc[l] = "spawned" THEN "unrecorded" ELSE "crashed")
  /\ UNCHANGED <<url, result, cli, box, late, receipt, stop>>

-----------------------------------------------------------------------------
(* Docker, as the argv of build_docker_argv uses it: --name, --rm, host    *)
(* network, no --detach.                                                   *)

NameTaken(n) == \E m \in Launchers : NameOf[m] = n /\ Running(m)

Create(l) ==
  /\ cli[l] = "pending"
  /\ \/ /\ ~NameTaken(NameOf[l])
        /\ cli' = [cli EXCEPT ![l] = "attached"]
        /\ box' = [box EXCEPT ![l] = "loading"]
     \/ /\ NameTaken(NameOf[l]) \/ "refuse" \in Faults
        /\ cli' = [cli EXCEPT ![l] = "exited"]
        /\ UNCHANGED box
  /\ UNCHANGED <<pc, url, result, late, receipt, stop>>

Serve(l) ==
  /\ box[l] = "loading"
  /\ ~Answered
  /\ box' = [box EXCEPT ![l] = "serving"]
  /\ UNCHANGED <<pc, url, result, cli, late, receipt, stop>>

\* The container ends by itself; --rm frees its name.
Exit(l) ==
  /\ Running(l)
  /\ box' = [box EXCEPT ![l] = "none"]
  /\ UNCHANGED <<pc, url, result, cli, late, receipt, stop>>

CliExits(l) ==
  /\ cli[l] = "attached"
  /\ ~Running(l) \/ "cli" \in Faults
  /\ cli' = [cli EXCEPT ![l] = "exited"]
  /\ UNCHANGED <<pc, url, result, box, late, receipt, stop>>

-----------------------------------------------------------------------------
(* scripts/stop_owned.py --execute: docker stop, bounded by --timeout + 10. *)

Started(n) == {l \in Launchers : NameOf[l] = n /\ cli[l] # "none"}

\* The daemon resolves the name when the request arrives; a name without a
\* container is an error.  A call that has answered may be repeated, whatever
\* it answered and whether or not its container is down yet.
StopBegins(n) ==
  /\ stop[n].phase # "sent"
  /\ \/ \E l \in Launchers :
          /\ NameOf[l] = n /\ Running(l)
          /\ stop' = [stop EXCEPT ![n] =
                        [phase |-> "sent", target |-> l, seen |-> Started(n)]]
     \/ /\ ~NameTaken(n)
        /\ stop' = [stop EXCEPT ![n] =
                      [phase |-> "FAIL", target |-> Nobody, seen |-> Started(n)]]
  /\ UNCHANGED <<pc, url, result, cli, box, late, receipt>>

\* docker stop returns 0 once its target is gone; the daemon goes on with a
\* stop whose client was given up after the subprocess timeout.
StopReturns(n) ==
  /\ stop[n].phase = "sent"
  /\ \E status \in {"STOPPED", "FAIL"} :
       /\ status = "STOPPED" => ~Running(stop[n].target)
       /\ stop' = [stop EXCEPT ![n].phase = status]
  /\ UNCHANGED <<pc, url, result, cli, box, late, receipt>>

-----------------------------------------------------------------------------
Launcher(l) ==
  \/ Spawn(l) \/ RecordUnspawned(l) \/ RecordStarted(l)
  \/ TestDeadline(l) \/ Poll(l) \/ Probe(l) \/ RecordVerdict(l)

Docker(l) == Create(l) \/ Serve(l) \/ Exit(l) \/ CliExits(l)

Next ==
  \/ \E l \in Launchers :
       Prepare(l) \/ Launcher(l) \/ PassDeadline(l) \/ Crash(l) \/ Docker(l)
  \/ \E n \in Names : StopBegins(n) \/ StopReturns(n)

Spec == Init /\ [][Next]_vars

\* A started launcher keeps running, its deadline passes, and a CLI process
\* notices the end of its container.  Nobody is obliged to start a launcher
\* or a stop, and a container may load or serve for ever.
Fairness ==
  \A l \in Launchers :
    WF_vars(Launcher(l)) /\ WF_vars(PassDeadline(l)) /\ WF_vars(CliExits(l))

FairSpec == Spec /\ Fairness

-----------------------------------------------------------------------------
TypeOK ==
  /\ pc \in [Launchers -> Points]
  /\ url \in [Launchers -> BOOLEAN]
  /\ result \in [Launchers -> Results]
  /\ cli \in [Launchers -> CliStates]
  /\ box \in [Launchers -> BoxStates]
  /\ late \in [Launchers -> BOOLEAN]
  /\ receipt \in [Paths -> Receipts]
  /\ stop \in [Names -> [phase : StopPhases, target : Launchers \cup {Nobody},
                       seen : SUBSET Launchers]]

(* What a launch promises. *)

\* A container that runs is on record: when operators start launchers on a
\* quiet host only, or give every launch a receipt path of its own, the
\* receipt its launcher writes (launch.py:352-355 and 373-377) names it and
\* does not call it failed, however the launcher ended.  Only between Popen
\* and the first receipt, and when the launcher ended there (killed, or with
\* a receipt it could not write), may a container run without one.
Tracked ==
  (Solo \/ PrivatePaths) /\ "cli" \notin Faults =>
    \A l \in Launchers :
      Running(l) /\ pc[l] \notin {"spawned", "unrecorded"}
        => /\ receipt[PathOf[l]].by = l
           /\ receipt[PathOf[l]].status # "FAILED"

\* FAILED is never written of a container that is still there, also when
\* launchers compete for one name: the loop concludes it from its own
\* process alone (launch.py:361-367).
FailedMeansDown ==
  "cli" \notin Faults =>
    \A p \in Paths :
      receipt[p].status = "FAILED" => ~Running(receipt[p].by)

\* On a quiet host the answer that makes a launcher READY (launch.py:369-371)
\* comes from its own container, although the URL is the host's.
ReadyIsOwn ==
  [][Solo => \A l \in Launchers :
       pc[l] = "probe" /\ pc'[l] = "ready" => box[l] = "serving"]_vars

\* STOPPED (stop_owned.py:25) speaks for the name, not for one container:
\* when launchers are started on a quiet host, no launch of that name whose
\* docker run had begun before the request is up afterwards or still coming
\* up, however often stops were given up and repeated before, and it stays so.
StopCoversLaunches ==
  Solo =>
    \A n \in Names :
      stop[n].phase = "STOPPED" =>
        \A l \in stop[n].seen : cli[l] # "pending" /\ ~Running(l)

\* The readiness loop (launch.py:360-372) is left: by an answer, by the end
\* of the process, by the deadline, or by an exception.
WaitEnds ==
  \A l \in Launchers : pc[l] \in Waiting ~> pc[l] \in Ended

\* The probe is declared to return a bool (launch.py:299), so a launch that
\* recorded STARTED and waited ends with a verdict on record, not with an
\* exception that leaves STARTED behind.
VerdictRecorded ==
  \A l \in Launchers :
    pc[l] = "raised" => receipt[PathOf[l]] # [by |-> l, status |-> "STARTED"]

-----------------------------------------------------------------------------
(* Each launcher keeps the contract of LaunchContract.tla, when the        *)
(* receipts are private: `rec` is what its receipt says of it, `run` what  *)
(* became of its docker CLI process.                                       *)

RecOf(l) ==
  IF receipt[PathOf[l]].by = l THEN receipt[PathOf[l]].status ELSE "none"

RunOf(l) ==
  CASE cli[l] = "none" -> "never"
    [] cli[l] \in {"pending", "attached"} -> "up"
    [] OTHER -> "down"

Contract ==
  INSTANCE LaunchContract WITH
    rec <- [l \in Launchers |-> RecOf(l)],
    run <- [l \in Launchers |-> RunOf(l)]

\* Every launcher's receipt goes through the states of the contract in their
\* order, whatever launchers, containers, faults and stops do.
KeepsContract == Contract!Spec
=============================================================================
