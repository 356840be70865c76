------------------------ MODULE LaunchLifecycle_proofs ------------------------
(***************************************************************************)
(* Proofs about LaunchLifecycle, for any set of launchers, names and       *)
(* paths, any combination of faults, and both ways of starting launchers.  *)
(***************************************************************************)
EXTENDS LaunchLifecycle, TLAPS

\* What the control point of a launcher says of its CLI process, and what
\* that says of the container.
CliInv ==
  \A l \in Launchers :
    /\ pc[l] \in {"idle", "cleared", "unspawned"} => cli[l] = "none"
    /\ pc[l] \in {"spawned"} \cup Waiting \cup Closing => cli[l] # "none"
    /\ pc[l] = "failed" => cli[l] = "exited"
    /\ Running(l) => cli[l] \in {"attached", "exited"}
    /\ "cli" \notin Faults /\ cli[l] = "exited" => ~Running(l)

\* A FAILED receipt is about a process that is over, or about a launcher that
\* ended without one.
FailedInv ==
  \A p \in Paths :
    receipt[p].status = "FAILED" =>
      LET l == receipt[p].by IN
        /\ l \in Launchers
        /\ \/ cli[l] = "exited"
           \/ cli[l] = "none" /\ pc[l] \in Ended

\* Something of launcher l is still going on.
Active(l) ==
  \/ pc[l] \notin Ended \cup {"idle"}
  \/ cli[l] \in {"pending", "attached"}
  \/ Running(l)

OneActive ==
  Solo => \A l, m \in Launchers : Active(l) /\ Active(m) => l = m

\* The launcher is past its first receipt, if it started a process at all.
OnRecord(l) ==
  pc[l] \in Waiting \cup Closing \cup {"returned", "raised", "crashed"}

RecordInv ==
  Solo \/ PrivatePaths =>
    \A l \in Launchers :
      Active(l) /\ OnRecord(l) => receipt[PathOf[l]].by = l

-----------------------------------------------------------------------------
\* A write of any status keeps the receipts well typed.
LEMMA WriteType ==
  ASSUME TypeOK, NEW l \in Launchers, NEW s \in Statuses, Write(l, s)
  PROVE  receipt' \in [Paths -> Receipts]
<1>1. [by |-> l, status |-> s] \in Receipts
  BY DEF Receipts
<1>2. receipt \in [Paths -> Receipts]
  BY DEF TypeOK
<1>3. QED
  BY <1>1, <1>2, LaunchAssumption DEF Write

\* A write changes one receipt.
LEMMA WriteEffect ==
  ASSUME TypeOK, NEW l \in Launchers, NEW s, Write(l, s), NEW p \in Paths
  PROVE  \/ p = PathOf[l] /\ receipt'[p].by = l /\ receipt'[p].status = s
         \/ p # PathOf[l] /\ receipt'[p] = receipt[p]
  BY LaunchAssumption DEF TypeOK, Write

(* Every variable stays in the set TypeOK gives it: in particular Verdict  *)
(* is only applied at the control points it is defined on, and a stop      *)
(* never aims at something that is no launcher.                            *)
THEOREM TypeCorrect == Spec => []TypeOK
<1> USE LaunchAssumption
<1>1. Init => TypeOK
  BY DEF Init, TypeOK, Points, Waiting, Closing, Ended, Results, CliStates,
         BoxStates, Receipts, NoReceipt, StopPhases
<1>2. TypeOK /\ [Next]_vars => TypeOK'
  <2> SUFFICES ASSUME TypeOK, [Next]_vars PROVE TypeOK'
    OBVIOUS
  <2> USE DEF TypeOK, Goto, Finish
  <2>1. CASE UNCHANGED vars
    BY <2>1 DEF vars
  <2>2. ASSUME NEW l \in Launchers, Prepare(l) PROVE TypeOK'
    BY <2>2 DEF Prepare, Requests, Points, Ended, Results
  <2>3. ASSUME NEW l \in Launchers, Spawn(l) PROVE TypeOK'
    BY <2>3 DEF Spawn, Points, CliStates
  <2>4. ASSUME NEW l \in Launchers, RecordUnspawned(l) PROVE TypeOK'
    <3>1. receipt' \in [Paths -> Receipts]
      BY <2>4, WriteType DEF RecordUnspawned, WriteRaises, Statuses
    <3>2. /\ UNCHANGED <<url, cli, box, late, stop>>
          /\ Finish(l, "raised", "FAIL")
      BY <2>4 DEF RecordUnspawned, WriteRaises
    <3>3. QED
      BY <3>1, <3>2 DEF Points, Ended, Results
  <2>5. ASSUME NEW l \in Launchers, RecordStarted(l) PROVE TypeOK'
    <3>1. receipt' \in [Paths -> Receipts]
      BY <2>5, WriteType DEF RecordStarted, WriteRaises, Statuses
    <3>2. /\ UNCHANGED <<url, cli, box, late, stop>>
          /\ \E to \in {"loop", "returned", "unrecorded"} : Goto(l, to)
          /\ \E s \in {"STARTED", "FAIL", result[l]} :
               result' = [result EXCEPT ![l] = s]
      BY <2>5 DEF RecordStarted, WriteRaises
    <3>3. /\ pc' \in [Launchers -> Points]
          /\ result' \in [Launchers -> Results]
      BY <3>2 DEF Points, Ended, Waiting, Results, Statuses
    <3>4. QED
      BY <3>1, <3>2, <3>3
  <2>6. ASSUME NEW l \in Launchers, TestDeadline(l) PROVE TypeOK'
    BY <2>6 DEF TestDeadline, Points, Waiting, Closing
  <2>7. ASSUME NEW l \in Launchers, Poll(l) PROVE TypeOK'
    BY <2>7 DEF Poll, Points, Waiting, Closing
  <2>8. ASSUME NEW l \in Launchers, Probe(l) PROVE TypeOK'
    BY <2>8 DEF Probe, Points, Waiting, Closing, Ended, Results
  <2>9. ASSUME NEW l \in Launchers, RecordVerdict(l) PROVE TypeOK'
    <3>1. Verdict[pc[l]] \in Statuses
      BY <2>9 DEF RecordVerdict, Closing, Verdict, Statuses
    <3>2. receipt' \in [Paths -> Receipts]
      BY <2>9, <3>1, WriteType DEF RecordVerdict, WriteRaises
    <3>3. QED
      BY <2>9, <3>1, <3>2 DEF RecordVerdict, WriteRaises, Points, Ended,
                              Results
  <2>10. ASSUME NEW l \in Launchers, PassDeadline(l) PROVE TypeOK'
    BY <2>10 DEF PassDeadline
  <2>11. ASSUME NEW l \in Launchers, Crash(l) PROVE TypeOK'
    BY <2>11 DEF Crash, Points, Ended
  <2>12. ASSUME NEW l \in Launchers, Docker(l) PROVE TypeOK'
    BY <2>12 DEF Docker, Create, Serve, Exit, CliExits, CliStates, BoxStates
  <2>13. ASSUME NEW n \in Names, StopBegins(n) PROVE TypeOK'
    <3>1. CASE stop' = [stop EXCEPT ![n] = [phase |-> "FAIL", target |-> Nobody,
                                           seen |-> Started(n)]]
      BY <2>13, <3>1 DEF StopBegins, StopPhases, Started
    <3>2. ASSUME NEW l \in Launchers,
                 stop' = [stop EXCEPT ![n] = [phase |-> "sent", target |-> l,
                                              seen |-> Started(n)]]
          PROVE  TypeOK'
      <4>1. Started(n) \in SUBSET Launchers
        BY DEF Started
      <4>2. /\ UNCHANGED <<pc, url, result, cli, box, late, receipt>>
            /\ stop[n] \in [phase : StopPhases, target : Launchers \cup {Nobody},
                            seen : SUBSET Launchers]
        BY <2>13 DEF StopBegins
      <4>3. [phase |-> "sent", target |-> l, seen |-> Started(n)] \in
              [phase : StopPhases, target : Launchers \cup {Nobody},
               seen : SUBSET Launchers]
        BY <4>1 DEF StopPhases
      <4>4. QED
        BY <3>2, <4>2, <4>3
    <3>3. QED
      BY <2>13, <3>1, <3>2 DEF StopBegins
  <2>14. ASSUME NEW n \in Names, StopReturns(n) PROVE TypeOK'
    <3>1. PICK status \in {"STOPPED", "FAIL"} :
            stop' = [stop EXCEPT ![n].phase = status]
      BY <2>14 DEF StopReturns
    <3>2. stop' \in [Names -> [phase : StopPhases, target : Launchers \cup {Nobody},
                             seen : SUBSET Launchers]]
      BY <3>1 DEF StopPhases
    <3>3. QED
      BY <2>14, <3>2 DEF StopReturns
  <2>15. QED
    BY <2>1, <2>2, <2>3, <2>4, <2>5, <2>6, <2>7, <2>8, <2>9, <2>10, <2>11,
       <2>12, <2>13, <2>14 DEF Next, Launcher
<1>3. QED
  BY <1>1, <1>2, PTL DEF Spec

-----------------------------------------------------------------------------
\* Steps that touch neither the processes nor the receipts disturb nothing.
Frame == UNCHANGED <<pc, cli, box, receipt>>

\* The control point, the CLI process and the container of a launcher agree.
LEMMA CliInvariant == Spec => []CliInv
<1> USE LaunchAssumption DEF CliInv, Running
<1>1. Init => CliInv
  BY DEF Init, Waiting, Closing
<1>2. TypeOK /\ CliInv /\ [Next]_vars => CliInv'
  <2> SUFFICES ASSUME TypeOK, CliInv, [Next]_vars PROVE CliInv'
    OBVIOUS
  <2> USE DEF TypeOK, Goto, Finish, Waiting, Closing, Ended
  <2>1. CASE Frame
    BY <2>1 DEF Frame
  <2>2. ASSUME NEW l \in Launchers, Prepare(l) PROVE CliInv'
    BY <2>2 DEF Prepare
  <2>3. ASSUME NEW l \in Launchers, Spawn(l) PROVE CliInv'
    BY <2>3 DEF Spawn
  <2>4. ASSUME NEW l \in Launchers, RecordUnspawned(l) PROVE CliInv'
    BY <2>4 DEF RecordUnspawned, WriteRaises
  <2>5. ASSUME NEW l \in Launchers, RecordStarted(l) PROVE CliInv'
    BY <2>5 DEF RecordStarted, WriteRaises
  <2>6. ASSUME NEW l \in Launchers, TestDeadline(l) PROVE CliInv'
    BY <2>6 DEF TestDeadline
  <2>7. ASSUME NEW l \in Launchers, Poll(l) PROVE CliInv'
    BY <2>7 DEF Poll
  <2>8. ASSUME NEW l \in Launchers, Probe(l) PROVE CliInv'
    BY <2>8 DEF Probe
  <2>9. ASSUME NEW l \in Launchers, RecordVerdict(l) PROVE CliInv'
    BY <2>9 DEF RecordVerdict, WriteRaises
  <2>10. ASSUME NEW l \in Launchers, Crash(l) PROVE CliInv'
    BY <2>10 DEF Crash
  <2>11. ASSUME NEW l \in Launchers, Docker(l) PROVE CliInv'
    BY <2>11 DEF Docker, Create, Serve, Exit, CliExits, CliStates, BoxStates
  <2>12. ASSUME NEW l \in Launchers, PassDeadline(l) PROVE Frame
    BY <2>12 DEF PassDeadline, Frame
  <2>13. ASSUME NEW n \in Names, StopBegins(n) \/ StopReturns(n) PROVE Frame
    BY <2>13 DEF StopBegins, StopReturns, Frame
  <2>14. QED
    BY <2>1, <2>2, <2>3, <2>4, <2>5, <2>6, <2>7, <2>8, <2>9, <2>10, <2>11,
       <2>12, <2>13 DEF Next, Launcher, vars, Frame
<1>3. QED
  BY <1>1, <1>2, TypeCorrect, PTL DEF Spec

-----------------------------------------------------------------------------
\* A FAILED receipt keeps its meaning.
LEMMA FailedInvariant == Spec => []FailedInv
<1> USE LaunchAssumption DEF FailedInv
<1>1. Init => FailedInv
  BY DEF Init, NoReceipt
<1>2. TypeOK /\ CliInv /\ FailedInv /\ [Next]_vars => FailedInv'
  <2> SUFFICES ASSUME TypeOK, CliInv, FailedInv, [Next]_vars PROVE FailedInv'
    OBVIOUS
  <2> USE DEF TypeOK, Goto, Finish, Ended
  <2>1. CASE Frame
    BY <2>1 DEF Frame
  <2>2. ASSUME NEW l \in Launchers, Prepare(l) PROVE FailedInv'
    BY <2>2 DEF Prepare
  <2>3. ASSUME NEW l \in Launchers, Spawn(l) PROVE FailedInv'
    BY <2>3 DEF Spawn, CliInv
  <2>4. ASSUME NEW l \in Launchers, RecordUnspawned(l) PROVE FailedInv'
    <3>1. CASE \E to \in {"raised", "unrecorded"} : WriteRaises(l, to)
      BY <2>4, <3>1 DEF RecordUnspawned, WriteRaises
    <3>2. CASE Write(l, "FAILED") /\ Finish(l, "raised", "FAIL")
      BY <2>4, <3>2, WriteEffect DEF RecordUnspawned, CliInv
    <3>3. QED
      BY <2>4, <3>1, <3>2 DEF RecordUnspawned
  <2>5. ASSUME NEW l \in Launchers, RecordStarted(l) PROVE FailedInv'
    <3>1. CASE \E to \in {"raised", "unrecorded"} : WriteRaises(l, to)
      BY <2>5, <3>1 DEF RecordStarted, WriteRaises
    <3>2. CASE Write(l, "STARTED")
      <4>1. cli[l] # "none" /\ cli' = cli
        BY <2>5 DEF RecordStarted, CliInv
      <4>2. \A m \in Launchers \ {l} : pc'[m] = pc[m]
        BY <2>5 DEF RecordStarted, WriteRaises
      <4>3. \A p \in Paths :
              receipt'[p].status = "FAILED" => receipt'[p] = receipt[p]
        BY <3>2, WriteEffect
      <4>4. QED
        BY <4>1, <4>2, <4>3
    <3>3. QED
      BY <2>5, <3>1, <3>2 DEF RecordStarted
  <2>6. ASSUME NEW l \in Launchers, TestDeadline(l) PROVE FailedInv'
    BY <2>6 DEF TestDeadline
  <2>7. ASSUME NEW l \in Launchers, Poll(l) PROVE FailedInv'
    BY <2>7 DEF Poll
  <2>8. ASSUME NEW l \in Launchers, Probe(l) PROVE FailedInv'
    BY <2>8 DEF Probe
  <2>9. ASSUME NEW l \in Launchers, RecordVerdict(l) PROVE FailedInv'
    <3>1. Verdict[pc[l]] = "FAILED" => cli[l] = "exited"
      BY <2>9 DEF RecordVerdict, Closing, Verdict, CliInv
    <3>2. CASE \E to \in {"raised", "unrecorded"} : WriteRaises(l, to)
      BY <2>9, <3>2 DEF RecordVerdict, WriteRaises
    <3>3. CASE Write(l, Verdict[pc[l]]) /\ Finish(l, "returned", Verdict[pc[l]])
      <4> DEFINE s == Verdict[pc[l]]
      <4>1. \A p \in Paths :
              \/ p = PathOf[l] /\ receipt'[p].by = l /\ receipt'[p].status = s
              \/ p # PathOf[l] /\ receipt'[p] = receipt[p]
        BY <3>3, WriteEffect
      <4>2. s = "FAILED" => cli[l] = "exited"
        BY <3>1
      <4> HIDE DEF s
      <4>3. QED
        BY <2>9, <3>3, <4>1, <4>2 DEF RecordVerdict
    <3>4. QED
      BY <2>9, <3>2, <3>3 DEF RecordVerdict
  <2>10. ASSUME NEW l \in Launchers, Crash(l) PROVE FailedInv'
    BY <2>10 DEF Crash
  <2>11. ASSUME NEW l \in Launchers, Docker(l) PROVE FailedInv'
    BY <2>11 DEF Docker, Create, Serve, Exit, CliExits, CliInv
  <2>12. ASSUME NEW l \in Launchers, PassDeadline(l) PROVE Frame
    BY <2>12 DEF PassDeadline, Frame
  <2>13. ASSUME NEW n \in Names, StopBegins(n) \/ StopReturns(n) PROVE Frame
    BY <2>13 DEF StopBegins, StopReturns, Frame
  <2>14. QED
    BY <2>1, <2>2, <2>3, <2>4, <2>5, <2>6, <2>7, <2>8, <2>9, <2>10, <2>11,
       <2>12, <2>13 DEF Next, Launcher, vars, Frame
<1>3. QED
  BY <1>1, <1>2, TypeCorrect, CliInvariant, PTL DEF Spec

(* Whatever competes for a container name, a FAILED receipt is never about *)
(* a container that still runs, unless the docker CLI died without it.     *)
THEOREM FailedIsDown == Spec => []FailedMeansDown
<1>1. CliInv /\ FailedInv => FailedMeansDown
  BY DEF CliInv, FailedInv, FailedMeansDown, Running
<1>2. QED
  BY <1>1, CliInvariant, FailedInvariant, PTL

-----------------------------------------------------------------------------
\* Starting launchers on a quiet host keeps at most one of them active.
LEMMA OneActiveInvariant == Spec => []OneActive
<1> USE LaunchAssumption DEF OneActive, Active, Running
<1>1. Init => OneActive
  BY DEF Init
<1>2. TypeOK /\ CliInv /\ OneActive /\ [Next]_vars => OneActive'
  <2> SUFFICES ASSUME TypeOK, CliInv, OneActive, [Next]_vars PROVE OneActive'
    OBVIOUS
  <2> USE DEF TypeOK, Goto, Finish, Ended
  <2>1. CASE Frame
    BY <2>1 DEF Frame
  <2>2. ASSUME NEW l \in Launchers, Prepare(l) PROVE OneActive'
    <3>1. \A m \in Launchers \ {l} : Active(m)' => Active(m)
      BY <2>2 DEF Prepare
    <3>2. Solo => \A m \in Launchers \ {l} : ~Active(m)
      BY <2>2 DEF Prepare, Quiet
    <3>3. QED
      BY <3>1, <3>2
  <2>3. ASSUME NEW l \in Launchers, Launcher(l) PROVE OneActive'
    BY <2>3 DEF Launcher, Spawn, RecordUnspawned, RecordStarted, TestDeadline,
                Poll, Probe, RecordVerdict, WriteRaises, Closing
  <2>4. ASSUME NEW l \in Launchers, Crash(l) PROVE OneActive'
    BY <2>4 DEF Crash
  <2>5. ASSUME NEW l \in Launchers, Docker(l) PROVE OneActive'
    BY <2>5 DEF Docker, Create, Serve, Exit, CliExits
  <2>6. ASSUME NEW l \in Launchers, PassDeadline(l) PROVE Frame
    BY <2>6 DEF PassDeadline, Frame
  <2>7. ASSUME NEW n \in Names, StopBegins(n) \/ StopReturns(n) PROVE Frame
    BY <2>7 DEF StopBegins, StopReturns, Frame
  <2>8. QED
    BY <2>1, <2>2, <2>3, <2>4, <2>5, <2>6, <2>7 DEF Next, vars, Frame
<1>3. QED
  BY <1>1, <1>2, TypeCorrect, CliInvariant, PTL DEF Spec

-----------------------------------------------------------------------------
\* A launcher that is past its first receipt, and of which something is still
\* going on, finds its own receipt at its path.
LEMMA RecordInvariant == Spec => []RecordInv
<1> USE LaunchAssumption DEF RecordInv, Running
<1>1. Init => RecordInv
  BY DEF Init, Active, OnRecord, Waiting, Closing
<1>2. TypeOK /\ CliInv /\ OneActive /\ RecordInv /\ [Next]_vars => RecordInv'
  <2> SUFFICES ASSUME TypeOK, CliInv, OneActive, RecordInv, [Next]_vars,
                      Solo \/ PrivatePaths
               PROVE  \A m \in Launchers :
                        Active(m)' /\ OnRecord(m)' => receipt'[PathOf[m]].by = m
    BY DEF RecordInv
  <2> USE DEF TypeOK, Goto, Finish, Ended, Waiting, Closing
  \* A writing launcher is the only active one or the only one to write to
  \* that path, so no other record is lost.
  <2>a. ASSUME NEW l \in Launchers, NEW s, Write(l, s), Active(l),
               \A m \in Launchers \ {l} :
                 pc'[m] = pc[m] /\ cli'[m] = cli[m] /\ box'[m] = box[m]
        PROVE  \A m \in Launchers :
                 Active(m)' /\ OnRecord(m)' => receipt'[PathOf[m]].by = m
    <3>1. receipt'[PathOf[l]].by = l
      BY <2>a, WriteEffect
    <3>2. \A m \in Launchers \ {l} :
            /\ Active(m)' => Active(m)
            /\ OnRecord(m)' => OnRecord(m)
      BY <2>a DEF Active, OnRecord
    <3>3. Solo => \A m \in Launchers \ {l} : ~Active(m)
      BY <2>a DEF OneActive
    <3>4. CASE Solo
      BY <3>1, <3>2, <3>3, <3>4
    <3>5. CASE PrivatePaths
      <4>1. \A m \in Launchers \ {l} : receipt'[PathOf[m]] = receipt[PathOf[m]]
        BY <2>a, <3>5, WriteEffect DEF PrivatePaths
      <4>2. QED
        BY <3>1, <3>2, <4>1, <3>5 DEF RecordInv
    <3>6. QED
      BY <3>4, <3>5
  <2>1. CASE Frame
    BY <2>1 DEF Frame, Active, OnRecord
  <2>2. ASSUME NEW l \in Launchers, Prepare(l)
        PROVE  \A m \in Launchers :
                 Active(m)' /\ OnRecord(m)' => receipt'[PathOf[m]].by = m
    BY <2>2 DEF Prepare, Active, OnRecord, CliInv
  <2>3. ASSUME NEW l \in Launchers, Spawn(l)
        PROVE  \A m \in Launchers :
                 Active(m)' /\ OnRecord(m)' => receipt'[PathOf[m]].by = m
    BY <2>3 DEF Spawn, Active, OnRecord
  <2>4. ASSUME NEW l \in Launchers,
               RecordUnspawned(l) \/ RecordStarted(l) \/ RecordVerdict(l)
        PROVE  \A m \in Launchers :
                 Active(m)' /\ OnRecord(m)' => receipt'[PathOf[m]].by = m
    <3>1. CASE \E to \in {"raised", "unrecorded"} : WriteRaises(l, to)
      <4>1. CASE RecordUnspawned(l)
        BY <3>1, <4>1 DEF RecordUnspawned, WriteRaises, Active, OnRecord, CliInv
      <4>2. CASE RecordStarted(l)
        BY <3>1, <4>2 DEF RecordStarted, WriteRaises, Active, OnRecord
      <4>3. CASE RecordVerdict(l)
        BY <3>1, <4>3 DEF RecordVerdict, WriteRaises, Active, OnRecord
      <4>4. QED
        BY <2>4, <4>1, <4>2, <4>3
    <3>2. CASE \E s \in {"FAILED", "STARTED", Verdict[pc[l]]} : Write(l, s)
      <4>1. Active(l)
        BY <2>4 DEF RecordUnspawned, RecordStarted, RecordVerdict, Active
      <4>2. \A m \in Launchers \ {l} :
              pc'[m] = pc[m] /\ cli'[m] = cli[m] /\ box'[m] = box[m]
        BY <2>4 DEF RecordUnspawned, RecordStarted, RecordVerdict, WriteRaises
      <4>3. QED
        BY <3>2, <4>1, <4>2, <2>a
    <3>3. QED
      BY <2>4, <3>1, <3>2 DEF RecordUnspawned, RecordStarted, RecordVerdict
  <2>5. ASSUME NEW l \in Launchers, TestDeadline(l) \/ Poll(l) \/ Probe(l)
        PROVE  \A m \in Launchers :
                 Active(m)' /\ OnRecord(m)' => receipt'[PathOf[m]].by = m
    <3>1. UNCHANGED <<cli, box, receipt>>
      BY <2>5 DEF TestDeadline, Poll, Probe
    <3>2. Active(l) /\ OnRecord(l)
      BY <2>5 DEF TestDeadline, Poll, Probe, Active, OnRecord
    <3>3. \A m \in Launchers \ {l} : pc'[m] = pc[m]
      BY <2>5 DEF TestDeadline, Poll, Probe
    <3>4. QED
      BY <3>1, <3>2, <3>3 DEF Active, OnRecord
  <2>6. ASSUME NEW l \in Launchers, Crash(l)
        PROVE  \A m \in Launchers :
                 Active(m)' /\ OnRecord(m)' => receipt'[PathOf[m]].by = m
    <3>1. UNCHANGED <<cli, box, receipt>>
      BY <2>6 DEF Crash
    <3>2. \A m \in Launchers \ {l} : pc'[m] = pc[m]
      BY <2>6 DEF Crash
    <3>3. Active(l)' /\ OnRecord(l)' => Active(l) /\ OnRecord(l)
      <4>1. CASE pc[l] = "spawned"
        BY <2>6, <4>1 DEF Crash, OnRecord
      <4>2. CASE pc[l] \in {"cleared", "unspawned"}
        BY <2>6, <4>2 DEF Crash, Active, CliInv
      <4>3. CASE pc[l] \in Waiting \cup Closing
        BY <4>3 DEF Active, OnRecord
      <4>4. QED
        BY <2>6, <4>1, <4>2, <4>3 DEF Crash, Points
    <3>4. QED
      BY <3>1, <3>2, <3>3 DEF Active, OnRecord
  <2>7. ASSUME NEW l \in Launchers, Docker(l)
        PROVE  \A m \in Launchers :
                 Active(m)' /\ OnRecord(m)' => receipt'[PathOf[m]].by = m
    BY <2>7 DEF Docker, Create, Serve, Exit, CliExits, Active, OnRecord
  <2>8. ASSUME NEW l \in Launchers, PassDeadline(l) PROVE Frame
    BY <2>8 DEF PassDeadline, Frame
  <2>9. ASSUME NEW n \in Names, StopBegins(n) \/ StopReturns(n) PROVE Frame
    BY <2>9 DEF StopBegins, StopReturns, Frame
  <2>10. QED
    BY <2>1, <2>2, <2>3, <2>4, <2>5, <2>6, <2>7, <2>8, <2>9
       DEF Next, Launcher, vars, Frame
<1>3. QED
  BY <1>1, <1>2, TypeCorrect, CliInvariant, OneActiveInvariant, PTL DEF Spec

(* Where launchers are started one at a time, or no two of them share a    *)
(* receipt, a running container is on record at every step and however its *)
(* launcher ends, but for the window between Popen and the first receipt.  *)
THEOREM RunningIsTracked == Spec => []Tracked
<1>1. TypeOK /\ CliInv /\ FailedInv /\ RecordInv => Tracked
  <2> SUFFICES ASSUME TypeOK, CliInv, FailedInv, RecordInv,
                      Solo \/ PrivatePaths, "cli" \notin Faults,
                      NEW l \in Launchers, Running(l),
                      pc[l] \notin {"spawned", "unrecorded"}
               PROVE  /\ receipt[PathOf[l]].by = l
                      /\ receipt[PathOf[l]].status # "FAILED"
    BY DEF Tracked
  <2>1. cli[l] = "attached"
    BY DEF CliInv
  <2>2. pc[l] \notin {"idle", "cleared", "unspawned"}
    BY <2>1 DEF CliInv
  <2>3. OnRecord(l)
    BY <2>2 DEF TypeOK, OnRecord, Points, Ended
  <2>4. receipt[PathOf[l]].by = l
    BY <2>3 DEF RecordInv, Active
  <2>5. QED
    BY <2>1, <2>4, LaunchAssumption DEF FailedInv
<1>2. QED
  BY <1>1, TypeCorrect, CliInvariant, FailedInvariant, RecordInvariant, PTL

-----------------------------------------------------------------------------
\* With private receipt paths, what a launcher's receipt says of it follows
\* from its control point until the verdict is written.
RecInv ==
  \A l \in Launchers :
    /\ pc[l] \in {"idle", "cleared", "spawned", "unspawned"} => RecOf(l) = "none"
    /\ pc[l] \in Waiting \cup Closing => RecOf(l) = "STARTED"

\* A write is seen in the record of its launcher and of no other.
LEMMA WriteRec ==
  ASSUME TypeOK, PrivatePaths,
         NEW l \in Launchers, NEW s, Write(l, s), NEW m \in Launchers
  PROVE  RecOf(m)' = IF m = l THEN s ELSE RecOf(m)
<1>1. \/ PathOf[m] = PathOf[l] /\ receipt'[PathOf[m]].by = l
                               /\ receipt'[PathOf[m]].status = s
      \/ PathOf[m] # PathOf[l] /\ receipt'[PathOf[m]] = receipt[PathOf[m]]
  BY WriteEffect, LaunchAssumption
<1>2. PathOf[m] = PathOf[l] => m = l
  BY DEF PrivatePaths
<1>3. QED
  BY <1>1, <1>2 DEF RecOf

\* Steps that do not write leave every record as it is.
LEMMA SameRec ==
  ASSUME receipt' = receipt
  PROVE  \A m \in Launchers : RecOf(m)' = RecOf(m)
  BY DEF RecOf

\* The receipts follow their launchers for every set of launchers and faults.
LEMMA RecInvariant ==
  ASSUME PrivatePaths
  PROVE  Spec => []RecInv
<1> USE LaunchAssumption
<1>1. Init => RecInv
  <2> SUFFICES ASSUME Init PROVE RecInv
    OBVIOUS
  <2>1. \A l \in Launchers : RecOf(l) = "none"
    BY DEF Init, RecOf, NoReceipt
  <2>2. QED
    BY <2>1 DEF Init, RecInv, Waiting, Closing
<1>2. TypeOK /\ RecInv /\ [Next]_vars => RecInv'
  <2> SUFFICES ASSUME TypeOK, RecInv, [Next]_vars PROVE RecInv'
    OBVIOUS
  <2> USE DEF TypeOK, Goto, Finish, Ended, Waiting, Closing
  <2>1. CASE UNCHANGED <<pc, receipt>>
    BY <2>1, SameRec DEF RecInv
  <2>2. ASSUME NEW l \in Launchers, RecordUnspawned(l) PROVE RecInv'
    <3>1. CASE \E to \in {"raised", "unrecorded"} : WriteRaises(l, to)
      BY <2>2, <3>1, SameRec DEF RecordUnspawned, WriteRaises, RecInv
    <3>2. CASE Write(l, "FAILED") /\ Finish(l, "raised", "FAIL")
      BY <3>2, WriteRec DEF RecInv
    <3>3. QED
      BY <2>2, <3>1, <3>2 DEF RecordUnspawned
  <2>3. ASSUME NEW l \in Launchers, RecordStarted(l) PROVE RecInv'
    <3>1. CASE \E to \in {"raised", "unrecorded"} : WriteRaises(l, to)
      BY <2>3, <3>1, SameRec DEF RecordStarted, WriteRaises, RecInv
    <3>2. CASE Write(l, "STARTED") /\ (Goto(l, "loop") \/ Goto(l, "returned"))
      BY <3>2, WriteRec DEF RecInv
    <3>3. QED
      BY <2>3, <3>1, <3>2 DEF RecordStarted
  <2>4. ASSUME NEW l \in Launchers, RecordVerdict(l) PROVE RecInv'
    <3>1. CASE \E to \in {"raised", "unrecorded"} : WriteRaises(l, to)
      BY <2>4, <3>1, SameRec DEF RecordVerdict, WriteRaises, RecInv
    <3>2. CASE Write(l, Verdict[pc[l]]) /\ Goto(l, "returned")
      BY <3>2, WriteRec DEF RecInv
    <3>3. QED
      BY <2>4, <3>1, <3>2 DEF RecordVerdict
  <2>5. ASSUME NEW l \in Launchers,
               Prepare(l) \/ Spawn(l) \/ TestDeadline(l) \/ Poll(l) \/ Probe(l)
                 \/ Crash(l)
        PROVE  RecInv'
    BY <2>5, SameRec DEF Prepare, Spawn, TestDeadline, Poll, Probe, Crash, RecInv
  <2>6. ASSUME NEW l \in Launchers, PassDeadline(l) \/ Docker(l)
        PROVE  UNCHANGED <<pc, receipt>>
    BY <2>6 DEF PassDeadline, Docker, Create, Serve, Exit, CliExits
  <2>7. ASSUME NEW n \in Names, StopBegins(n) \/ StopReturns(n)
        PROVE  UNCHANGED <<pc, receipt>>
    BY <2>7 DEF StopBegins, StopReturns
  <2>8. QED
    BY <2>1, <2>2, <2>3, <2>4, <2>5, <2>6, <2>7 DEF Next, Launcher, vars
<1>3. QED
  BY <1>1, <1>2, TypeCorrect, PTL DEF Spec

(* The refinement: when no two launchers share a receipt path, the         *)
(* launchers, Docker and the stops together implement the launch contract. *)
THEOREM ContractKept ==
  ASSUME PrivatePaths
  PROVE  Spec => KeepsContract
<1> USE LaunchAssumption
<1> DEFINE rec == [l \in Launchers |-> RecOf(l)]
           run == [l \in Launchers |-> RunOf(l)]
<1>1. Init => Contract!Init
  <2> SUFFICES ASSUME Init PROVE Contract!Init
    OBVIOUS
  <2>1. \A l \in Launchers : RecOf(l) = "none"
    BY DEF Init, RecOf, NoReceipt
  <2>2. \A l \in Launchers : RunOf(l) = "never"
    BY DEF Init, RunOf
  <2>3. QED
    BY <2>1, <2>2 DEF Contract!Init
<1>2. TypeOK /\ CliInv /\ RecInv /\ [Next]_vars => [Contract!Next]_(Contract!vars)
  <2> SUFFICES ASSUME TypeOK, CliInv, RecInv, [Next]_vars
               PROVE  Contract!Next \/ (rec' = rec /\ run' = run)
    BY DEF Contract!vars
  <2> USE DEF TypeOK, Goto, Finish
  <2>1. CASE UNCHANGED <<cli, receipt>>
    BY <2>1 DEF RecOf, RunOf
  <2>2. ASSUME NEW l \in Launchers, Spawn(l)
        PROVE  Contract!Next \/ (rec' = rec /\ run' = run)
    <3>1. CASE cli' = [cli EXCEPT ![l] = "pending"]
      <4>1. run[l] = "never" /\ rec[l] = "none"
        BY <2>2 DEF Spawn, CliInv, RecInv, RunOf
      <4>2. rec' = rec
        BY <2>2, SameRec DEF Spawn
      <4>3. run' = [run EXCEPT ![l] = "up"]
        BY <3>1 DEF RunOf
      <4>4. QED
        BY <4>1, <4>2, <4>3 DEF Contract!Next, Contract!Start
    <3>2. CASE UNCHANGED cli
      BY <2>2, <3>2, <2>1 DEF Spawn
    <3>3. QED
      BY <2>2, <3>1, <3>2 DEF Spawn
  <2>3. ASSUME NEW l \in Launchers, RecordUnspawned(l), Write(l, "FAILED")
        PROVE  Contract!Next
    <3>1. run[l] = "never" /\ rec[l] = "none"
      BY <2>3 DEF RecordUnspawned, CliInv, RecInv, RunOf
    <3>2. rec' = [rec EXCEPT ![l] = "FAILED"]
      BY <2>3, WriteRec
    <3>3. run' = run
      BY <2>3 DEF RecordUnspawned, RunOf
    <3>4. QED
      BY <3>1, <3>2, <3>3 DEF Contract!Next, Contract!ReportUnstarted
  <2>4. ASSUME NEW l \in Launchers, RecordStarted(l), Write(l, "STARTED")
        PROVE  Contract!Next
    <3>1. run[l] # "never" /\ rec[l] = "none"
      BY <2>4 DEF RecordStarted, CliInv, RecInv, RunOf
    <3>2. rec' = [rec EXCEPT ![l] = "STARTED"]
      BY <2>4, WriteRec
    <3>3. run' = run
      BY <2>4 DEF RecordStarted, RunOf
    <3>4. QED
      BY <3>1, <3>2, <3>3 DEF Contract!Next, Contract!ReportStarted
  <2>5. ASSUME NEW l \in Launchers, RecordVerdict(l), Write(l, Verdict[pc[l]])
        PROVE  Contract!Next
    <3>1. rec[l] = "STARTED"
      BY <2>5 DEF RecordVerdict, RecInv
    <3>2. /\ Verdict[pc[l]] \in {"READY", "TIMEOUT", "FAILED"}
          /\ Verdict[pc[l]] = "FAILED" => run[l] = "down"
      BY <2>5 DEF RecordVerdict, Closing, Verdict, CliInv, RunOf
    <3>3. rec' = [rec EXCEPT ![l] = Verdict[pc[l]]]
      BY <2>5, WriteRec
    <3>4. run' = run
      BY <2>5 DEF RecordVerdict, RunOf
    <3>5. QED
      BY <3>1, <3>2, <3>3, <3>4 DEF Contract!Next, Contract!ReportVerdict
  <2>6. ASSUME NEW l \in Launchers, NEW to \in {"raised", "unrecorded"},
               WriteRaises(l, to),
               RecordUnspawned(l) \/ RecordStarted(l) \/ RecordVerdict(l)
        PROVE  UNCHANGED <<cli, receipt>>
    BY <2>6 DEF WriteRaises, RecordUnspawned, RecordStarted, RecordVerdict
  <2>7. ASSUME NEW l \in Launchers, Create(l) \/ CliExits(l)
        PROVE  Contract!Next \/ (rec' = rec /\ run' = run)
    <3>1. rec' = rec
      BY <2>7, SameRec DEF Create, CliExits
    <3>2. CASE cli' = [cli EXCEPT ![l] = "attached"] /\ cli[l] = "pending"
      BY <3>1, <3>2 DEF RunOf
    <3>3. CASE cli' = [cli EXCEPT ![l] = "exited"]
                 /\ cli[l] \in {"pending", "attached"}
      <4>1. run[l] = "up"
        BY <3>3 DEF RunOf
      <4>2. run' = [run EXCEPT ![l] = "down"]
        BY <3>3 DEF RunOf
      <4>3. QED
        BY <3>1, <4>1, <4>2 DEF Contract!Next, Contract!Die
    <3>4. QED
      BY <2>7, <3>2, <3>3 DEF Create, CliExits
  <2>8. ASSUME NEW l \in Launchers,
               \/ Prepare(l) \/ TestDeadline(l) \/ Poll(l) \/ Probe(l)
               \/ PassDeadline(l) \/ Crash(l) \/ Serve(l) \/ Exit(l)
        PROVE  UNCHANGED <<cli, receipt>>
    BY <2>8 DEF Prepare, TestDeadline, Poll, Probe, PassDeadline, Crash, Serve,
                Exit
  <2>9. ASSUME NEW n \in Names, StopBegins(n) \/ StopReturns(n)
        PROVE  UNCHANGED <<cli, receipt>>
    BY <2>9 DEF StopBegins, StopReturns
  <2>10. ASSUME NEW l \in Launchers,
                RecordUnspawned(l) \/ RecordStarted(l) \/ RecordVerdict(l)
         PROVE  Contract!Next \/ (rec' = rec /\ run' = run)
    BY <2>1, <2>3, <2>4, <2>5, <2>6, <2>10
       DEF RecordUnspawned, RecordStarted, RecordVerdict
  <2>11. QED
    BY <2>1, <2>2, <2>7, <2>8, <2>9, <2>10 DEF Next, Launcher, Docker, vars
<1>3. QED
  BY <1>1, <1>2, TypeCorrect, CliInvariant, RecInvariant, PTL
     DEF Spec, KeepsContract, Contract!Spec
-----------------------------------------------------------------------------
\* A stop that was sent aims at a container that was created, and one that is
\* said to have worked at one that is gone: its CLI process never asks for
\* another.  On a quiet host every other launch the request found is over.
StopInv ==
  \A n \in Names :
    /\ stop[n].phase \in {"sent", "STOPPED"} =>
         /\ stop[n].target \in Launchers
         /\ cli[stop[n].target] \in {"attached", "exited"}
         /\ Solo => \A l \in stop[n].seen \ {stop[n].target} :
                      cli[l] = "exited" /\ ~Running(l)
    /\ stop[n].phase = "STOPPED" => ~Running(stop[n].target)

\* What is known of every stop.
LEMMA StopInvariant == Spec => []StopInv
<1> USE LaunchAssumption DEF StopInv, Running
<1>1. Init => StopInv
  BY DEF Init
<1>2. TypeOK /\ CliInv /\ OneActive /\ StopInv /\ [Next]_vars => StopInv'
  <2> SUFFICES ASSUME TypeOK, CliInv, OneActive, StopInv, [Next]_vars
               PROVE  StopInv'
    OBVIOUS
  <2> USE DEF TypeOK
  <2>1. CASE UNCHANGED <<cli, box, stop>>
    BY <2>1
  <2>2. ASSUME NEW l \in Launchers, Spawn(l) PROVE StopInv'
    <3>1. cli[l] = "none"
      BY <2>2 DEF Spawn, CliInv
    <3>2. QED
      BY <2>2, <3>1 DEF Spawn
  <2>3. ASSUME NEW l \in Launchers, Docker(l) PROVE StopInv'
    BY <2>3 DEF Docker, Create, Serve, Exit, CliExits
  <2>4. ASSUME NEW n \in Names, StopBegins(n) PROVE StopInv'
    <3>1. CASE stop' = [stop EXCEPT ![n] = [phase |-> "FAIL", target |-> Nobody,
                                           seen |-> Started(n)]]
      BY <2>4, <3>1 DEF StopBegins
    <3>2. ASSUME NEW l \in Launchers, Running(l),
                 stop' = [stop EXCEPT ![n] = [phase |-> "sent", target |-> l,
                                              seen |-> Started(n)]]
          PROVE  StopInv'
      <4>1. cli[l] \in {"attached", "exited"}
        BY <3>2 DEF CliInv
      <4>2. Solo => \A m \in Launchers \ {l} : ~Active(m)
        BY <3>2 DEF OneActive, Active
      <4>3. Solo => \A m \in Started(n) \ {l} : cli[m] = "exited" /\ ~Running(m)
        BY <4>2 DEF Active, Started, CliStates
      <4>4. UNCHANGED <<cli, box>>
        BY <2>4 DEF StopBegins
      <4>5. QED
        BY <3>2, <4>1, <4>3, <4>4
    <3>3. QED
      BY <2>4, <3>1, <3>2 DEF StopBegins
  <2>5. ASSUME NEW n \in Names, StopReturns(n) PROVE StopInv'
    BY <2>5 DEF StopReturns, StopPhases
  <2>6. ASSUME NEW l \in Launchers,
               \/ Prepare(l) \/ RecordUnspawned(l) \/ RecordStarted(l)
               \/ TestDeadline(l) \/ Poll(l) \/ Probe(l) \/ RecordVerdict(l)
               \/ PassDeadline(l) \/ Crash(l)
        PROVE  UNCHANGED <<cli, box, stop>>
    BY <2>6 DEF Prepare, RecordUnspawned, RecordStarted, TestDeadline, Poll,
                Probe, RecordVerdict, PassDeadline, Crash
  <2>7. QED
    BY <2>1, <2>2, <2>3, <2>4, <2>5, <2>6 DEF Next, Launcher, vars
<1>3. QED
  BY <1>1, <1>2, TypeCorrect, CliInvariant, OneActiveInvariant, PTL DEF Spec

(* What STOPPED says of a name holds for every launch the request found,   *)
(* whether earlier stops were given up or repeated, and it holds for ever. *)
THEOREM StopCoversAll == Spec => []StopCoversLaunches
<1>1. TypeOK /\ StopInv => StopCoversLaunches
  BY DEF StopInv, StopCoversLaunches, TypeOK
<1>2. QED
  BY <1>1, TypeCorrect, StopInvariant, PTL

-----------------------------------------------------------------------------
(* On a quiet host the endpoint of the host answers for one launcher only: *)
(* the probe that makes a launcher READY reached its own container.        *)
THEOREM AnswerIsOwn == Spec => ReadyIsOwn
<1> USE LaunchAssumption
<1> DEFINE A == Solo => \A l \in Launchers :
                  pc[l] = "probe" /\ pc'[l] = "ready" => box[l] = "serving"
<1>1. TypeOK /\ OneActive /\ [Next]_vars => [A]_vars
  <2> SUFFICES ASSUME TypeOK, OneActive, Next, Solo, NEW l \in Launchers,
                      pc[l] = "probe", pc'[l] = "ready"
               PROVE  box[l] = "serving"
    OBVIOUS
  <2> USE DEF TypeOK, Goto, Finish
  <2>1. \E k \in Launchers : Probe(k)
    BY DEF Next, Launcher, Docker, Prepare, Spawn, RecordUnspawned, RecordStarted,
           TestDeadline, Poll, RecordVerdict, WriteRaises, PassDeadline, Crash,
           Create, Serve, Exit, CliExits, StopBegins, StopReturns
  <2>2. Answered
    BY <2>1 DEF Probe
  <2>3. PICK m \in Launchers : box[m] = "serving"
    BY <2>2 DEF Answered
  <2>4. Active(m) /\ Active(l)
    BY <2>3 DEF Active, Running, Ended
  <2>5. m = l
    BY <2>4 DEF OneActive
  <2>6. QED
    BY <2>3, <2>5
<1>2. QED
  BY <1>1, TypeCorrect, OneActiveInvariant, PTL DEF Spec, ReadyIsOwn

-----------------------------------------------------------------------------
\* What can be said of a launcher that raised, when no deadline falls between
\* the loop test and the probe, what answers is HTTP, and every receipt can be
\* written.
PunctualInv ==
  \A l \in Launchers :
    /\ late[l] => pc[l] \notin {"poll", "probe"}
    /\ pc[l] = "raised" => RecOf(l) # "STARTED"

\* What is known of a launcher that raised.
LEMMA PunctualInvariant ==
  ASSUME PrivatePaths, Faults \cap {"late", "write", "garbled"} = {}
  PROVE  Spec => []PunctualInv
<1> USE LaunchAssumption
<1>1. Init => PunctualInv
  BY DEF Init, PunctualInv
<1>2. TypeOK /\ RecInv /\ PunctualInv /\ [Next]_vars => PunctualInv'
  <2> SUFFICES ASSUME TypeOK, RecInv, PunctualInv, [Next]_vars PROVE PunctualInv'
    OBVIOUS
  <2> USE DEF TypeOK, Goto, Finish, Waiting, Closing
  <2>1. CASE UNCHANGED <<pc, late, receipt>>
    BY <2>1, SameRec DEF PunctualInv
  <2>2. ASSUME NEW l \in Launchers, RecordUnspawned(l) PROVE PunctualInv'
    <3>1. Write(l, "FAILED") /\ Finish(l, "raised", "FAIL") /\ late' = late
      BY <2>2 DEF RecordUnspawned, WriteRaises
    <3>2. QED
      BY <3>1, WriteRec DEF PunctualInv
  <2>3. ASSUME NEW l \in Launchers, RecordStarted(l) PROVE PunctualInv'
    <3>1. Write(l, "STARTED") /\ (Goto(l, "loop") \/ Goto(l, "returned"))
                              /\ late' = late
      BY <2>3 DEF RecordStarted, WriteRaises
    <3>2. QED
      BY <3>1, WriteRec DEF PunctualInv
  <2>4. ASSUME NEW l \in Launchers, RecordVerdict(l) PROVE PunctualInv'
    <3>1. Write(l, Verdict[pc[l]]) /\ Goto(l, "returned") /\ late' = late
      BY <2>4 DEF RecordVerdict, WriteRaises
    <3>2. QED
      BY <3>1, WriteRec DEF PunctualInv
  <2>5. ASSUME NEW l \in Launchers,
               Prepare(l) \/ Spawn(l) \/ TestDeadline(l) \/ Poll(l) \/ Crash(l)
        PROVE  PunctualInv'
    BY <2>5, SameRec
       DEF Prepare, Spawn, TestDeadline, Poll, Crash, PunctualInv, RecInv
  <2>6. ASSUME NEW l \in Launchers, Probe(l) PROVE PunctualInv'
    BY <2>6, SameRec DEF Probe, PunctualInv
  <2>7. ASSUME NEW l \in Launchers, PassDeadline(l) PROVE PunctualInv'
    BY <2>7, SameRec DEF PassDeadline, PunctualInv
  <2>8. ASSUME NEW l \in Launchers, Docker(l) PROVE UNCHANGED <<pc, late, receipt>>
    BY <2>8 DEF Docker, Create, Serve, Exit, CliExits
  <2>9. ASSUME NEW n \in Names, StopBegins(n) \/ StopReturns(n)
        PROVE  UNCHANGED <<pc, late, receipt>>
    BY <2>9 DEF StopBegins, StopReturns
  <2>10. QED
    BY <2>1, <2>2, <2>3, <2>4, <2>5, <2>6, <2>7, <2>8, <2>9
       DEF Next, Launcher, vars
<1>3. QED
  BY <1>1, <1>2, TypeCorrect, RecInvariant, PTL DEF Spec

(* Three faults lose the verdict of a launch that recorded STARTED: a      *)
(* deadline between the loop test and the probe, an answer or a URL that   *)
(* is no HTTP (http.client.HTTPException), and a receipt that cannot be    *)
(* written.  They are the only ones: without them no such launch ends with *)
(* an exception, whatever else fails, if receipts are private.             *)
THEOREM PunctualVerdict ==
  ASSUME PrivatePaths, Faults \cap {"late", "write", "garbled"} = {}
  PROVE  Spec => []VerdictRecorded
<1>1. TypeOK /\ PunctualInv => VerdictRecorded
  BY LaunchAssumption DEF PunctualInv, VerdictRecorded, RecOf, TypeOK
<1>2. QED
  BY <1>1, TypeCorrect, PunctualInvariant, PTL
=============================================================================
