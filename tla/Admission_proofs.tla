--------------------------- MODULE Admission_proofs ---------------------------
(***************************************************************************)
(* Proofs about Admission, for any number of calls, files, roots and       *)
(* digests and any sequence of edits.                                      *)
(***************************************************************************)
EXTENDS Admission, TLAPS

\* Somebody has stood up for this manifest.
Vouched(d) ==
  \E c \in Gates \cup Binds : pc[c] \in {"passed", "bound"} /\ digest[c] = d

\* Every digest in an admission, on disk or read, is vouched for, ...
FileInv == \A f \in Files : file[f].digest # None => Vouched(file[f].digest)
AdmInv  == \A c \in Calls : adm[c].digest # None => Vouched(adm[c].digest)

\* ... and a launch goes on with its own only.
LaunchInv == \A l \in Launches : pc[l] \in Admitted => adm[l].digest = digest[l]

BindingInv == FileInv /\ AdmInv /\ LaunchInv

-----------------------------------------------------------------------------
\* What replaces an admission on disk is an admission.
LEMMA EmptyIsAdmission == NoAdmission \in Admissions /\ Legacy \in Admissions
  BY DEF NoAdmission, Legacy, Admissions

\* The edits of an admission file lead to admission files.
LEMMA EditIsAdmission ==
  ASSUME NEW a \in Admissions, NEW p \in BOOLEAN, NEW d \in Digests \cup {None},
         NEW r \in Roots \cup {None}
  PROVE  /\ [a EXCEPT !.plain = p] \in Admissions
         /\ [a EXCEPT !.attested = TRUE] \in Admissions
         /\ [a EXCEPT !.plain = TRUE, !.digest = d, !.root = r] \in Admissions
  BY DEF Admissions

\* A call that moves on and has checked its manifest where it must.
LEMMA Moved ==
  ASSUME TypeOK, NEW c \in Calls, NEW to \in Points, Goto(c, to), UNCHANGED digest,
         to \notin Unloaded => digest[c] \in Digests
  PROVE  /\ pc' \in [Calls -> Points]
         /\ \A x \in Calls : pc'[x] \notin Unloaded => digest'[x] \in Digests
  BY DEF TypeOK, Goto

(* Every variable stays in its set, and a call that works for a manifest   *)
(* has found a valid one.                                                  *)
THEOREM TypeCorrect == Spec => []TypeOK
<1> USE AdmissionAssumption
<1>1. Init => TypeOK
  BY EmptyIsAdmission DEF Init, TypeOK, Points, Unloaded, Closed, Calls
<1>2. TypeOK /\ [Next]_vars => TypeOK'
  <2> SUFFICES ASSUME TypeOK, [Next]_vars PROVE TypeOK'
    OBVIOUS
  <2> USE DEF TypeOK, Goto, Refuse, Points, Unloaded, disk
  <2>1. CASE UNCHANGED vars
    BY <2>1 DEF vars, calls
  <2>2. ASSUME NEW c \in Calls, LoadManifest(c) PROVE TypeOK'
    BY <2>2 DEF LoadManifest
  <2>3. ASSUME NEW c \in Calls, LoadLock(c) PROVE TypeOK'
    BY <2>3 DEF LoadLock
  <2>4. ASSUME NEW g \in Gates, Evaluate(g) PROVE TypeOK'
    BY <2>4 DEF Evaluate, Calls
  <2>5. ASSUME NEW g \in Gates, Truncate(g) PROVE TypeOK'
    <3>1. file' \in [Files -> Admissions]
      BY <2>5, EmptyIsAdmission DEF Truncate, Admissions
    <3>2. QED
      BY <2>5, <3>1 DEF Truncate, Calls, OnlyCalm
  <2>6. ASSUME NEW g \in Gates, Emit(g) PROVE TypeOK'
    <3>1. g \in Calls /\ OutputOf[g] \in Files
      BY DEF Calls
    <3>2. \A p \in BOOLEAN :
            /\ pc[g] = "pass" =>
                 [[NoAdmission EXCEPT !.status = "PHASE0_PASS", !.digest = digest[g]]
                    EXCEPT !.plain = p] \in Admissions
            /\ [[NoAdmission EXCEPT !.status = "NO_VERDICT"] EXCEPT !.plain = p] \in Admissions
      BY <3>1 DEF NoAdmission, Admissions
    <3>3. file[OutputOf[g]].plain \in BOOLEAN
      BY <3>1 DEF Admissions
    <3>4. file' \in [Files -> Admissions]
      BY <2>6, <3>1, <3>2, <3>3 DEF Emit
    <3>5. QED
      BY <2>6, <3>1, <3>4 DEF Emit, OnlyCalm
  <2>7. ASSUME NEW c \in Binds \cup Launches, StatAdmission(c) PROVE TypeOK'
    BY <2>7 DEF StatAdmission, Calls
  <2>8. ASSUME NEW c \in Binds \cup Launches, ReadAdmission(c) PROVE TypeOK'
    <3>1. c \in Calls /\ InputOf[c] \in Files /\ digest[c] \in Digests
      BY <2>8 DEF Calls, ReadAdmission
    <3>2. \E to \in {"refused", "failing", "publish", "root"} : Goto(c, to)
      BY <2>8 DEF ReadAdmission
    <3>3. UNCHANGED digest
      BY <2>8 DEF ReadAdmission
    <3>4. /\ pc' \in [Calls -> Points]
          /\ \A x \in Calls : pc'[x] \notin Unloaded => digest'[x] \in Digests
      BY <3>1, <3>2, <3>3, Moved
    <3>5. adm' \in [Calls -> Admissions]
      BY <2>8, <3>1 DEF ReadAdmission
    <3>6. QED
      BY <2>8, <3>3, <3>4, <3>5 DEF ReadAdmission
  <2>9. ASSUME NEW c \in Binds \cup Launches, OpenRoot(c) PROVE TypeOK'
    <3>1. c \in Calls /\ digest[c] \in Digests
      BY <2>9 DEF Calls, OpenRoot
    <3>2. \E to \in {"refused", "failing", "mode"} : Goto(c, to)
      BY <2>9 DEF OpenRoot
    <3>3. UNCHANGED digest
      BY <2>9 DEF OpenRoot
    <3>4. /\ pc' \in [Calls -> Points]
          /\ \A x \in Calls : pc'[x] \notin Unloaded => digest'[x] \in Digests
      BY <3>1, <3>2, <3>3, Moved
    <3>5. held' \in [Calls -> [dir : Dirs \cup {None}, writable : BOOLEAN]]
      <4> DEFINE d == names[RootOf[c]]
                 h == [dir |-> d, writable |-> d \in writable]
      <4>1. (d \in writable) \in BOOLEAN
        OBVIOUS
      <4>2. d \in Dirs => h \in [dir : Dirs \cup {None}, writable : BOOLEAN]
        BY <4>1
      <4>3. \/ d \in Dirs /\ held' = [held EXCEPT ![c] = h]
            \/ held' = held
        BY <2>9 DEF OpenRoot
      <4> HIDE DEF d, h
      <4>4. QED
        BY <3>1, <4>2, <4>3
    <3>6. QED
      BY <2>9, <3>3, <3>4, <3>5 DEF OpenRoot
  <2>10. ASSUME NEW c \in Binds \cup Launches, CheckReadOnly(c) PROVE TypeOK'
    BY <2>10 DEF CheckReadOnly, Calls
  <2>11. ASSUME NEW c \in Binds \cup Launches, Rebound(c) PROVE TypeOK'
    <3>1. c \in Calls /\ digest[c] \in Digests
      BY <2>11 DEF Calls, Rebound
    <3>2. \E to \in {"refused", "failing", "checked", "publish"} : Goto(c, to)
      BY <2>11 DEF Rebound
    <3>3. UNCHANGED digest
      BY <2>11 DEF Rebound
    <3>4. /\ pc' \in [Calls -> Points]
          /\ \A x \in Calls : pc'[x] \notin Unloaded => digest'[x] \in Digests
      BY <3>1, <3>2, <3>3, Moved
    <3>5. QED
      BY <2>11, <3>3, <3>4 DEF Rebound
  <2>12. ASSUME NEW b \in Binds, Publish(b) PROVE TypeOK'
    <3>1. b \in Calls /\ OutputOf[b] \in Files /\ RootOf[b] \in Roots \cup {None}
      BY DEF Calls
    <3>2. [adm[b] EXCEPT !.plain = TRUE, !.digest = digest[b],
                         !.root = IF RootOf[b] = None THEN @ ELSE RootOf[b]] \in Admissions
      <4> DEFINE r == IF RootOf[b] = None THEN adm[b].root ELSE RootOf[b]
      <4>1. adm[b] \in Admissions /\ digest[b] \in Digests \cup {None}
        BY <3>1
      <4>2. adm[b].root \in Roots \cup {None}
        BY <4>1 DEF Admissions
      <4>3. r \in Roots \cup {None}
        BY <3>1, <4>2
      <4>4. [adm[b] EXCEPT !.plain = TRUE, !.digest = digest[b], !.root = r] \in Admissions
        BY <4>1, <4>3, EditIsAdmission
      <4>5. QED
        BY <4>4
    <3>3. file' \in [Files -> Admissions]
      BY <2>12, <3>1, <3>2 DEF Publish
    <3>4. QED
      BY <2>12, <3>1, <3>3 DEF Publish, OnlyCalm
  <2>13. ASSUME NEW l \in Launches, BuildArgv(l) PROVE TypeOK'
    BY <2>13 DEF BuildArgv, Calls
  <2>14. ASSUME NEW l \in Launches, Mount(l) PROVE TypeOK'
    BY <2>14 DEF Mount, Calls
  <2>15. CASE Operator
    <3> USE DEF Edit, calls
    <3>1. CASE EditManifest \/ EditLock
      BY <3>1 DEF EditManifest, EditLock
    <3>2. ASSUME NEW f \in Files, Attest(f) PROVE TypeOK'
      <4>1. [file[f] EXCEPT !.attested = TRUE] \in Admissions
        BY EditIsAdmission
      <4>2. file' \in [Files -> Admissions]
        BY <3>2, <4>1 DEF Attest
      <4>3. QED
        BY <3>2, <4>2 DEF Attest
    <3>3. ASSUME NEW f \in Files, NEW g \in Files, Restore(f, g) PROVE TypeOK'
      <4>1. \A p \in BOOLEAN : [file[g] EXCEPT !.plain = p] \in Admissions
        BY EditIsAdmission
      <4>2. file' \in [Files -> Admissions]
        BY <3>3, <4>1 DEF Restore
      <4>3. QED
        BY <3>3, <4>2 DEF Restore
    <3>4. ASSUME NEW d \in Dirs, Chmod(d) PROVE TypeOK'
      BY <3>4 DEF Chmod
    <3>5. ASSUME NEW r \in Roots, MoveRoot(r) PROVE TypeOK'
      BY <3>5 DEF MoveRoot
    <3>6. QED
      BY <2>15, <3>1, <3>2, <3>3, <3>4, <3>5 DEF Operator
  <2>16. QED
    BY <2>1, <2>2, <2>3, <2>4, <2>5, <2>6, <2>7, <2>8, <2>9, <2>10, <2>11, <2>12,
       <2>13, <2>14, <2>15 DEF Next, Load, Gate, Preflight, Launch
<1>3. QED
  BY <1>1, <1>2, PTL DEF Spec

-----------------------------------------------------------------------------
\* A call that passed or bound stays where it is, for the manifest it had.
LEMMA EndedStays ==
  ASSUME TypeOK, [Next]_vars, NEW c \in Calls, pc[c] \in {"passed", "bound"}
  PROVE  pc'[c] = pc[c] /\ digest'[c] = digest[c]
<1> USE AdmissionAssumption DEF TypeOK, Goto, Refuse, calls, Calls
<1>1. CASE UNCHANGED vars
  BY <1>1 DEF vars
<1>2. ASSUME NEW x \in Calls, Load(x) PROVE pc'[c] = pc[c] /\ digest'[c] = digest[c]
  BY <1>2 DEF Load, LoadManifest, LoadLock
<1>3. ASSUME NEW x \in Gates, Gate(x) PROVE pc'[c] = pc[c] /\ digest'[c] = digest[c]
  BY <1>3 DEF Gate, Evaluate, Truncate, Emit
<1>4. ASSUME NEW x \in Binds \cup Launches, Preflight(x)
      PROVE  pc'[c] = pc[c] /\ digest'[c] = digest[c]
  BY <1>4 DEF Preflight, StatAdmission, ReadAdmission, OpenRoot, CheckReadOnly, Rebound
<1>5. ASSUME NEW x \in Binds, Publish(x) PROVE pc'[c] = pc[c] /\ digest'[c] = digest[c]
  BY <1>5 DEF Publish
<1>6. ASSUME NEW x \in Launches, Launch(x) PROVE pc'[c] = pc[c] /\ digest'[c] = digest[c]
  BY <1>6 DEF Launch, BuildArgv, Mount
<1>7. CASE Operator
  BY <1>7 DEF Operator, EditManifest, EditLock, Attest, Restore, Chmod, MoveRoot, Edit
<1>8. QED
  BY <1>1, <1>2, <1>3, <1>4, <1>5, <1>6, <1>7 DEF Next

\* A gate run or a binding that vouched for a manifest has vouched for it from
\* then on.
LEMMA VouchedStays ==
  ASSUME TypeOK, [Next]_vars, NEW d, Vouched(d)
  PROVE  Vouched(d)'
<1>1. PICK c \in Gates \cup Binds : pc[c] \in {"passed", "bound"} /\ digest[c] = d
  BY DEF Vouched
<1>2. pc'[c] = pc[c] /\ digest'[c] = digest[c]
  BY <1>1, EndedStays DEF Calls
<1>3. QED
  BY <1>1, <1>2 DEF Vouched

\* Whatever is written to an admission, by a call or by anybody else, carries
\* no digest, or that of another admission, or that of the call that writes.
LEMMA FilesStay ==
  ASSUME TypeOK, FileInv, AdmInv, [Next]_vars
  PROVE  FileInv'
<1> SUFFICES ASSUME NEW f \in Files, NEW d, file'[f].digest = d, d # None
             PROVE  Vouched(d)'
  BY DEF FileInv
<1> USE AdmissionAssumption
<1>1. ASSUME NEW g \in Files, file'[f].digest = file[g].digest
      PROVE  Vouched(d)'
  BY <1>1, VouchedStays DEF FileInv
<1>2. CASE UNCHANGED file
  BY <1>1, <1>2
<1>3. ASSUME NEW g \in Gates, Truncate(g) PROVE Vouched(d)'
  <2>1. f # OutputOf[g]
    BY <1>3 DEF Truncate, TypeOK, NoAdmission
  <2>2. file'[f] = file[f]
    BY <1>3, <2>1 DEF Truncate, TypeOK
  <2>3. QED
    BY <1>1, <2>2
<1>4. ASSUME NEW g \in Gates, Emit(g) PROVE Vouched(d)'
  <2>1. CASE f # OutputOf[g]
    BY <1>1, <1>4, <2>1 DEF Emit, TypeOK
  <2>2. CASE f = OutputOf[g]
    <3>1. pc[g] = "pass" /\ file'[f].digest = digest[g]
      BY <1>4, <2>2 DEF Emit, TypeOK, NoAdmission
    <3>2. pc'[g] = "passed" /\ digest'[g] = digest[g]
      BY <1>4, <3>1 DEF Emit, TypeOK, Goto, Calls
    <3>3. QED
      BY <3>1, <3>2 DEF Vouched
  <2>3. QED
    BY <2>1, <2>2
<1>5. ASSUME NEW b \in Binds, Publish(b) PROVE Vouched(d)'
  <2>1. CASE f # OutputOf[b] \/ UNCHANGED file
    BY <1>1, <1>2, <1>5, <2>1 DEF Publish, TypeOK
  <2>2. CASE f = OutputOf[b] /\ file' # file
    <3>1. adm[b] \in Admissions
      BY DEF TypeOK, Calls
    <3>2. file'[f].digest = digest[b]
      <4> DEFINE r == IF RootOf[b] = None THEN adm[b].root ELSE RootOf[b]
                 a == [adm[b] EXCEPT !.plain = TRUE, !.digest = digest[b], !.root = r]
      <4>1. a.digest = digest[b]
        <5> HIDE DEF r
        <5> QED
          BY <3>1 DEF Admissions
      <4>2. file' = [file EXCEPT ![OutputOf[b]] = a]
        BY <1>5, <2>2 DEF Publish
      <4> HIDE DEF a
      <4>3. QED
        BY <2>2, <4>1, <4>2 DEF TypeOK
    <3>3. pc'[b] = "bound" /\ digest'[b] = digest[b]
      BY <1>5, <2>2 DEF Publish, TypeOK, Goto, Calls
    <3>4. QED
      BY <3>2, <3>3 DEF Vouched
  <2>3. QED
    BY <2>1, <2>2
<1>6. ASSUME NEW g \in Files, Attest(g) PROVE Vouched(d)'
  <2>1. file'[f].digest = file[f].digest
    BY <1>6 DEF Attest, TypeOK, Admissions
  <2>2. QED
    BY <1>1, <2>1
<1>7. ASSUME NEW g \in Files, NEW h \in Files, Restore(g, h) PROVE Vouched(d)'
  <2>1. file'[f].digest \in {file[f].digest, file[h].digest}
    <3>1. PICK p \in BOOLEAN : file' = [file EXCEPT ![g] = [file[h] EXCEPT !.plain = p]]
      BY <1>7 DEF Restore
    <3>2. file[h] \in Admissions
      BY DEF TypeOK
    <3>3. [file[h] EXCEPT !.plain = p].digest = file[h].digest
      BY <3>2 DEF Admissions
    <3> DEFINE a == [file[h] EXCEPT !.plain = p]
    <3>4. a.digest = file[h].digest /\ file' = [file EXCEPT ![g] = a]
      BY <3>1, <3>3
    <3> HIDE DEF a
    <3>5. QED
      BY <3>4 DEF TypeOK
  <2>2. QED
    BY <1>1, <2>1
<1>8. QED
  BY <1>2, <1>3, <1>4, <1>5, <1>6, <1>7 DEF Next, Load, LoadManifest, LoadLock, Gate,
     Evaluate, Preflight, StatAdmission, ReadAdmission, OpenRoot, CheckReadOnly, Rebound,
     Launch, BuildArgv, Mount, Operator, EditManifest, EditLock, Chmod, MoveRoot, vars, disk

\* What a call has read was on disk.
LEMMA AdmissionsStay ==
  ASSUME TypeOK, FileInv, AdmInv, [Next]_vars
  PROVE  AdmInv'
<1> SUFFICES ASSUME NEW c \in Calls, NEW d, adm'[c].digest = d, d # None
             PROVE  Vouched(d)'
  BY DEF AdmInv
<1> USE AdmissionAssumption
<1>1. CASE UNCHANGED adm
  BY <1>1, VouchedStays DEF AdmInv
<1>2. ASSUME NEW x \in Binds \cup Launches, ReadAdmission(x) PROVE Vouched(d)'
  <2>1. adm'[c] \in {adm[c], file[InputOf[x]]}
    BY <1>2 DEF ReadAdmission, TypeOK, Calls
  <2>2. Vouched(d)
    BY <2>1 DEF FileInv, AdmInv
  <2>3. QED
    BY <2>2, VouchedStays
<1>3. QED
  BY <1>1, <1>2 DEF Next, Load, LoadManifest, LoadLock, Gate, Evaluate, Truncate, Emit,
     Preflight, StatAdmission, OpenRoot, CheckReadOnly, Rebound, Publish, Launch,
     BuildArgv, Mount, Operator, EditManifest, EditLock, Attest, Restore, Chmod, MoveRoot,
     Edit, vars, calls

\* A launch compares once, and neither digest changes afterwards.
LEMMA LaunchesStay ==
  ASSUME TypeOK, LaunchInv, [Next]_vars
  PROVE  LaunchInv'
<1> SUFFICES ASSUME NEW l \in Launches, pc'[l] \in Admitted
             PROVE  adm'[l].digest = digest'[l]
  BY DEF LaunchInv
<1> USE AdmissionAssumption DEF TypeOK, LaunchInv, Admitted, Calls
<1>1. CASE UNCHANGED <<pc[l], adm[l], digest[l]>>
  BY <1>1
<1>2. ASSUME NEW c \in Calls, Load(c) PROVE adm'[l].digest = digest'[l]
  BY <1>2 DEF Load, LoadManifest, LoadLock, Goto, Refuse
<1>3. ASSUME NEW c \in Binds \cup Launches, ReadAdmission(c) PROVE adm'[l].digest = digest'[l]
  BY <1>3 DEF ReadAdmission, Goto, Refuse
<1>4. ASSUME NEW c \in Binds \cup Launches,
             StatAdmission(c) \/ OpenRoot(c) \/ CheckReadOnly(c) \/ Rebound(c)
      PROVE  adm'[l].digest = digest'[l]
  BY <1>4 DEF StatAdmission, OpenRoot, CheckReadOnly, Rebound, Goto, Refuse
<1>5. ASSUME NEW m \in Launches, Launch(m) PROVE adm'[l].digest = digest'[l]
  BY <1>5 DEF Launch, BuildArgv, Mount, Goto
<1>6. ASSUME NEW g \in Gates, Gate(g) PROVE adm'[l].digest = digest'[l]
  BY <1>6 DEF Gate, Evaluate, Truncate, Emit, Goto
<1>7. ASSUME NEW b \in Binds, Publish(b) PROVE adm'[l].digest = digest'[l]
  BY <1>7 DEF Publish, Goto, Refuse
<1>8. CASE Operator \/ UNCHANGED vars
  BY <1>1, <1>8 DEF Operator, EditManifest, EditLock, Attest, Restore, Chmod, MoveRoot,
     Edit, vars, calls
<1>9. QED
  BY <1>2, <1>3, <1>4, <1>5, <1>6, <1>7, <1>8 DEF Next, Preflight

(* A launch goes past its admission only for a manifest that some gate run *)
(* passed or some binding bound, under the digest that the container is    *)
(* labelled with, in spite of any edits, copies and links in between.      *)
THEOREM LaunchesBound == Spec => []BoundToManifest
<1>1. Init => BindingInv
  BY DEF Init, BindingInv, FileInv, AdmInv, LaunchInv, NoAdmission, Legacy, Admitted, Calls
<1>2. TypeOK /\ BindingInv /\ [Next]_vars => BindingInv'
  BY FilesStay, AdmissionsStay, LaunchesStay DEF BindingInv
<1>3. TypeOK /\ BindingInv => BoundToManifest
  <2> SUFFICES ASSUME TypeOK, BindingInv, NEW l \in Launches, pc[l] \in Admitted
               PROVE  Vouched(digest[l])
    BY DEF BoundToManifest, Vouched
  <2>1. digest[l] \in Digests /\ None \notin Digests
    BY AdmissionAssumption DEF TypeOK, Admitted, Unloaded, Calls
  <2>2. adm[l].digest = digest[l]
    BY DEF BindingInv, LaunchInv
  <2>3. QED
    BY <2>1, <2>2 DEF BindingInv, AdmInv, Calls
<1>4. QED
  BY <1>1, <1>2, <1>3, TypeCorrect, PTL DEF Spec

-----------------------------------------------------------------------------
\* What a root check knows before any rename, and after the only one: the
\* directory it holds is the one that the path names, or the name is gone.
RootInv ==
  \A c \in Binds \cup Launches :
    /\ pc[c] = "mode" /\ moves = 0 => names[RootOf[c]] = held[c].dir
    /\ pc[c] = "rebound" /\ moves = 0 =>
         ~held[c].writable \/ held[c].dir \in ReadOnlyFs
    /\ pc[c] = "rebound" /\ moves <= 1 =>
         \/ ~held[c].writable \/ held[c].dir \in ReadOnlyFs
         \/ names[RootOf[c]] # held[c].dir

\* What a root check knows when at most one rename happens.
LEMMA RootInvariant == Spec => []RootInv
<1> USE AdmissionAssumption DEF RootInv
<1>1. Init => RootInv
  BY DEF Init, Calls
<1>2. TypeOK /\ RootInv /\ [Next]_vars => RootInv'
  <2> SUFFICES ASSUME TypeOK, RootInv, [Next]_vars PROVE RootInv'
    OBVIOUS
  <2> USE DEF TypeOK, Goto, Refuse, calls, disk, Calls
  <2>1. CASE UNCHANGED <<pc, held, names, moves>>
    BY <2>1
  <2>2. ASSUME NEW c \in Calls, Load(c) PROVE RootInv'
    BY <2>2 DEF Load, LoadManifest, LoadLock
  <2>3. ASSUME NEW g \in Gates, Gate(g) PROVE RootInv'
    BY <2>3 DEF Gate, Evaluate, Truncate, Emit
  <2>4. ASSUME NEW c \in Binds \cup Launches,
               StatAdmission(c) \/ ReadAdmission(c) \/ Rebound(c)
        PROVE  RootInv'
    BY <2>4 DEF StatAdmission, ReadAdmission, Rebound
  <2>5. ASSUME NEW c \in Binds \cup Launches, OpenRoot(c) PROVE RootInv'
    <3>1. /\ UNCHANGED <<names, moves>>
          /\ \A x \in Calls \ {c} : pc'[x] = pc[x] /\ held'[x] = held[x]
          /\ pc'[c] = "mode" => held'[c].dir = names[RootOf[c]]
          /\ pc'[c] # "rebound"
      BY <2>5 DEF OpenRoot
    <3>2. QED
      BY <3>1
  <2>6. ASSUME NEW c \in Binds \cup Launches, CheckReadOnly(c) PROVE RootInv'
    BY <2>6 DEF CheckReadOnly
  <2>7. ASSUME NEW b \in Binds, Publish(b) PROVE RootInv'
    BY <2>7 DEF Publish
  <2>8. ASSUME NEW l \in Launches, Launch(l) PROVE RootInv'
    BY <2>8 DEF Launch, BuildArgv, Mount
  <2>9. ASSUME NEW r \in Roots, MoveRoot(r) PROVE RootInv'
    <3>1. moves' = moves + 1 /\ moves \in Nat /\ UNCHANGED <<pc, held>>
      BY <2>9 DEF MoveRoot
    <3>2. moves' # 0 /\ (moves' <= 1 => moves = 0)
      BY <3>1
    <3>3. QED
      BY <3>1, <3>2
  <2>10. CASE Operator /\ ~(\E r \in Roots : MoveRoot(r))
    BY <2>1, <2>10 DEF Operator, EditManifest, EditLock, Attest, Restore, Chmod, Edit
  <2>11. QED
    BY <2>1, <2>2, <2>3, <2>4, <2>5, <2>6, <2>7, <2>8, <2>9, <2>10
       DEF Next, Preflight, Operator, vars
<1>3. QED
  BY <1>1, <1>2, TypeCorrect, PTL DEF Spec

(* Modes may change at any time: a single rename does not get a directory  *)
(* that is writable, and that the path names, through a root check.        *)
THEOREM OneRenameIsCaught == Spec => RootIsReadOnly
<1> USE AdmissionAssumption
<1> DEFINE A == \A c \in Binds \cup Launches :
                  CheckPasses(c) /\ moves <= 1 =>
                    ReadOnly(held[c].dir) \/ names[RootOf[c]] # held[c].dir
<1>1. TypeOK /\ RootInv /\ [Next]_vars => [A]_vars
  <2> SUFFICES ASSUME TypeOK, RootInv, Next, NEW c \in Binds \cup Launches,
                      CheckPasses(c), moves <= 1
               PROVE  ReadOnly(held[c].dir) \/ names[RootOf[c]] # held[c].dir
    OBVIOUS
  <2> USE DEF TypeOK, Goto, Refuse, calls, disk, Calls
  <2>a. ASSUME NEW x \in Calls, Load(x) PROVE FALSE
    BY <2>a DEF CheckPasses, Load, LoadManifest, LoadLock
  <2>b. ASSUME NEW g \in Gates, Gate(g) PROVE FALSE
    BY <2>b DEF CheckPasses, Gate, Evaluate, Truncate, Emit
  <2>c. ASSUME NEW x \in Binds \cup Launches, Preflight(x) PROVE Rebound(c)
    BY <2>c DEF CheckPasses, Preflight, StatAdmission, ReadAdmission, OpenRoot,
                CheckReadOnly, Rebound
  <2>d. ASSUME NEW b \in Binds, Publish(b) PROVE FALSE
    BY <2>d DEF CheckPasses, Publish
  <2>e. ASSUME NEW l \in Launches, Launch(l) PROVE FALSE
    BY <2>e DEF CheckPasses, Launch, BuildArgv, Mount
  <2>f. ~Operator
    BY DEF CheckPasses, Operator, EditManifest, EditLock, Attest, Restore, Chmod, MoveRoot,
           Edit
  <2>1. Rebound(c)
    BY <2>a, <2>b, <2>c, <2>d, <2>e, <2>f DEF Next
  <2>2. held[c].writable = (held[c].dir \in writable)
    BY <2>1 DEF CheckPasses, Rebound
  <2>3. QED
    BY <2>2 DEF CheckPasses, RootInv, ReadOnly
<1>2. QED
  BY <1>1, TypeCorrect, RootInvariant, PTL DEF Spec, RootIsReadOnly

-----------------------------------------------------------------------------
\* The open directory is the one the path names, in the mode it has.
RootSeen(c) ==
  /\ names[RootOf[c]] \in Dirs
  /\ held[c].dir = names[RootOf[c]]
  /\ held[c].writable = (held[c].dir \in writable)

\* Whatever a binding has seen is still there while it is calm, and so is what
\* it wrote.
BindKnows(b) ==
  /\ pc[b] \in {"loaded", "stat", "read", "root", "mode", "rebound", "publish", "bound"} =>
       manifest \in Digests /\ digest[b] = manifest
  /\ pc[b] \in {"stat", "read", "root", "mode", "rebound", "publish", "bound"} =>
       lock = manifest
  /\ pc[b] \in {"root", "mode", "rebound", "publish"} => Valid(adm[b])
  /\ pc[b] \in {"mode", "rebound"} => RootSeen(b)
  /\ \/ pc[b] = "rebound"
     \/ pc[b] \in {"publish", "bound"} /\ RootOf[b] # None
     => names[RootOf[b]] \in Dirs /\ ReadOnly(names[RootOf[b]])
  /\ pc[b] = "bound" =>
       /\ file[OutputOf[b]].plain
       /\ Valid(file[OutputOf[b]])
       /\ file[OutputOf[b]].digest = digest[b]
       /\ RootOf[b] # None => file[OutputOf[b]].root = RootOf[b]

\* What a launch after it has found so far, each time what the binding left.
LaunchFollows(l) ==
  /\ pc[l] \notin {"start", "refused"}
  /\ digest[l] = manifest
  /\ pc[l] \in {"root", "mode", "rebound"} => adm[l].root = RootOf[l]
  /\ pc[l] \in {"mode", "rebound"} => RootSeen(l)

QuietInv ==
  /\ \A b \in Binds \cap calm : BindKnows(b)
  /\ \A l \in Launches : \A b \in after[l] : pc[b] = "bound"
  /\ \A l \in Launches : \A b \in after[l] \cap calm :
       OutputOf[b] = InputOf[l] /\ RootOf[b] = RootOf[l] => LaunchFollows(l)

\* Nobody but the call itself changes what it knows.
Own(c) == UNCHANGED <<pc[c], digest[c], adm[c], held[c]>>

\* What a step can do to a given binding or launch.
LEMMA OwnSteps ==
  ASSUME TypeOK, [Next]_vars, NEW c \in Binds \cup Launches
  PROVE  \/ Own(c) \/ Load(c) \/ Preflight(c)
         \/ c \in Binds /\ Publish(c)
         \/ c \in Launches /\ Launch(c)
<1> USE AdmissionAssumption DEF TypeOK, Goto, Refuse, calls, Calls, Own
<1>1. CASE UNCHANGED calls
  BY <1>1
<1>2. ASSUME NEW x \in Calls, Load(x), x # c PROVE Own(c)
  BY <1>2 DEF Load, LoadManifest, LoadLock
<1>3. ASSUME NEW g \in Gates, Gate(g) PROVE Own(c)
  BY <1>3 DEF Gate, Evaluate, Truncate, Emit
<1>4. ASSUME NEW x \in Binds \cup Launches, Preflight(x), x # c PROVE Own(c)
  <2>1. CASE StatAdmission(x) \/ CheckReadOnly(x) \/ Rebound(x)
    BY <1>4, <2>1 DEF StatAdmission, CheckReadOnly, Rebound
  <2>2. CASE ReadAdmission(x)
    BY <1>4, <2>2 DEF ReadAdmission
  <2>3. CASE OpenRoot(x)
    BY <1>4, <2>3 DEF OpenRoot
  <2>4. QED
    BY <1>4, <2>1, <2>2, <2>3 DEF Preflight
<1>5. ASSUME NEW b \in Binds, Publish(b), b # c PROVE Own(c)
  BY <1>5 DEF Publish
<1>6. ASSUME NEW l \in Launches, Launch(l), l # c PROVE Own(c)
  BY <1>6 DEF Launch, BuildArgv, Mount
<1>7. CASE Operator
  BY <1>1, <1>7 DEF Operator, EditManifest, EditLock, Attest, Restore, Chmod, MoveRoot, Edit
<1>8. QED
  BY <1>1, <1>2, <1>3, <1>4, <1>5, <1>6, <1>7 DEF Next, vars

\* While a binding is calm the disk stays as it is, but for its own write.
LEMMA CalmSteps ==
  ASSUME TypeOK, [Next]_vars, NEW b \in Binds, b \in calm'
  PROVE  \/ b \in calm /\ UNCHANGED disk
         \/ b \in calm /\ Publish(b)
         \/ LoadManifest(b)
<1> USE AdmissionAssumption DEF TypeOK, OnlyCalm, Calls, calls
<1>1. CASE UNCHANGED vars
  BY <1>1 DEF vars
<1>2. ASSUME NEW c \in Calls, LoadManifest(c), c # b PROVE b \in calm /\ UNCHANGED disk
  BY <1>2 DEF LoadManifest
<1>3. ASSUME NEW c \in Calls, LoadLock(c) PROVE b \in calm /\ UNCHANGED disk
  BY <1>3 DEF LoadLock
<1>4. ASSUME NEW g \in Gates, Gate(g) PROVE b \in calm /\ UNCHANGED disk
  BY <1>4 DEF Gate, Evaluate, Truncate, Emit
<1>5. ASSUME NEW c \in Binds \cup Launches, Preflight(c) PROVE b \in calm /\ UNCHANGED disk
  BY <1>5 DEF Preflight, StatAdmission, ReadAdmission, OpenRoot, CheckReadOnly, Rebound
<1>6. ASSUME NEW c \in Binds, Publish(c), c # b PROVE b \in calm /\ UNCHANGED disk
  BY <1>6 DEF Publish, disk
<1>7. ASSUME NEW c \in Binds, Publish(c) PROVE b \in calm
  BY <1>7 DEF Publish
<1>8. ASSUME NEW l \in Launches, Launch(l) PROVE b \in calm /\ UNCHANGED disk
  BY <1>8 DEF Launch, BuildArgv, Mount
<1>9. ~Operator
  BY DEF Operator, EditManifest, EditLock, Attest, Restore, Chmod, MoveRoot, Edit
<1>10. QED
  BY <1>1, <1>2, <1>3, <1>4, <1>5, <1>6, <1>7, <1>8, <1>9 DEF Next, Load

\* A binding writes an admission that a launch accepts.
LEMMA PublishEffect ==
  ASSUME TypeOK, NEW b \in Binds, Publish(b), pc'[b] = "bound", Valid(adm[b])
  PROVE  /\ file'[OutputOf[b]].plain
         /\ Valid(file'[OutputOf[b]])
         /\ file'[OutputOf[b]].digest = digest[b]
         /\ RootOf[b] # None => file'[OutputOf[b]].root = RootOf[b]
<1> USE AdmissionAssumption
<1> DEFINE r == IF RootOf[b] = None THEN adm[b].root ELSE RootOf[b]
           a == [adm[b] EXCEPT !.plain = TRUE, !.digest = digest[b], !.root = r]
<1>1. adm[b] \in Admissions
  BY DEF TypeOK, Calls
<1>2. /\ a.plain /\ a.digest = digest[b] /\ a.root = r
      /\ a.status = adm[b].status /\ a.attested = adm[b].attested
  <2> HIDE DEF r
  <2> QED
    BY <1>1 DEF Admissions
<1>3. file' = [file EXCEPT ![OutputOf[b]] = a]
  BY DEF Publish, TypeOK, Goto, Refuse, Calls
<1>4. Valid(a)
  BY <1>2 DEF Valid
<1> HIDE DEF a
<1>5. file'[OutputOf[b]] = a
  BY <1>3 DEF TypeOK
<1>6. QED
  BY <1>2, <1>4, <1>5

\* A calm binding goes on knowing what is there.
LEMMA BindKnowsStep ==
  ASSUME TypeOK, QuietInv, [Next]_vars, NEW b \in Binds, b \in calm'
  PROVE  BindKnows(b)'
<1> USE AdmissionAssumption DEF BindKnows, RootSeen, ReadOnly
<1> b \in Calls /\ b \notin Gates /\ b \notin Launches
  BY DEF Calls
<1>1. CASE LoadManifest(b)
  BY <1>1 DEF LoadManifest, TypeOK, Goto, Refuse, disk
<1> SUFFICES ASSUME b \in calm PROVE BindKnows(b)'
  BY <1>1, CalmSteps
<1>2. BindKnows(b)
  BY DEF QuietInv
<1>3. CASE Publish(b)
  <2>1. CASE pc'[b] = "bound"
    <3>1. UNCHANGED <<manifest, lock, names, writable, digest, adm, held>>
          /\ pc[b] = "publish"
      BY <1>3 DEF Publish
    <3>2. Valid(adm[b])
      BY <1>2, <3>1
    <3>3. /\ file'[OutputOf[b]].plain
          /\ Valid(file'[OutputOf[b]])
          /\ file'[OutputOf[b]].digest = digest[b]
          /\ RootOf[b] # None => file'[OutputOf[b]].root = RootOf[b]
      BY <1>3, <2>1, <3>2, PublishEffect
    <3>4. Valid(file[OutputOf[b]])'
      BY <3>3 DEF Valid
    <3>5. QED
      BY <1>2, <2>1, <3>1, <3>3, <3>4
  <2>2. CASE pc'[b] = "refused"
    BY <2>2
  <2>3. QED
    BY <1>3, <2>1, <2>2 DEF Publish, TypeOK, Goto, Refuse
<1> SUFFICES ASSUME UNCHANGED disk PROVE BindKnows(b)'
  BY <1>1, <1>3, CalmSteps
<1>4. CASE Own(b)
  BY <1>2, <1>4 DEF Own, disk, Valid
<1>5. CASE LoadLock(b)
  BY <1>2, <1>5 DEF LoadLock, TypeOK, Goto, Refuse, disk
<1>6. CASE StatAdmission(b)
  BY <1>2, <1>6 DEF StatAdmission, TypeOK, Goto, Refuse, disk
<1>7. CASE ReadAdmission(b)
  BY <1>2, <1>7 DEF ReadAdmission, TypeOK, Goto, Refuse, disk, Valid
<1>8. CASE OpenRoot(b)
  <2>1. /\ pc[b] = "root" /\ UNCHANGED <<adm, digest>>
        /\ pc'[b] \in {"mode", "refused"}
        /\ pc'[b] = "mode" =>
             /\ names[RootOf[b]] \in Dirs
             /\ held'[b].dir = names[RootOf[b]]
             /\ held'[b].writable = (names[RootOf[b]] \in writable)
    BY <1>8 DEF OpenRoot, TypeOK, Goto, Refuse
  <2>2. QED
    BY <1>2, <2>1 DEF disk, Valid
<1>9. CASE CheckReadOnly(b)
  BY <1>2, <1>9 DEF CheckReadOnly, TypeOK, Goto, Refuse, disk, Valid
<1>10. CASE Rebound(b)
  BY <1>2, <1>10 DEF Rebound, TypeOK, Goto, Refuse, disk, Valid
<1>11. QED
  BY <1>1, <1>3, <1>4, <1>5, <1>6, <1>7, <1>8, <1>9, <1>10, OwnSteps DEF Load, Preflight

\* The bindings that were complete when a launch began stay complete.
LEMMA AfterStep ==
  ASSUME TypeOK, [Next]_vars, NEW l \in Launches, ~LoadManifest(l)
  PROVE  after'[l] = after[l]
<1>1. \/ UNCHANGED after
      \/ \E c \in Calls : LoadManifest(c)
  BY DEF Next, Load, LoadLock, Gate, Evaluate, Truncate, Emit, Preflight, StatAdmission,
         ReadAdmission, OpenRoot, CheckReadOnly, Rebound, Publish, Launch, BuildArgv,
         Mount, Operator, EditManifest, EditLock, Attest, Restore, Chmod, MoveRoot, Edit,
         vars
<1>2. QED
  BY <1>1 DEF LoadManifest, TypeOK

\* What a launch has seen published was bound before, and still is.
LEMMA AfterIsBound ==
  ASSUME TypeOK, QuietInv, [Next]_vars, NEW l \in Launches, NEW b \in after'[l]
  PROVE  b \in Binds /\ pc[b] = "bound" /\ pc'[b] = "bound"
<1>1. CASE LoadManifest(l)
  <2>1. b \in Binds /\ pc[b] = "bound"
    BY <1>1 DEF LoadManifest, Calls
  <2>2. QED
    BY <2>1, EndedStays DEF Calls
<1>2. CASE ~LoadManifest(l)
  <2>1. b \in after[l]
    BY <1>2, AfterStep
  <2>2. b \in Binds /\ pc[b] = "bound"
    BY <2>1 DEF QuietInv, TypeOK
  <2>3. QED
    BY <2>2, EndedStays DEF Calls
<1>3. QED
  BY <1>1, <1>2

\* A launch that follows a calm binding of its root and file gets on.
LEMMA LaunchFollowsStep ==
  ASSUME TypeOK, QuietInv, [Next]_vars, NEW l \in Launches,
         NEW b \in after'[l], b \in calm',
         OutputOf[b] = InputOf[l], RootOf[b] = RootOf[l]
  PROVE  LaunchFollows(l)'
<1> USE AdmissionAssumption DEF LaunchFollows, RootSeen
<1>0. b \in Binds /\ pc[b] = "bound"
  BY AfterIsBound
<1> /\ b \in Calls /\ b \notin Gates /\ b \notin Launches
    /\ l \in Calls /\ l \notin Gates /\ l \notin Binds
  BY <1>0 DEF Calls
\* It neither begins anew nor writes again, so the disk stays as it is.
<1>1. b \in calm /\ UNCHANGED disk
  <2>1. ~LoadManifest(b) /\ ~Publish(b)
    BY <1>0 DEF LoadManifest, Publish
  <2>2. QED
    BY <1>0, <2>1, CalmSteps
<1>2. BindKnows(b)
  BY <1>0, <1>1 DEF QuietInv
<1>3. /\ manifest \in Digests /\ digest[b] = manifest /\ lock = manifest
      /\ names[RootOf[l]] \in Dirs /\ ReadOnly(names[RootOf[l]])
      /\ file[InputOf[l]].plain /\ Valid(file[InputOf[l]])
      /\ file[InputOf[l]].digest = manifest /\ file[InputOf[l]].root = RootOf[l]
  BY <1>0, <1>2 DEF BindKnows
<1>4. CASE LoadManifest(l)
  BY <1>1, <1>3, <1>4 DEF LoadManifest, TypeOK, Goto, disk
<1> SUFFICES ASSUME ~LoadManifest(l) PROVE LaunchFollows(l)'
  BY <1>4
<1>5. LaunchFollows(l)
  <2>1. b \in after[l]
    BY AfterStep
  <2>2. QED
    BY <1>1, <2>1 DEF QuietInv
<1> HIDE DEF Valid
<1>6. CASE Own(l)
  BY <1>1, <1>5, <1>6 DEF Own, disk
<1>7. CASE LoadLock(l)
  BY <1>1, <1>3, <1>5, <1>7 DEF LoadLock, TypeOK, Goto, Refuse, disk
<1>8. CASE StatAdmission(l)
  BY <1>1, <1>3, <1>5, <1>8 DEF StatAdmission, TypeOK, Goto, Refuse, disk
<1>9. CASE ReadAdmission(l)
  <2>1. adm'[l] = file[InputOf[l]] /\ UNCHANGED digest
    BY <1>9 DEF ReadAdmission, TypeOK
  <2>2. pc'[l] = "root"
    BY <1>3, <1>5, <1>9 DEF ReadAdmission, TypeOK, Goto, Refuse
  <2>3. QED
    BY <1>1, <1>3, <1>5, <2>1, <2>2 DEF disk
<1>10. CASE OpenRoot(l)
  <2>1. /\ pc'[l] = "mode" /\ UNCHANGED <<adm, digest>>
        /\ held'[l].dir = names[RootOf[l]]
        /\ held'[l].writable = (names[RootOf[l]] \in writable)
    BY <1>3, <1>10 DEF OpenRoot, TypeOK, Goto
  <2>2. pc[l] = "root"
    BY <1>10 DEF OpenRoot
  <2>3. QED
    BY <1>1, <1>3, <1>5, <2>1, <2>2 DEF disk
<1>11. CASE CheckReadOnly(l)
  BY <1>1, <1>3, <1>5, <1>11 DEF CheckReadOnly, TypeOK, Goto, Refuse, disk, ReadOnly
<1>12. CASE Rebound(l)
  BY <1>1, <1>3, <1>5, <1>12 DEF Rebound, TypeOK, Goto, Refuse, disk
<1>13. CASE Launch(l)
  BY <1>1, <1>5, <1>13 DEF Launch, BuildArgv, Mount, TypeOK, Goto, disk
<1>14. QED
  BY <1>6, <1>7, <1>8, <1>9, <1>10, <1>11, <1>12, <1>13, OwnSteps DEF Load, Preflight

(* A binding makes sure of everything a launch asks for: a launch of the   *)
(* same root that begins after it, and reads what it wrote, is admitted    *)
(* unless something was changed since the binding began.                   *)
THEOREM FreshBindingAdmits == Spec => []QuietLaunchPasses
<1> USE AdmissionAssumption
<1>1. Init => QuietInv
  BY DEF Init, QuietInv, BindKnows, Calls
<1>2. TypeOK /\ QuietInv /\ [Next]_vars => QuietInv'
  BY BindKnowsStep, LaunchFollowsStep, AfterIsBound DEF QuietInv
<1>3. TypeOK /\ QuietInv => QuietLaunchPasses
  BY DEF QuietInv, LaunchFollows, QuietLaunchPasses
<1>4. QED
  BY <1>1, <1>2, <1>3, TypeCorrect, PTL DEF Spec
=============================================================================
