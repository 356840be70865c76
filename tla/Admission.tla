------------------------------ MODULE Admission ------------------------------
(***************************************************************************)
(* How a launch is admitted: scripts/gate_runner.py evaluates gates for a  *)
(* runtime manifest and writes PHASE0_PASS, somebody adds the attestations *)
(* to that file, scripts/bind_admission.py binds it to a manifest, and     *)
(* build_launch_spec loads the manifest again, compares, checks the model  *)
(* root through a descriptor, and leaves a command line by which Docker    *)
(* later mounts the root by name.                                          *)
(*                                                                         *)
(* Every file and directory is looked at by a step of its own; meanwhile   *)
(* the manifest, its lock, the admission files and the model root may be   *)
(* edited, and calls overlap.  The write of bind_admission is one step     *)
(* here, AtomicWrite.tla opens it up; what Docker makes of the command     *)
(* line is LaunchLifecycle.tla.                                            *)
(***************************************************************************)
EXTENDS Naturals

CONSTANTS
  Gates,       \* calls of gate_runner.py
  Binds,       \* calls of bind_admission.py
  Launches,    \* calls of build_launch_spec, with the docker run they lead to
  Digests,     \* digests of the manifests that validate_runtime_manifest takes:
               \* values that compare equal, 2 and 2.0, are two documents
  Files,       \* admission files
  Roots,       \* model root paths
  Dirs,        \* directories
  ReadOnlyFs,  \* those on a file system that is mounted read-only
  None,        \* no digest, root or directory
  InputOf,     \* the --admission of each binding and launch
  OutputOf,    \* the --output of each gate run and binding
  RootOf,      \* the --model-root of each binding and launch; bindings may
               \* have none
  Dated,       \* files that hold PHASE0 evidence from before bindings
  MaxEdits,    \* bound on edits of files and modes
  MaxMoves     \* bound on renames of model roots

Calls == Gates \cup Binds \cup Launches

ASSUME AdmissionAssumption ==
  /\ Gates \cap Binds = {} /\ Gates \cap Launches = {} /\ Binds \cap Launches = {}
  /\ None \notin Digests /\ None \notin Roots /\ None \notin Dirs
  /\ ReadOnlyFs \subseteq Dirs
  /\ InputOf \in [Binds \cup Launches -> Files]
  /\ OutputOf \in [Gates \cup Binds -> Files]
  /\ RootOf \in [Binds \cup Launches -> Roots \cup {None}]
  /\ \A l \in Launches : RootOf[l] # None
  /\ Dated \subseteq Files
  /\ MaxEdits \in Nat /\ MaxMoves \in Nat

VARIABLES
  manifest,  \* digest of the runtime manifest; None when it is not valid
  lock,      \* digest in its lock file; None when there is no valid one
  file,      \* what each admission path holds
  names,     \* directory that each root path names; None when there is none
  writable,  \* directories with a write bit in their mode
  pc,        \* control point of each call
  digest,    \* manifest digest that each call has computed
  adm,       \* admission that each call has read
  held,      \* directory that each call holds open, and its mode at that time
  mount,     \* directory that Docker mounted for each launch
  edits,     \* edits of files and modes so far, attestations apart
  moves,     \* renames of roots so far
  calm,      \* calls during and after which nothing was changed by others
  after      \* bindings that were complete and calm when a launch began

disk  == <<manifest, lock, file, names, writable>>
calls == <<pc, digest, adm, held, mount>>
vars  == <<disk, calls, edits, moves, calm, after>>

\* plain: no symlink.  attested: the three assertions validate_admission wants.
\* A file that is missing, empty or not JSON has status "none".
Admissions ==
  [plain : BOOLEAN, status : {"none", "NO_VERDICT", "PHASE0_PASS"},
   attested : BOOLEAN, digest : Digests \cup {None}, root : Roots \cup {None}]

NoAdmission ==
  [plain |-> TRUE, status |-> "none", attested |-> FALSE, digest |-> None,
   root |-> None]

\* Older PHASE0 evidence (preflight.py:156), attested and unbound.
Legacy == [NoAdmission EXCEPT !.status = "PHASE0_PASS", !.attested = TRUE]

Closed == [dir |-> None, writable |-> FALSE]

Init ==
  /\ manifest \in Digests /\ lock = manifest
  /\ file = [f \in Files |-> IF f \in Dated THEN Legacy ELSE NoAdmission]
  /\ names \in [Roots -> Dirs]
  /\ writable \in SUBSET Dirs
  /\ pc = [c \in Calls |-> "start"]
  /\ digest = [c \in Calls |-> None]
  /\ adm = [c \in Calls |-> NoAdmission]
  /\ held = [c \in Calls |-> Closed]
  /\ mount = [c \in Calls |-> None]
  /\ edits = 0 /\ moves = 0
  /\ calm = Calls
  /\ after = [l \in Launches |-> {}]

Goto(c, to) == pc' = [pc EXCEPT ![c] = to]

\* gate_runner turns every exception into NO_VERDICT and writes that; the
\* other two end with FAIL.
Refuse(c) == Goto(c, IF c \in Gates THEN "failing" ELSE "refused")

ReadOnly(d) == d \in ReadOnlyFs \/ d \notin writable

\* Only `c` has seen the disk change.
OnlyCalm(c) == calm' = calm \cap {c}

-----------------------------------------------------------------------------
(* Wrong variants of definitions below, one mistake each. *)

\* An invalid manifest has a digest like any other.
LoadUnvalidated(c) ==
  /\ pc[c] = "start"
  /\ digest' = [digest EXCEPT ![c] = manifest]
  /\ Goto(c, "loaded")
  /\ calm' = calm \cup {c}
  /\ UNCHANGED <<disk, adm, held, mount, edits, moves, after>>

\* A launch requires a binding, but takes any.
ReadUncompared(c) ==
  /\ pc[c] = "read"
  /\ LET a == file[InputOf[c]] IN
       /\ adm' = [adm EXCEPT ![c] = a]
       /\ IF a.status # "PHASE0_PASS" \/ ~a.attested \/ (c \in Launches /\ a.digest = None)
            THEN Refuse(c)
            ELSE Goto(c, IF RootOf[c] = None THEN "publish" ELSE "root")
  /\ UNCHANGED <<disk, digest, held, mount, edits, moves, calm, after>>

\* A binding that is already there is kept.
PublishOnce(b) ==
  /\ pc[b] = "publish"
  /\ IF file[OutputOf[b]].plain
       THEN /\ file' = [file EXCEPT ![OutputOf[b]] =
                 [adm[b] EXCEPT !.plain = TRUE,
                                !.digest = IF @ = None THEN digest[b] ELSE @,
                                !.root = IF RootOf[b] = None THEN @ ELSE RootOf[b]]]
            /\ Goto(b, "bound")
            /\ OnlyCalm(b)
       ELSE Refuse(b) /\ UNCHANGED <<file, calm>>
  /\ UNCHANGED <<manifest, lock, names, writable, digest, adm, held, mount, edits, moves, after>>

\* The second fstat is left out.
ReboundUnseen(c) ==
  /\ pc[c] = "rebound"
  /\ IF c \in Launches /\ adm[c].root \notin {None, RootOf[c]}
       THEN Refuse(c)
       ELSE Goto(c, IF c \in Launches THEN "checked" ELSE "publish")
  /\ UNCHANGED <<disk, digest, adm, held, mount, edits, moves, calm, after>>

-----------------------------------------------------------------------------
(* load_runtime_manifest, which all three begin with. *)

LoadManifest(c) ==
  /\ pc[c] = "start"
  /\ digest' = [digest EXCEPT ![c] = manifest]
  /\ IF manifest \in Digests THEN Goto(c, "loaded") ELSE Refuse(c)
  /\ calm' = calm \cup {c}
  /\ after' = [l \in Launches |->
                 IF l = c THEN {b \in Binds : pc[b] = "bound" /\ b \in calm}
                          ELSE after[l]]
  /\ UNCHANGED <<disk, adm, held, mount, edits, moves>>

\* The lock is required, and read after the manifest.
LoadLock(c) ==
  /\ pc[c] = "loaded"
  /\ IF lock = digest[c]
       THEN Goto(c, CASE c \in Gates -> "evaluate" [] OTHER -> "stat")
       ELSE Refuse(c)
  /\ UNCHANGED <<disk, digest, adm, held, mount, edits, moves, calm, after>>

-----------------------------------------------------------------------------
(* gate_runner.py *)

\* All five gates are TRUE, no other is there, and the evidence was made for
\* this manifest.
Evaluate(g) ==
  /\ pc[g] = "evaluate"
  /\ \E gates \in BOOLEAN, evidence \in Digests :
       Goto(g, IF gates /\ evidence = digest[g] THEN "passing" ELSE "failing")
  /\ UNCHANGED <<disk, digest, adm, held, mount, edits, moves, calm, after>>

\* write_text: truncates first, and follows a symlink.
Truncate(g) ==
  /\ pc[g] \in {"passing", "failing"}
  /\ file' = [file EXCEPT ![OutputOf[g]] = [NoAdmission EXCEPT !.plain = file[OutputOf[g]].plain]]
  /\ Goto(g, IF pc[g] = "passing" THEN "pass" ELSE "fail")
  /\ OnlyCalm(g)
  /\ UNCHANGED <<manifest, lock, names, writable, digest, adm, held, mount, edits, moves, after>>

\* PHASE0_PASS comes with the digest and without any of the attestations.
Emit(g) ==
  /\ pc[g] \in {"pass", "fail"}
  /\ LET verdict == IF pc[g] = "pass"
                      THEN [NoAdmission EXCEPT !.status = "PHASE0_PASS", !.digest = digest[g]]
                      ELSE [NoAdmission EXCEPT !.status = "NO_VERDICT"]
     IN file' = [file EXCEPT ![OutputOf[g]] = [verdict EXCEPT !.plain = file[OutputOf[g]].plain]]
  /\ Goto(g, IF pc[g] = "pass" THEN "passed" ELSE "unpassed")
  /\ OnlyCalm(g)
  /\ UNCHANGED <<manifest, lock, names, writable, digest, adm, held, mount, edits, moves, after>>

-----------------------------------------------------------------------------
(* The admission is examined by lstat and then read by name. *)

StatAdmission(c) ==
  /\ pc[c] = "stat"
  /\ IF file[InputOf[c]].plain THEN Goto(c, "read") ELSE Refuse(c)
  /\ UNCHANGED <<disk, digest, adm, held, mount, edits, moves, calm, after>>

\* validate_admission
Valid(a) == a.status = "PHASE0_PASS" /\ a.attested

\* A launch requires a binding, and to the manifest it has loaded.
ReadAdmission(c) ==
  /\ pc[c] = "read"
  /\ LET a == file[InputOf[c]] IN
       /\ adm' = [adm EXCEPT ![c] = a]
       /\ IF ~Valid(a) \/ (c \in Launches /\ a.digest # digest[c])
            THEN Refuse(c)
            ELSE Goto(c, IF RootOf[c] = None THEN "publish" ELSE "root")
  /\ UNCHANGED <<disk, digest, held, mount, edits, moves, calm, after>>

-----------------------------------------------------------------------------
(* _descriptor_rooted_directory *)

\* The walk from / and the first fstat.
OpenRoot(c) ==
  /\ pc[c] = "root"
  /\ LET d == names[RootOf[c]] IN
       IF d \in Dirs
         THEN /\ held' = [held EXCEPT ![c] = [dir |-> d, writable |-> d \in writable]]
              /\ Goto(c, "mode")
         ELSE Refuse(c) /\ UNCHANGED held
  /\ UNCHANGED <<disk, digest, adm, mount, edits, moves, calm, after>>

\* The mode is that of the open directory; statvfs asks by path.
CheckReadOnly(c) ==
  /\ pc[c] = "mode"
  /\ IF names[RootOf[c]] \in Dirs
          /\ (~held[c].writable \/ names[RootOf[c]] \in ReadOnlyFs)
       THEN Goto(c, "rebound")
       ELSE Refuse(c)
  /\ UNCHANGED <<disk, digest, adm, held, mount, edits, moves, calm, after>>

\* The second fstat of the same descriptor sees a change of mode only; then
\* run_preflight compares the path, which a binding instead writes down.
Rebound(c) ==
  /\ pc[c] = "rebound"
  /\ IF held[c].writable # (held[c].dir \in writable)
          \/ (c \in Launches /\ adm[c].root \notin {None, RootOf[c]})
       THEN Refuse(c)
       ELSE Goto(c, IF c \in Launches THEN "checked" ELSE "publish")
  /\ UNCHANGED <<disk, digest, adm, held, mount, edits, moves, calm, after>>

-----------------------------------------------------------------------------
(* The end of bind_admission: the digest replaces any that was there. *)

Publish(b) ==
  /\ pc[b] = "publish"
  /\ IF file[OutputOf[b]].plain
       THEN /\ file' = [file EXCEPT ![OutputOf[b]] =
                 [adm[b] EXCEPT !.plain = TRUE, !.digest = digest[b],
                                !.root = IF RootOf[b] = None THEN @ ELSE RootOf[b]]]
            /\ Goto(b, "bound")
            /\ OnlyCalm(b)
       ELSE Refuse(b) /\ UNCHANGED <<file, calm>>
  /\ UNCHANGED <<manifest, lock, names, writable, digest, adm, held, mount, edits, moves, after>>

-----------------------------------------------------------------------------
(* The rest of build_launch_spec, and the container. *)

\* Profile, image, address, cache or environment may still be refused; the
\* root is looked at once more, by name.
BuildArgv(l) ==
  /\ pc[l] = "checked"
  /\ \/ names[RootOf[l]] \in Dirs /\ Goto(l, "ready")
     \/ Goto(l, "unrendered")
  /\ UNCHANGED <<disk, digest, adm, held, mount, edits, moves, calm, after>>

\* docker run --mount type=bind,source=<root>
Mount(l) ==
  /\ pc[l] = "ready"
  /\ names[RootOf[l]] \in Dirs
  /\ mount' = [mount EXCEPT ![l] = names[RootOf[l]]]
  /\ Goto(l, "mounted")
  /\ UNCHANGED <<disk, digest, adm, held, edits, moves, calm, after>>

-----------------------------------------------------------------------------
(* Everybody else. *)

Edit ==
  /\ edits < MaxEdits
  /\ edits' = edits + 1
  /\ calm' = {}
  /\ UNCHANGED <<names, calls, moves, after>>

\* With its lock or without.
EditManifest ==
  /\ manifest' \in (Digests \cup {None}) \ {manifest}
  /\ lock' \in {lock, manifest'}
  /\ UNCHANGED <<file, writable>>
  /\ Edit

EditLock ==
  /\ lock' \in (Digests \cup {None}) \ {lock}
  /\ UNCHANGED <<manifest, file, writable>>
  /\ Edit

\* The attestations are added to the output of gate_runner.
Attest(f) ==
  /\ file[f].status = "PHASE0_PASS" /\ ~file[f].attested
  /\ file' = [file EXCEPT ![f].attested = TRUE]
  /\ calm' = {}
  /\ UNCHANGED <<manifest, lock, names, writable, calls, edits, moves, after>>

\* An admission is replaced by a copy of another, or by a link to it.
Restore(f, g) ==
  /\ file' \in {[file EXCEPT ![f] = [file[g] EXCEPT !.plain = p]] : p \in BOOLEAN}
  /\ file' # file
  /\ UNCHANGED <<manifest, lock, writable>>
  /\ Edit

Chmod(d) ==
  /\ writable' = IF d \in writable THEN writable \ {d} ELSE writable \cup {d}
  /\ UNCHANGED <<manifest, lock, file>>
  /\ Edit

MoveRoot(r) ==
  /\ moves < MaxMoves
  /\ names' \in {[names EXCEPT ![r] = d] : d \in (Dirs \cup {None}) \ {names[r]}}
  /\ moves' = moves + 1
  /\ calm' = {}
  /\ UNCHANGED <<manifest, lock, file, writable, calls, edits, after>>

Load(c)      == LoadManifest(c) \/ LoadLock(c)
Gate(g)      == Evaluate(g) \/ Truncate(g) \/ Emit(g)
Preflight(c) ==
  StatAdmission(c) \/ ReadAdmission(c) \/ OpenRoot(c) \/ CheckReadOnly(c) \/ Rebound(c)
Launch(l)    == BuildArgv(l) \/ Mount(l)

Operator ==
  \/ EditManifest \/ EditLock
  \/ \E f \in Files : Attest(f) \/ \E g \in Files : Restore(f, g)
  \/ \E d \in Dirs : Chmod(d)
  \/ \E r \in Roots : MoveRoot(r)

Next ==
  \/ \E c \in Calls : Load(c)
  \/ \E g \in Gates : Gate(g)
  \/ \E c \in Binds \cup Launches : Preflight(c)
  \/ \E b \in Binds : Publish(b)
  \/ \E l \in Launches : Launch(l)
  \/ Operator

Spec == Init /\ [][Next]_vars

-----------------------------------------------------------------------------
(* Properties. *)

Points ==
  {"start", "loaded", "evaluate", "passing", "failing", "pass", "fail", "passed",
   "unpassed", "stat", "read", "root", "mode", "rebound", "publish", "bound",
   "checked", "ready", "mounted", "unrendered", "refused"}

\* Past these a call works for a manifest that it has found valid.
Unloaded == {"start", "failing", "fail", "unpassed", "refused"}

TypeOK ==
  /\ manifest \in Digests \cup {None} /\ lock \in Digests \cup {None}
  /\ file \in [Files -> Admissions]
  /\ names \in [Roots -> Dirs \cup {None}]
  /\ writable \subseteq Dirs
  /\ pc \in [Calls -> Points]
  /\ digest \in [Calls -> Digests \cup {None}]
  /\ \A c \in Calls : pc[c] \notin Unloaded => digest[c] \in Digests
  /\ adm \in [Calls -> Admissions]
  /\ held \in [Calls -> [dir : Dirs \cup {None}, writable : BOOLEAN]]
  /\ mount \in [Calls -> Dirs \cup {None}]
  /\ edits \in 0 .. MaxEdits /\ moves \in 0 .. MaxMoves
  /\ calm \subseteq Calls
  /\ after \in [Launches -> SUBSET Binds]

\* Preflight has accepted the admission of these.
Admitted == {"root", "mode", "rebound", "checked", "ready", "mounted", "unrendered"}

\* A launch gets past its admission only for a manifest that, under the very
\* digest the container is labelled with, went through a gate run that passed
\* or a binding that succeeded: whatever is edited, restored from copies or
\* relinked meanwhile, a digest gets into an admission in no other way
\* (preflight.py:185-194).
BoundToManifest ==
  \A l \in Launches : pc[l] \in Admitted =>
    \E c \in Gates \cup Binds :
      pc[c] \in {"passed", "bound"} /\ digest[c] = digest[l]

\* Preflight asks for nothing that a binding has not made sure of: a launch
\* that starts after a binding of the same root, reads what it wrote, and of
\* which nothing was changed since the binding began, is not refused.
QuietLaunchPasses ==
  \A l \in Launches : pc[l] = "refused" =>
    \A b \in after[l] \cap calm :
      ~ (OutputOf[b] = InputOf[l] /\ RootOf[b] = RootOf[l])

CheckPasses(c) == pc[c] = "rebound" /\ pc'[c] \in {"checked", "publish"}

\* With modes that change at any time and a root path that is renamed once,
\* a root check does not pass on a writable directory that the path names
\* (preflight.py:113-145).
RootIsReadOnly ==
  [][\A c \in Binds \cup Launches :
       CheckPasses(c) /\ moves <= 1 =>
         ReadOnly(held[c].dir) \/ names[RootOf[c]] # held[c].dir]_vars

\* The directory whose device and inode a root check reports is read-only when
\* it passes: "model root is not read-only by mode or mounted filesystem" is
\* what preflight.py:121 says otherwise.
ReportedIsReadOnly ==
  [][\A c \in Binds \cup Launches : CheckPasses(c) => ReadOnly(held[c].dir)]_vars
=============================================================================
