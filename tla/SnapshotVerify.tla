---------------------------- MODULE SnapshotVerify ----------------------------
(***************************************************************************)
(* scripts/verify_model_snapshot.py verify_snapshot_entries over the       *)
(* helpers of scripts/secure_tree.py: one verification of a snapshot tree  *)
(* that other processes go on changing.                                    *)
(*                                                                         *)
(* A name of the tree leads to a node (inode).  The verifier lists the     *)
(* names, stats each, then per expected file opens it, reads it block by   *)
(* block through the descriptor, and compares the identity of the open     *)
(* file before, after, and under its name; then it lists again.  Each of   *)
(* these system calls is a step, and a mutator may act between any two.    *)
(*                                                                         *)
(* The digest is abstract: a block is good or not, a file's digest matches *)
(* when all its blocks read good.  A file's size is part of its identity   *)
(* tuple and a wrong size a mismatch like a wrong digest, so it is not     *)
(* modelled apart.                                                         *)
(***************************************************************************)
EXTENDS Naturals, Sequences, FiniteSets

CONSTANTS
  Expected,      \* sequence of the manifest's paths, in order
  Sorted,        \* sequence of the names there may be, in sorted order
  Ignored,       \* those that both inventories skip; a name outside the tree
                 \* is to the verifier what an ignored one is
  Nodes,         \* inodes
  Special,       \* those that are no regular file (symlinks, devices)
  None,          \* no entry
  Blocks,        \* blocks per file
  Start,         \* possible starts: records of entry and data
  Fine,          \* TRUE: no two changes of a node carry the same time stamp
  MaxChanges     \* bound on the mutator

Paths   == {Expected[i] : i \in DOMAIN Expected}
Names   == {Sorted[i] : i \in DOMAIN Sorted}
Tree    == Names \ Ignored
Regular == Nodes \ Special

ASSUME SnapshotAssumption ==
  /\ Expected \in Seq(Paths)
  /\ Sorted \in Seq(Names)
  /\ Paths \subseteq Tree
  /\ Special \subseteq Nodes
  /\ None \notin Nodes
  /\ Blocks \in Nat \ {0}
  /\ Fine \in BOOLEAN
  /\ MaxChanges \in Nat
  /\ Start \subseteq [entry : [Names -> Nodes \cup {None}],
                      data : [Nodes -> [1 .. Blocks -> BOOLEAN]]]

VARIABLES
  entry,    \* node of each name
  data,     \* whether each block of a node is what the manifest expects
  stamp,    \* change time of each node
  now,      \* the clock the stamps are taken from
  rooted,   \* whether the root path still names the tree
  pc,       \* control point of the verifier
  walk,     \* the listed names that are still to be statted
  found,    \* the inventory so far: regular and rejected names
  before,   \* the first inventory, once it is complete
  item,     \* index of the manifest entry that is being hashed
  held,     \* the open file: node, stamp and links at the first fstat
  blocks,   \* blocks read of it
  clean,    \* whether all of them were good
  faulty,   \* whether a mismatch has been noted
  verdict,  \* "none", "PASS" or "FAIL"
  changes,  \* changes made since the verification began
  exact     \* whether the tree matched the manifest at one instant so far

treeVars   == <<entry, data, stamp, now, rooted>>
walkVars   == <<walk, found, before>>
hashVars   == <<item, held, blocks, clean>>
ghostVars  == <<changes, exact>>
vars == <<treeVars, pc, walkVars, hashVars, faulty, verdict, ghostVars>>

-----------------------------------------------------------------------------
Links(n) == Cardinality({f \in Names : entry[f] = n})

\* What os.stat and the two tests of inventory_regular_files say of a name.
IsRegular(f) == entry[f] \in Regular /\ Links(entry[f]) = 1

Good(n) == \A b \in 1 .. Blocks : data[n][b]

\* The manifest describes the tree, entry by entry and nothing else.
Matches ==
  /\ \A f \in Paths : IsRegular(f) /\ Good(entry[f])
  /\ \A f \in Tree \ Paths : entry[f] = None

Empty == [regular |-> {}, rejected |-> {}]
Closed == [node |-> None, stamp |-> 0, links |-> 0]

Init ==
  /\ \E s \in Start : entry = s.entry /\ data = s.data
  /\ stamp = [n \in Nodes |-> 0]
  /\ now = 0
  /\ rooted = TRUE
  /\ pc = "open"
  /\ walk = {} /\ found = Empty /\ before = Empty
  /\ item = 1 /\ held = Closed /\ blocks = 0 /\ clean = TRUE
  /\ faulty = FALSE
  /\ verdict = "none"
  /\ changes = 0
  /\ exact = Matches

Listed(f) == entry[f] # None /\ f \notin Ignored
Goto(to) == pc' = to

(* Wrong variants of definitions below, one mistake each. *)

\* The file is compared with itself only, not with what its name leads to.
StatNamedByDigest ==
  /\ pc = "named"
  /\ item' = item + 1
  /\ held' = Closed /\ blocks' = 0 /\ clean' = TRUE
  /\ faulty' = (faulty \/ ~clean)
  /\ Goto("item")
  /\ UNCHANGED <<treeVars, walkVars, verdict, ghostVars>>

\* Only the first inventory skips the ignored names.
ListIgnoringOnce ==
  /\ pc \in {"list", "relist"}
  /\ walk' = {f \in Names : entry[f] # None /\ (pc = "relist" \/ f \notin Ignored)}
  /\ found' = Empty
  /\ Goto(IF pc = "list" THEN "stat" ELSE "restat")
  /\ UNCHANGED <<treeVars, before, hashVars, faulty, verdict, ghostVars>>

\* The next file is read from where the last one ended.
NextItemKeepsBlocks(mismatch) ==
  /\ item' = item + 1
  /\ held' = Closed /\ clean' = TRUE /\ UNCHANGED blocks
  /\ faulty' = (faulty \/ mismatch)
  /\ Goto("item")

\* The file at `item` is done with, for better or worse.
NextItem(mismatch) ==
  /\ item' = item + 1
  /\ held' = Closed /\ blocks' = 0 /\ clean' = TRUE
  /\ faulty' = (faulty \/ mismatch)
  /\ Goto("item")

-----------------------------------------------------------------------------
(* The verifier. *)

\* open_root; a path that names no directory ends the verification.  From here
\* on every name is looked up below the descriptor.
OpenRoot ==
  /\ pc = "open"
  /\ IF rooted
       THEN Goto("list") /\ UNCHANGED verdict
       ELSE Goto("done") /\ verdict' = "FAIL"
  /\ UNCHANGED <<treeVars, walkVars, hashVars, faulty, ghostVars>>

\* os.listdir: before the first file and after the last.
List ==
  /\ pc \in {"list", "relist"}
  /\ walk' = {f \in Names : Listed(f)}
  /\ found' = Empty
  /\ Goto(IF pc = "list" THEN "stat" ELSE "restat")
  /\ UNCHANGED <<treeVars, before, hashVars, faulty, verdict, ghostVars>>

\* os.stat of the next listed name, in sorted order; one that is gone by now
\* is rejected.
StatEntry ==
  /\ pc \in {"stat", "restat"}
  /\ \E i \in DOMAIN Sorted :
       LET f == Sorted[i] IN
         /\ f \in walk
         /\ \A j \in DOMAIN Sorted : j < i => Sorted[j] \notin walk
         /\ walk' = walk \ {f}
         /\ found' = IF IsRegular(f)
                        THEN [found EXCEPT !.regular = @ \cup {f}]
                        ELSE [found EXCEPT !.rejected = @ \cup {f}]
  /\ UNCHANGED <<treeVars, pc, before, hashVars, faulty, verdict, ghostVars>>

\* Rejected, unexpected and missing names are mismatches.
Compare ==
  /\ pc = "stat" /\ walk = {}
  /\ before' = found
  /\ faulty' = (found.rejected # {} \/ found.regular # Paths)
  /\ Goto("item")
  /\ UNCHANGED <<treeVars, walk, found, hashVars, verdict, ghostVars>>

\* A file the first inventory did not see is not hashed.
SkipItem ==
  /\ pc = "item" /\ item <= Len(Expected)
  /\ Expected[item] \notin before.regular
  /\ NextItem(FALSE)
  /\ UNCHANGED <<treeVars, walkVars, verdict, ghostVars>>

\* The nofollow open; ENOENT, a symlink, a special file, or a link count other
\* than one at the fstat that follows are mismatches.
Open ==
  /\ pc = "item" /\ item <= Len(Expected)
  /\ Expected[item] \in before.regular
  /\ LET n == entry[Expected[item]] IN
       IF n \in Regular
         THEN /\ held' = [held EXCEPT !.node = n]
              /\ Goto("fstat")
              /\ UNCHANGED <<item, blocks, clean, faulty>>
         ELSE NextItem(TRUE)
  /\ UNCHANGED <<treeVars, walkVars, verdict, ghostVars>>

FstatBefore ==
  /\ pc = "fstat"
  /\ LET n == held.node IN
       IF Links(n) = 1
         THEN /\ held' = [node |-> n, stamp |-> stamp[n], links |-> 1]
              /\ Goto("read")
              /\ UNCHANGED <<item, blocks, clean, faulty>>
         ELSE NextItem(TRUE)
  /\ UNCHANGED <<treeVars, walkVars, verdict, ghostVars>>

ReadBlock ==
  /\ pc = "read" /\ blocks < Blocks
  /\ blocks' = blocks + 1
  /\ clean' = (clean /\ data[held.node][blocks + 1])
  /\ UNCHANGED <<treeVars, pc, walkVars, item, held, faulty, verdict, ghostVars>>

\* Identity before and after the read: node, link count, change time.
Unchanged(n) == stamp[n] = held.stamp /\ Links(n) = held.links

FstatAfter ==
  /\ pc = "read" /\ blocks = Blocks
  /\ IF Unchanged(held.node)
       THEN Goto("named") /\ UNCHANGED <<hashVars, faulty>>
       ELSE NextItem(TRUE)
  /\ UNCHANGED <<treeVars, walkVars, verdict, ghostVars>>

\* os.stat of the leaf by name: the same file, still unchanged; then the
\* digest is compared.
StatNamed ==
  /\ pc = "named"
  /\ LET same == entry[Expected[item]] = held.node /\ Unchanged(held.node)
     IN NextItem(~same \/ ~clean)
  /\ UNCHANGED <<treeVars, walkVars, verdict, ghostVars>>

LastItem ==
  /\ pc = "item" /\ item > Len(Expected)
  /\ Goto("relist")
  /\ UNCHANGED <<treeVars, walkVars, hashVars, faulty, verdict, ghostVars>>

\* The second inventory must equal the first.
Recompare ==
  /\ pc = "restat" /\ walk = {}
  /\ faulty' = (faulty \/ found # before)
  /\ Goto("revalidate")
  /\ UNCHANGED <<treeVars, walkVars, hashVars, verdict, ghostVars>>

\* revalidate_root raises when the path names another directory; main turns
\* that into FAIL.
Conclude ==
  /\ pc = "revalidate"
  /\ verdict' = IF rooted /\ ~faulty THEN "PASS" ELSE "FAIL"
  /\ Goto("done")
  /\ UNCHANGED <<treeVars, walkVars, hashVars, faulty, ghostVars>>

Verifier ==
  \/ OpenRoot \/ List \/ StatEntry \/ Compare \/ SkipItem \/ Open \/ FstatBefore
  \/ ReadBlock \/ FstatAfter \/ StatNamed \/ LastItem \/ Recompare \/ Conclude

-----------------------------------------------------------------------------
(* Everybody else. *)

\* A change of the nodes ns, at the time the clock shows.  A fine clock has
\* moved on since any earlier change, a coarse one may have.
Touch(ns) ==
  /\ pc # "done" /\ changes < MaxChanges
  /\ changes' = changes + 1
  /\ now' \in IF Fine THEN {now + 1} ELSE {now, now + 1}
  /\ stamp' = [n \in Nodes |-> IF n \in ns THEN now' ELSE stamp[n]]
  /\ exact' = (exact \/ Matches')
  /\ UNCHANGED <<pc, walkVars, hashVars, faulty, verdict>>

\* A write to an open file, by whatever name it is or was known.
Overwrite(n, b) ==
  /\ data' = [data EXCEPT ![n][b] = ~@]
  /\ UNCHANGED <<entry, rooted>>
  /\ Touch({n})

Rename(f, g) ==
  /\ entry[f] # None /\ entry[f] # entry[g]
  /\ entry' = [entry EXCEPT ![g] = entry[f], ![f] = None]
  /\ UNCHANGED <<data, rooted>>
  /\ Touch({entry[f], entry[g]} \ {None})

Link(f, g) ==
  /\ entry[f] # None /\ entry[g] = None
  /\ entry' = [entry EXCEPT ![g] = entry[f]]
  /\ UNCHANGED <<data, rooted>>
  /\ Touch({entry[f]})

Unlink(f) ==
  /\ entry[f] # None
  /\ entry' = [entry EXCEPT ![f] = None]
  /\ UNCHANGED <<data, rooted>>
  /\ Touch({entry[f]})

\* The root directory is moved away, or back.
MoveRoot ==
  /\ rooted' = ~rooted
  /\ UNCHANGED <<entry, data>>
  /\ Touch({})

Mutator ==
  \/ \E n \in Regular, b \in 1 .. Blocks : Overwrite(n, b)
  \/ \E f, g \in Names : Rename(f, g) \/ Link(f, g)
  \/ \E f \in Names : Unlink(f)
  \/ MoveRoot

Next == Verifier \/ Mutator

Spec == Init /\ [][Next]_vars

-----------------------------------------------------------------------------
(* Properties. *)

TypeOK ==
  /\ entry \in [Names -> Nodes \cup {None}]
  /\ data \in [Nodes -> [1 .. Blocks -> BOOLEAN]]
  /\ stamp \in [Nodes -> Nat] /\ now \in Nat
  /\ rooted \in BOOLEAN
  /\ pc \in {"open", "list", "stat", "item", "fstat", "read", "named",
            "relist", "restat", "revalidate", "done"}
  /\ walk \subseteq Tree
  /\ found \in [regular : SUBSET Tree, rejected : SUBSET Tree]
  /\ before \in [regular : SUBSET Tree, rejected : SUBSET Tree]
  /\ item \in 1 .. Len(Expected) + 1
  /\ held \in [node : Regular \cup {None}, stamp : Nat, links : {0, 1}]
  /\ blocks \in 0 .. Blocks
  /\ clean \in BOOLEAN /\ faulty \in BOOLEAN /\ exact \in BOOLEAN
  /\ verdict \in {"none", "PASS", "FAIL"}
  /\ changes \in 0 .. MaxChanges

\* When hash_relative_file returns a digest that matches, the file it was asked
\* for is at that moment, under its name, a regular file of one link whose
\* every block is what the manifest says: nothing that happened while it was
\* read escapes the three identities.  secure_tree.py:4 claims so, "These
\* checks detect mutation during a read"; it takes a clock on which two
\* changes of a file never look the same.
HashIsCurrent ==
  [][pc = "named" /\ pc' = "item" /\ ~faulty' =>
       IsRegular(Expected[item]) /\ Good(entry[Expected[item]])]_vars

\* A tree that changes at most once during the verification, in whatever way
\* and between whichever two steps, is only passed when, before or after that
\* change, it was as a whole what the manifest says.
OneChangeIsSeen == verdict = "PASS" /\ changes <= 1 => exact

\* A tree that nobody touches is not failed when it matches.
QuietPasses == verdict = "FAIL" /\ changes = 0 => ~exact
=============================================================================
