---------------------------- MODULE DeviceStreams ----------------------------
(***************************************************************************)
(* What InklingMoE relies on when it spreads a layer over two CUDA         *)
(* streams: work is only enqueued by the host and runs later, in order     *)
(* within a stream and in any order across them but for wait_stream; the   *)
(* caching allocator hands a freed block out again at once to whoever      *)
(* allocates on the same stream, without a look at other streams; a        *)
(* captured graph keeps the work instead of running it, and every replay   *)
(* enqueues it again.  None of this is code of the repository.             *)
(*                                                                         *)
(* A piece of work is [reads, writes, waits, fires]: pairs <<block, name>> *)
(* for the tensors it takes and leaves, and the events of wait_stream.  A  *)
(* block holds <<name, run>>, the tensor and the run that made it; weights *)
(* are marked with the epoch of their load instead.                        *)
(***************************************************************************)
EXTENDS Naturals, Sequences, FiniteSets

CONSTANT Blocks    \* how many blocks the allocator may hand out

\* Tensors that outlive a run have a block of their own: the parameters and
\* what is derived from them, and the rest.
Weights == {"w2", "w2lin", "fp4"}
Names   == Weights \cup {"ids", "ar", "x", "gate", "sink", "routed", "shared", "buf", "sum"}
Own     == [w2 |-> 1, w2lin |-> 2, fp4 |-> 3, ids |-> 4, ar |-> 5]
Fresh   == 6 .. 5 + Blocks

VARIABLES
  lane,   \* per stream the work not yet done, as [work, run]
  fired,  \* events that were reached, as <<event, run>>
  mem,    \* what each block holds
  free,   \* per pool and stream, the blocks given back
  top,    \* the last block handed out for the first time
  epoch,  \* how often the weights were loaded
  run,    \* number of the run under way: a call or a replay
  graph   \* the captured graphs, each a work list per stream

deviceVars == <<lane, fired, mem, free, top, epoch, run, graph>>

Stream == {"main", "alt"}
Pool   == {"eager", "graph"}
Junk   == <<"junk", 0>>

Meant(name, r) ==
  <<name, IF name \in Weights THEN epoch ELSE IF name = "ids" THEN 0 ELSE r>>

\* Work per stream, made part of a run.
Marked(work, r) ==
  [s \in Stream |-> [i \in 1 .. Len(work[s]) |-> [work |-> work[s][i], run |-> r]]]

DeviceInit ==
  /\ lane = [s \in Stream |-> <<>>]
  /\ fired = {}
  /\ mem = [b \in 1 .. 5 + Blocks |-> Junk]
  /\ free = [p \in Pool \X Stream |-> {}]
  /\ top = 5 /\ epoch = 0 /\ run = 0
  /\ graph = <<>>

\* torch.empty on stream s: of the blocks that were given back there the one
\* with the lowest address, or else a new one.
Allocates(p, s, b) ==
  /\ IF free[<<p, s>>] = {} THEN b \in {top + 1} \cap Fresh
     ELSE b \in free[<<p, s>>] /\ \A other \in free[<<p, s>>] : b <= other
  /\ free' = [free EXCEPT ![<<p, s>>] = @ \ {b}]
  /\ top' = IF b > top THEN b ELSE top

\* The last reference to each of these blocks, given with its stream, is gone.
Returns(p, blocks) ==
  /\ free' = [q \in DOMAIN free |->
                free[q] \cup {b[1] : b \in {b \in blocks : q = <<p, b[2]>>}}]
  /\ UNCHANGED top

Runnable(s) ==
  /\ lane[s] # <<>>
  /\ \A e \in Head(lane[s]).work.waits : <<e, Head(lane[s]).run>> \in fired

\* The next piece of work of a stream.
Execute(s) ==
  LET w == Head(lane[s]).work
      r == Head(lane[s]).run
  IN  /\ Runnable(s)
      /\ mem' = [b \in DOMAIN mem |->
                   IF \E o \in w.writes : o[1] = b
                     THEN Meant((CHOOSE o \in w.writes : o[1] = b)[2], r)
                     ELSE mem[b]]
      /\ fired' = fired \cup {<<e, r>> : e \in w.fires}
      /\ lane' = [lane EXCEPT ![s] = Tail(@)]
      /\ UNCHANGED <<free, top, epoch, run, graph>>

-----------------------------------------------------------------------------
Event  == {"fork", "join"}
Block  == 1 .. 5 + Blocks
Pieces == [reads : SUBSET (Block \X Names), writes : SUBSET (Block \X Names),
           waits : SUBSET Event, fires : SUBSET Event]

DeviceTypeOK ==
  /\ lane \in [Stream -> Seq([work : Pieces, run : Nat])]
  /\ fired \subseteq Event \X Nat
  /\ mem \in [Block -> (Names \cup {"junk"}) \X Nat]
  /\ free \in [Pool \X Stream -> SUBSET Fresh]
  /\ top \in 5 .. 5 + Blocks
  /\ epoch \in Nat /\ run \in Nat
  /\ graph \in Seq([Stream -> Seq(Pieces)])

\* What can run now and reads one of these tensors finds it in the block it
\* was given for it.
Finds(names) ==
  \A s \in Stream : Runnable(s) =>
    \A i \in Head(lane[s]).work.reads :
      i[2] \in names => mem[i[1]] = Meant(i[2], Head(lane[s]).run)

\* Nothing is read before it was written, after it was overwritten, or while
\* somebody else may be writing it, however far the streams have drifted apart
\* and whatever the allocator made of freed blocks.
ReadsWhatWasMeant == Finds(Names \ Weights)
=============================================================================
