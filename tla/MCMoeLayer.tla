----------------------------- MODULE MCMoeLayer -----------------------------
(* Instances of MoeLayer for TLC. *)
EXTENDS MoeLayer, TLC

\* A NVFP4 layer as the release serves it, without overlap.
Base ==
  [shared |-> TRUE, sink |-> TRUE, fusedOk |-> TRUE, fp4 |-> FALSE, interleaved |-> TRUE,
   lora |-> FALSE, linearEnv |-> FALSE, quantised |-> TRUE, stock |-> FALSE, unpacks |-> TRUE,
   marlin |-> FALSE,
   shortcut |-> TRUE, sigmoid |-> TRUE, norm |-> TRUE, scale |-> TRUE,
   capturer |-> FALSE, overlap |-> FALSE, reduce |-> TRUE, fusedAR |-> FALSE,
   arBuffer |-> FALSE, scattered |-> FALSE, ep |-> 1]

SharedKinds == {"none", "dense", "fused", "fp4", "linear", "bmm"}
WithShared(c, kind) ==
  [c EXCEPT !.shared = kind # "none", !.sink = kind # "dense", !.fusedOk = kind = "fused",
            !.fp4 = kind = "fp4", !.linearEnv = kind = "linear"]

\* Routed experts: quantised, bf16 on the stock runner, native bf16, with LoRA.
RoutedKinds == {"nvfp4", "stock", "native", "lora"}
WithRouted(c, kind) ==
  [c EXCEPT !.quantised = kind = "nvfp4", !.stock = kind = "stock", !.lora = kind = "lora"]

Kinds == {WithRouted(WithShared(Base, s), r) : s \in SharedKinds, r \in RoutedKinds}

\* Every way through the gate, and ids captured while two groups hold the experts.
GateFamily ==
  {[k EXCEPT !.shortcut = b[1], !.sigmoid = b[2], !.norm = b[3], !.scale = b[4],
             !.capturer = b[5]] : k \in Kinds, b \in [1 .. 5 -> BOOLEAN]}
  \cup {[k EXCEPT !.capturer = TRUE, !.ep = 2, !.reduce = b] : k \in Kinds, b \in BOOLEAN}

\* w13 not interleaved; a runner that takes plain top-k only.
MismatchFamily ==
  {[k EXCEPT !.interleaved = b[1], !.unpacks = b[2], !.shortcut = b[3]] :
     k \in Kinds, b \in [1 .. 3 -> BOOLEAN]}

\* Every way out of forward, with one expert group or two.
ReduceFamily ==
  {[k EXCEPT !.reduce = b[1], !.fusedAR = b[2], !.scattered = b[3], !.arBuffer = b[4],
             !.ep = e] : k \in Kinds, b \in [1 .. 4 -> BOOLEAN], e \in {1, 2}}

\* Two streams, called, captured and replayed.  On marlin the input of the
\* shared experts is cloned for the fused kind, and for any sink with LoRA.
Overlapped == [Base EXCEPT !.overlap = TRUE]
OnMarlin   == [Overlapped EXCEPT !.marlin = TRUE]
TimingFamily ==
  {WithShared(Overlapped, s) : s \in {"dense", "fused", "fp4", "linear"}}
  \cup {OnMarlin, WithRouted(WithShared(OnMarlin, "bmm"), "lora")}
  \cup {[Overlapped EXCEPT !.reduce = FALSE, !.fusedAR = TRUE],
        [Overlapped EXCEPT !.reduce = FALSE, !.arBuffer = TRUE]}

AllConfigs == GateFamily \cup MismatchFamily \cup ReduceFamily \cup TimingFamily

\* Five runs are two captures and a replay of each graph, or two replays and
\* a resume between them.
RunsOf ==
  [c \in AllConfigs |-> IF ~c.overlap THEN 1 ELSE IF ~c.reduce THEN 3
                        ELSE IF c.fusedOk /\ ~c.marlin THEN 5 ELSE 4]

\* No two columns of a batch weigh the same.
Bits == [t \in 0 .. 1 |-> [column \in 0 .. 5 |-> 40000 + 10 * t + column]]

\* Token 0 takes experts 0 and 3, token 1 takes 2 and 1; or both take 3 and 2.
Apart    == [t \in 0 .. 1 |-> IF t = 0 THEN (0 :> 0 @@ 1 :> 3) ELSE (0 :> 2 @@ 1 :> 1)]
Alike    == [t \in 0 .. 1 |-> (0 :> 3 @@ 1 :> 2)]
RoutingsOf == [c \in AllConfigs |-> IF c.overlap THEN {Apart} ELSE {Apart, Alike}]
=============================================================================
