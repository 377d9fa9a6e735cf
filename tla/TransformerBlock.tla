-------------------------- MODULE TransformerBlock -------------------------
(***************************************************************************)
(* The graph build_transformer_block stitches: an attention path and a     *)
(* feed-forward path, each beside a residual FIFO that rejoins it at an    *)
(* ALU.                                                                    *)
(***************************************************************************)
EXTENDS StitchedNetwork

BlockKind == [input_fifo |-> "fifo",
              norm1 |-> "norm", tgemm1 |-> "tgemm", softmax |-> "softmax",
              tgemm2 |-> "tgemm", fifo1 |-> "fifo", alu1 |-> "alu",
              norm2 |-> "norm", tgemm3 |-> "tgemm", activation |-> "activation",
              tgemm4 |-> "tgemm", fifo2 |-> "fifo", alu2 |-> "alu"]

BlockIPs == DOMAIN BlockKind

BlockEdges == {<<"input_fifo", "fifo1">>, <<"input_fifo", "norm1">>,
               <<"norm1", "tgemm1">>, <<"tgemm1", "softmax">>,
               <<"softmax", "tgemm2">>, <<"tgemm2", "alu1">>,
               <<"fifo1", "alu1">>,
               <<"alu1", "fifo2">>, <<"alu1", "norm2">>,
               <<"norm2", "tgemm3">>, <<"tgemm3", "activation">>,
               <<"activation", "tgemm4">>, <<"tgemm4", "alu2">>,
               <<"fifo2", "alu2">>}

\* A slip: residual FIFOs sized for the norm alone.
DepthOfNorm == [input_fifo |-> 1, fifo1 |-> NumBeats, fifo2 |-> NumBeats]

\* Each residual FIFO holds what arrives during the latency of the path beside
\* it, and one packet more.
BlockDepth == LET norm_latency == NumBeats
                  tgemm_latency == 2 * NumBeats
                  softmax_latency == 3 * NumBeats
                  attn_latency == norm_latency + tgemm_latency
                                    + softmax_latency + tgemm_latency
                  ffn_latency == norm_latency + tgemm_latency + tgemm_latency
              IN [input_fifo |-> 1,
                  fifo1 |-> attn_latency + NumBeats,
                  fifo2 |-> ffn_latency + NumBeats]

-----------------------------------------------------------------------------
\* What _compute_fifo_depths promises: a residual FIFO holds all that
\* accumulates while the path beside it is busy, and is never the one to stop
\* its source.
ResidualNeverFull == \A f \in {"fifo1", "fifo2"} : Accepts(f)

\* What the softmax's docstring promises its neighbours: downstream can read
\* when the divide stage has data.  With packets held and none of them waiting
\* for its sum, it has data; if it then offers none, no later cycle helps, and
\* the whole block stands.
SummedPacketsOffered ==
    TokensInFlight("softmax") > 0 /\ ~SumActive("softmax") => DivActive("softmax")
=============================================================================
