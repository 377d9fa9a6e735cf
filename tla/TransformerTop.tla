--------------------------- MODULE TransformerTop --------------------------
(***************************************************************************)
(* The HLS port of the block: the calls and the streams of                 *)
(* transformer_top.                                                        *)
(***************************************************************************)
EXTENDS DataflowNetwork

TopIns == [fan_out1 |-> <<"in">>,
           fifo1 |-> <<"s_fifo1">>,
           norm1 |-> <<"s_norm1_in">>,
           gemm1 |-> <<"s_norm1_out">>,
           softmax |-> <<"s_gemm1_out">>,
           gemm2 |-> <<"s_softmax_out">>,
           alu1 |-> <<"s_gemm2_out", "s_fifo1_out">>,
           alu1_fifo |-> <<"s_alu1">>,
           fan_out2 |-> <<"s_alu1_fifo">>,
           fifo2 |-> <<"s_fifo2">>,
           norm2 |-> <<"s_norm2_in">>,
           gemm3 |-> <<"s_norm2_out">>,
           relu |-> <<"s_gemm3_out">>,
           gemm4 |-> <<"s_relu_out">>,
           alu2 |-> <<"s_gemm4_out", "s_fifo2_out">>,
           alu2_fifo |-> <<"s_alu2_fifo">>]

TopOuts == [fan_out1 |-> <<"s_fifo1", "s_norm1_in">>,
            fifo1 |-> <<"s_fifo1_out">>,
            norm1 |-> <<"s_norm1_out">>,
            gemm1 |-> <<"s_gemm1_out">>,
            softmax |-> <<"s_softmax_out">>,
            gemm2 |-> <<"s_gemm2_out">>,
            alu1 |-> <<"s_alu1">>,
            alu1_fifo |-> <<"s_alu1_fifo">>,
            fan_out2 |-> <<"s_fifo2", "s_norm2_in">>,
            fifo2 |-> <<"s_fifo2_out">>,
            norm2 |-> <<"s_norm2_out">>,
            gemm3 |-> <<"s_gemm3_out">>,
            relu |-> <<"s_relu_out">>,
            gemm4 |-> <<"s_gemm4_out">>,
            alu2 |-> <<"s_alu2_fifo">>,
            alu2_fifo |-> <<"out">>]

TopProcesses == DOMAIN TopIns

TopRowWise == {"norm1", "gemm1", "softmax", "gemm2", "norm2", "gemm3", "gemm4"}

TopStreams == {"in", "out",
               "s_fifo1", "s_norm1_in", "s_norm1_out", "s_gemm1_out",
               "s_softmax_out", "s_gemm2_out", "s_fifo1_out", "s_alu1",
               "s_alu1_fifo", "s_fifo2", "s_norm2_in", "s_norm2_out",
               "s_gemm3_out", "s_relu_out", "s_gemm4_out", "s_fifo2_out",
               "s_alu2_fifo"}

\* A slip: the depth pragma of a residual stream left out.
DefaultDepth == [s \in TopStreams |-> 2]

\* A port holds the beat on offer.
TopDepth == [s \in TopStreams |->
                CASE s = "s_fifo1" -> 80
                  [] s \in {"s_alu1_fifo", "s_fifo2"} -> 48
                  [] s = "s_alu2_fifo" -> 32
                  [] s \in {"in", "out"} -> 1
                  [] OTHER -> 2]

ASSUME TopAssumption ==
    /\ Processes = TopProcesses /\ Streams = TopStreams
    /\ Ins = TopIns /\ Outs = TopOuts /\ RowWise = TopRowWise
    /\ Depth = TopDepth

-----------------------------------------------------------------------------
\* The depths given to the residual streams are enough: a fork is held up by
\* the path that computes, never by the stream beside it.
ResidualNeverFull == \A s \in {"s_fifo1", "s_fifo2"} : HasRoom(s)
=============================================================================
