---------------------------- MODULE MCAutotuner ----------------------------
(***************************************************************************)
(* Specs of the repository: two subgraphs of test_autotuner.py and the     *)
(* block of run_transformer_autotune.py, whose large tiles exceed the      *)
(* device.  Specs made up beside them: an ALU on a small device and on one *)
(* that has no room for it, a design without factors, and one with a       *)
(* router of several beats, a length given as seq_len, a type named with   *)
(* its Core and a type the estimates do not know.                          *)
(***************************************************************************)
EXTENDS Autotuner

NoKwargs == [p \in {} |-> 1]
Core(type, params, kwargs) == [type |-> type, params |-> params, kwargs |-> kwargs]
DefaultFPGA == [LUT |-> 35200, FF |-> 17600, DSP |-> 80, BRAM |-> 90]

FFN == [ips |-> <<Core("Norm", <<"T_channel">>, NoKwargs),
                  Core("Activation", <<"T_width">>, NoKwargs),
                  Core("ALU", <<"T_width">>, NoKwargs)>>,
        fpga |-> DefaultFPGA]

OneALU == [ips |-> <<Core("ALU", <<"T_width">>, [N |-> 16])>>,
           fpga |-> [DefaultFPGA EXCEPT !.LUT = 800]]

Transformer ==
    [ips |-> <<Core("StatefulNorm", <<"T_channel">>, [N_channel |-> 16]),
               Core("TemporalGEMM", <<"T_K", "T_N">>, [T_M |-> 1, M |-> 8, N |-> 16]),
               Core("StatefulSoftmax", <<"T_seq">>, [N_seq |-> 16]),
               Core("ALU", <<"T_width">>, NoKwargs)>>,
     fpga |-> DefaultFPGA]

\* Nothing to tune: the root of the search is a whole design.
Fixed == [ips |-> <<Core("FIFO", <<>>, [T_width |-> 2, depth |-> 8]),
                    Core("StatefulNorm", <<>>, [T_channel |-> 2, N_channel |-> 16]),
                    Core("ALU", <<>>, [T_width |-> 2])>>,
          fpga |-> DefaultFPGA]

\* No ALU fits.
TooBig == [OneALU EXCEPT !.fpga.LUT = 100]

MemCompute ==
    [ips |-> <<Core("MemRouter", <<"T_out">>, NoKwargs),
               Core("GEMM", <<"T_M", "T_K", "T_N">>, NoKwargs)>>,
     fpga |-> DefaultFPGA]

\* The wider the router's beats, the more elements a latency is divided by.
Streamed ==
    [ips |-> <<Core("MemRouter", <<"T_out">>, "num_beats" :> 4),
               Core("Activation", <<"T_width">>, "seq_len" :> 16),
               Core("FIFOCore", <<>>, "T_width" :> 2 @@ "depth" :> 8),
               Core("Embedding", <<>>, NoKwargs)>>,
     fpga |-> [DefaultFPGA EXCEPT !.LUT = 250]]

AllSpecs == {FFN, OneALU, TooBig, Transformer, Fixed, MemCompute, Streamed}

\* The measurements test_autotuner.py expects.
Measured ==
    LET Key(t) == <<"ALU", [T_width |-> t]>>
    IN [key \in {Key(1), Key(2)} |->
           IF key = Key(1)
           THEN [LUT |-> 109, FF |-> 9, DSP |-> 0, BRAM |-> 0, wns |-> 7827]
           ELSE [LUT |-> 217, FF |-> 17, DSP |-> 0, BRAM |-> 0, wns |-> 8136]]

\* The repository's measurements and estimates allow for what the search takes
\* for granted.
ASSUME MeasuredAssumption == OneIsCheapest
=============================================================================
