------------------------- MODULE CharacterizationDB ------------------------
(***************************************************************************)
(* What a core of given parameters costs: the measured result where there  *)
(* is one, an estimate otherwise.  Slack is in picoseconds of a period of  *)
(* ten nanoseconds.                                                        *)
(***************************************************************************)
EXTENDS Integers

CONSTANT Results  \* <<type, parameters>> :> what was measured, the type without "Core"

ASSUME ResultsAssumption ==
    \A key \in DOMAIN Results :
        Results[key] \in [LUT : Nat, FF : Nat, DSP : Nat, BRAM : Nat, wns : Int]

ClockPeriod == 10000
Resources == {"LUT", "FF", "DSP", "BRAM"}

\* params.get(name, 1)
Get(params, name) == IF name \in DOMAIN params THEN params[name] ELSE 1

Cost(lut, ff, dsp, slack) ==
    [LUT |-> lut, FF |-> ff, DSP |-> dsp, BRAM |-> 0, wns |-> slack]

Estimate(type, params) ==
    LET t(name) == Get(params, name)
        prod == t("T_M") * t("T_K") * t("T_N")
    IN CASE type = "ALU" ->
              Cost(109 + (t("T_width") - 1) * 108, 9 + (t("T_width") - 1) * 8, 0,
                   7827 + (t("T_width") - 1) * 309)
         [] type = "TemporalGEMM" ->
              Cost(prod * 200, t("T_M") * t("T_N") * 16, prod \div 4, 8000)
         [] type = "StatefulNorm" ->
              Cost(t("T_channel") * 80 + t("N_channel") * 2, t("T_channel") * 16,
                   0, 8000)
         [] type = "StatefulSoftmax" ->
              Cost(t("T_seq") * 100 + t("N_seq") * 2, t("T_seq") * 20, 0, 8000)
         [] type = "Activation" -> Cost(t("T_width") * 15, t("T_width") * 4, 0, 8000)
         [] type = "FIFO" ->
              Cost(t("depth") * 2 + t("T_width") * 4,
                   t("depth") * t("T_width") * 8 + 16, 0, 8000)
         [] type = "GEMM" ->
              Cost(prod * 50, t("T_M") * t("T_N") * 8, prod \div 8, 8000)
         [] type = "Softmax" -> Cost(t("T_seq") * 30, t("T_seq") * 10, 0, 8000)
         [] type = "Norm" -> Cost(t("T_channel") * 25, t("T_channel") * 8, 0, 8000)
         [] type = "MemRouter" -> Cost(t("T_out") * 5, t("T_out") * 2, 0, 8000)
         [] OTHER -> Cost(0, 0, 0, 8000)

\* A type is the name of its class, which may leave out the last word.
WithoutCore ==
    [ALUCore |-> "ALU", TemporalGEMMCore |-> "TemporalGEMM",
     StatefulNormCore |-> "StatefulNorm", StatefulSoftmaxCore |-> "StatefulSoftmax",
     ActivationCore |-> "Activation", FIFOCore |-> "FIFO", GEMMCore |-> "GEMM",
     SoftmaxCore |-> "Softmax", NormCore |-> "Norm", MemRouterCore |-> "MemRouter"]

ShortName(type) == IF type \in DOMAIN WithoutCore THEN WithoutCore[type] ELSE type

Lookup(type, params) ==
    LET key == <<ShortName(type), params>>
    IN IF key \in DOMAIN Results THEN Results[key]
       ELSE Estimate(ShortName(type), params)
=============================================================================
