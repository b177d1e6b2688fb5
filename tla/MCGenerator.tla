---------------------------- MODULE MCGenerator ----------------------------
(***************************************************************************)
(* Model-checking instance of Generator: the constants the .cfg files     *)
(* cannot write directly.                                                  *)
(***************************************************************************)
EXTENDS Generator

\* int(math.Pow(2, 20)), the code's own value.
MCBytesPerMiB == 2^20

\* rand.Float64() in {0, 0.5, 0.99}: zero, a middle and the largest draw.
MCRandomDraws == {0, 50, 99}
=============================================================================
