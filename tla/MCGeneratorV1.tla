---------------------------- MODULE MCGeneratorV1 ----------------------------
(* Constants of GeneratorV1 for TLC.  The random model multiplies the byte *)
(* count by 10000 * variance, past TLC's 32-bit integers with 2^20 bytes   *)
(* per MiB, so its run counts memory in KiB-sized units: the arithmetic    *)
(* and its truncation keep their form.                                     *)
EXTENDS GeneratorV1

MCSmallBytesPerMiB == 1024
MCRandomDrawsV1 == {0, 50, 99}
=============================================================================
