---------------------------- MODULE MCExecBuffers ----------------------------
(***************************************************************************)
(* TLC instance of ExecBuffers and NativeSecurity with the real buffer     *)
(* sizes. Unsigned words have 16 bits, because TLC's integers end at 2^31. *)
(***************************************************************************)
EXTENDS NativeSecurity

\* Around every limit, around 5 and 4, multiples and not; 3276 and 3280 bytes
\* encode to 4095 and 4100, 13108 * 5 is the first product of a multiple of 4
\* beyond 2^16.
MCLengths ==
    {-4, -1, 0, 1, 2, 3, 4, 5, 6, 8, 10, 12, 15, 16, 20, 32, 39, 40, 41, 200,
     204, 208, 250, 254, 255, 256, 257, 259, 260, 261, 1000, 3272, 3275, 3276,
     3277, 3280, 4090, 4092, 4095, 4096, 4097, 4100, 5120, 13104, 13107, 13108,
     13112, 26216, 32764, 32767}
=============================================================================
