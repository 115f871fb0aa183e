---------------------------- MODULE MCTransfers ----------------------------
(***************************************************************************)
(* An address space of 16, chunks of two.  DRAM is its second half, or a   *)
(* part of it; the flash and the trace buffer are below.                   *)
(***************************************************************************)
EXTENDS Transfers

\* The second ends the address space, as 2 GiB do.
MCDrams == {<<8, 4, 1>>, <<8, 8, 2>>}

\* The ranges start before, in and behind DRAM, are empty, fit, end behind
\* it, and wrap.
MCRanges == {0, 7, 8, 9, 11, 14} \X {0, 1, 3, 4, 7, 8, 9, 15}

MCFlash == <<0, 5>>

\* Two windows of three bytes, some of which the BMC may change before they are
\* read, matches that overlap themselves, and a replacement that is shorter than
\* its match, or empty.
MCRams == {<<1, 1, 1, 0, 1, 1>>, <<1, 0, 1, 0, 1, 0>>, <<0, 0, 0, 0, 0, 0>>}
MCStrings ==
  {<<<<1, 1>>, <<0>>>>, <<<<1, 1>>, <<0, 1>>>>, <<<<1, 0>>, <<0, 1>>>>, <<<<0>>, <<>>>>}

=============================================================================
