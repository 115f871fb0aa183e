------------------------------ MODULE MCFlash -------------------------------
(***************************************************************************)
(* Erases on chips of two 64 KiB blocks; writes on a chip of two sectors   *)
(* of two pages of two bytes; chips as flash_info lists them, on both      *)
(* controllers, and a chip that is not listed.                             *)
(***************************************************************************)
EXTENDS Flash

\* The erases start and end on every kind of boundary: unaligned, 4 KiB,
\* 32 KiB and 64 KiB, up to and past the end of the chip, and so large that
\* dst + size wraps.
AnyRange ==
  {0, 1, 14, 16, 32, 48, 62} \X {0, 1, 2, 18, 32, 48, 64}
    \union {<<48, 80>>, <<64, 2>>, <<126, 4>>}

\* What cmd/write.c asks for: whole 64 KiB windows.
Windows == {0, 32} \X {32, 64}

\* What flash_smart_write() asks for: the single sector.
Sectors == {0, 14, 32, 62} \X {2}

EraseAll == {"ERASE_4K", "ERASE_32K", "ERASE_64K"}
Micron == {"ERASE_4K", "ERASE_64K", "MICRON_BUGS"}

MCRequests ==
  {<<EraseAll, w[1], w[2]>> : w \in AnyRange}
    \union {<<Micron, w[1], w[2]>> : w \in Windows \union Sectors}

ASSUME WritersFit == ChunkFits

\* The writes start and end inside pages, at pages and at sectors, cover both
\* sectors, end past the chip and wrap.
MCWrites == {<<0, 8>>, <<1, 2>>, <<1, 4>>, <<3, 3>>, <<4, 4>>, <<7, 1>>,
             <<2, 0>>, <<6, 3>>, <<7, 9>>}

MCContents ==
  {[u \in 0 .. 7 |-> u % 2],
   [u \in 0 .. 7 |-> IF u \in {2, 3, 4, 7} THEN 0 ELSE 1]}

\* The small chip of an FMC was not left in 4B mode.
MCSetups ==
  {s \in [type : {"FMC", "SMC"}, big : BOOLEAN, can4b : BOOLEAN, was4b : BOOLEAN,
          needsWel : BOOLEAN, dull : BOOLEAN, busy : BOOLEAN, known : BOOLEAN] :
     /\ (s.big => s.can4b) /\ (s.was4b => s.can4b)
     /\ s.type = "FMC" /\ ~s.big => ~s.was4b}

ASSUME ChipsUntouched == S!SmallFmcUntouched

=============================================================================
