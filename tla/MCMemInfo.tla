------------------------------- MODULE MCMemInfo -------------------------------
(* MemInfo for TLC: what the queries may return. *)
EXTENDS MemInfo

Line(type, kB) == [type |-> type, kB |-> kB]
Record(unmapped, size) == [unmapped |-> unmapped, size |-> size]

\* smaps_rollup of a process that is gone, of one without swap, of one with,
\* and a read that ends before SwapPss.
MCSmapsFiles ==
  { <<>>,
    <<Line("Rss", 50), Line("Pss", 30), Line("Pss_Anon", 9), Line("SwapPss", 0)>>,
    <<Line("Rss", 70), Line("Pss", 40), Line("Pss_Anon", 7), Line("SwapPss", 5)>>,
    <<Line("Rss", 70), Line("Pss", 40)>> }

\* No record, a mapped one only, and an unmapped one behind a mapped one.
MCDevRecords ==
  { <<>>, <<Record(FALSE, 4096)>>, <<Record(FALSE, 4096), Record(TRUE, 3000)>>,
    <<Record(TRUE, 8192), Record(TRUE, 2048)>> }

\* An error of the library, one that looks like ERROR_DMA_OPEN_SO in kB, less
\* than a kB, and more.
MCDmaSums == {-1, -2000, 1000, 9000}
==============================================================================
