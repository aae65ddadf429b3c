----------------------------- MODULE MCProcess -----------------------------
EXTENDS Process

Info(memory, unit, pins, memNodes, cpuCells) ==
  [memory |-> memory, unit |-> unit, pins |-> pins, memNodes |-> memNodes,
   cpuCells |-> cpuCells]

\* Odd amounts on two cells, one cell named twice, none at all, and descriptions
\* Process cannot use.
MCInfos ==
  {Info(3, "KiB", 3, <<0, 1>>, <<0, 1>>), Info(1, "MiB", 2, <<1, 1, 0>>, <<1>>),
   Info(2, "KiB", 1, <<>>, <<>>), Info(1, "B", 1, <<0>>, <<0>>),
   Info(1, "KiB", None, <<0>>, <<0>>), Info(1, "KiB", 1, None, <<0>>),
   Info(1, "KiB", 1, <<0>>, <<7>>)}

Cell(id, memory, unit, cpus) ==
  [id |-> id, memory |-> memory, unit |-> unit, cpus |-> cpus]

MCHosts ==
  {<<Cell(0, 1, "GiB", 5), Cell(1, 3, "MiB", 7)>>,
   <<Cell(1, 5, "KiB", 5), Cell(0, 7, "KiB", 7), Cell(2, 1, "KiB", 1)>>,
   <<>>, <<Cell(0, 1, "pages", 1)>>}

\* No ratio, ratios with exact products (1.25 and 1.5), and one that is rounded.
Float64(significand, exponent) ==
  [significand |-> significand, exponent |-> exponent]

MCOvercommits ==
  {[memory |-> None, cpu |-> None],
   [memory |-> Float64(5, 2), cpu |-> Float64(3, 1)],
   [memory |-> Float64(19, 4), cpu |-> Float64(19, 3)]}

MCModes == {[name |-> "host-model", supported |-> TRUE],
            [name |-> "maximum", supported |-> FALSE]}

=============================================================================
