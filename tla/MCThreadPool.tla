---------------------------- MODULE MCThreadPool ----------------------------
(* Small pools for TLC. *)
EXTENDS ThreadPoolProps, TLC

CONSTANTS c1, c2

Op(name) == [op |-> name]
To(c) == [chan |-> c, send |-> TRUE]
From(c) == [chan |-> c, send |-> FALSE]
AltOn(table) == [op |-> "alt", table |-> table]

MCChan == {c1, c2}

\* Workers are interchangeable: worker_loop knows no name.
Workers == Permutations(Worker)

\* Flow control over two channels, and threads that spawn.
PipeGuest ==
  {AltOn(<<To(c1)>>), AltOn(<<From(c1)>>), AltOn(<<To(c2), From(c1)>>), Op("spawn")}

\* Every kind of instruction, on one channel.
EveryGuest ==
  {AltOn(<<To(c1)>>), AltOn(<<From(c1)>>), [op |-> "nbalt", table |-> <<From(c1)>>],
   Op("spawn"), Op("fault"), Op("exit"), Op("other")}

=============================================================================
