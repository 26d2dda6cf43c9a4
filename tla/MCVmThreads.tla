---------------------------- MODULE MCVmThreads ----------------------------
(* Small guests for TLC: two channels, up to three threads. *)
EXTENDS VmThreadsProps

CONSTANTS c1, c2

Op(name) == [op |-> name]
On(name, c) == [op |-> name, chan |-> c]
AltOn(name, table) == [op |-> name, table |-> table]
To(c) == [chan |-> c, send |-> TRUE]
From(c) == [chan |-> c, send |-> FALSE]

MCChan == {c1, c2}

\* Sends, receives and selections over both channels, nil and self-conflicting
\* tables, threads that come and go.
ChannelGuest ==
  {On("send", c1), On("recv", c1), On("recv", c2), On("send", NIL),
   AltOn("alt", <<To(c2), From(c1)>>), AltOn("alt", <<From(c1), From(c2)>>),
   AltOn("alt", <<To(c1), From(c1)>>), AltOn("nbalt", <<To(c2), From(c1)>>),
   Op("spawn"), Op("exit"), Op("other")}

\* Reads that wait, exit records, exceptions, cross-module calls and Tk's sends.
HostGuest ==
  {On("send", c1), On("recv", c1), On("tksend", c1), AltOn("alt", <<From(c1)>>),
   Op("read"), Op("waitread"), Op("raise"), Op("mcall"), Op("ret"), Op("spawn"),
   Op("exit"), Op("other")}

\* Guests that stay out of nested calls, for what needs every loop to count.
FairGuest ==
  {On("send", c1), On("recv", c1), AltOn("alt", <<From(c2), From(c1)>>), Op("read"),
   Op("spawn"), Op("exit")}

\* Guests that do nothing but come and go.
ExitingGuest == {Op("spawn"), Op("exit"), Op("other")}

=============================================================================
