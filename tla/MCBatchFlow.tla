----------------------------- MODULE MCBatchFlow -----------------------------
(* Acquisitions of one series over ZMQ, and of several over RDMA. *)
EXTENDS BatchFlow

OneSeries == <<"ready", "start", "data", "data", "end">>

\* A second, empty series follows.
TwoSeries == <<"ready", "start", "end", "start", "end">>

\* A finite run of the ZMQ graph, which may be stopped, and the RDMA graph as a
\* service.
FiniteZmq   == [zmq |-> TRUE, finite |-> TRUE, mayStop |-> TRUE, plans |-> {OneSeries}]
RdmaService == [zmq |-> FALSE, finite |-> FALSE, mayStop |-> FALSE, plans |-> {TwoSeries}]

BothGraphs == {FiniteZmq, RdmaService}
\* A finite run that meets a second series.
FiniteSeveral == {[zmq |-> TRUE, finite |-> TRUE, mayStop |-> FALSE, plans |-> {TwoSeries}]}

Longest == 5
=============================================================================
