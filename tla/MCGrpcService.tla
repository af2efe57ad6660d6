--------------------------- MODULE MCGrpcService ---------------------------
(***************************************************************************)
(* A policy of a root script and two modules, which can be edited into a     *)
(* cycle or a syntax error, and one caller at a time.                       *)
(***************************************************************************)
EXTENDS GrpcService, TLC

Source(loads, actions) == [loads |-> loads, ok |-> TRUE, fails |-> FALSE, actions |-> actions]

Broken == [Source(<<>>, <<>>) EXCEPT !.ok = FALSE]

MCVersions ==
  {("root" :> Source(<<"a", "b", "a">>, <<>>)) @@ ("a" :> Source(<<>>, <<Act("accept")>>))
     @@ ("b" :> Source(<<>>, <<Act("log")>>)),
   ("root" :> Source(<<"a">>, <<>>)) @@ ("a" :> Source(<<"b">>, <<Act("defer")>>))
     @@ ("b" :> [Source(<<>>, <<>>) EXCEPT !.fails = TRUE]),
   ("root" :> Source(<<"a">>, <<Act("fileinto")>>)) @@ ("a" :> Broken)
     @@ ("b" :> Source(<<"a">>, <<>>))}

MCSources == UNION {{v[f] : f \in File} : v \in MCVersions}

MCRequests ==
  {[valid |-> FALSE],
   [valid |-> TRUE, forward |-> FALSE, envelopeOk |-> TRUE],
   [valid |-> TRUE, forward |-> TRUE, envelopeOk |-> TRUE],
   [valid |-> TRUE, forward |-> TRUE, envelopeOk |-> FALSE]}

MCDeliveries ==
  {[taken |-> TRUE, code |-> 250], [taken |-> TRUE, code |-> 0], [taken |-> FALSE, code |-> 550]}
=============================================================================
