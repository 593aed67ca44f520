--------------------------- MODULE MCCollectorRun ---------------------------
(* Lists of at most MaxCollectors collectors, of specs that differ in what *)
(* the loop looks at.                                                      *)
EXTENDS CollectorRun

CONSTANT MaxCollectors

Spec1(type, exclude, named, namespaces) ==
    [Default(type) EXCEPT !.exclude = exclude, !.named = named, !.namespaces = namespaces]

Candidates ==
    {Spec1("clusterResources", "no", FALSE, {"a"}), Spec1("clusterResources", "no", FALSE, {"b"}),
     Spec1("clusterResources", "yes", FALSE, {"b"}), Spec1("clusterResources", "no", FALSE, {"*"}),
     Spec1("runPod", "no", TRUE, {"*"}), Spec1("runPod", "bad", FALSE, {"*"}),
     Spec1("copy", "no", FALSE, {"*"}), Spec1("unknown", "no", FALSE, {"*"})}

RequestLists == UNION {[1..n -> Candidates] : n \in 0..MaxCollectors}
=============================================================================
