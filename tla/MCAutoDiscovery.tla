-------------------------- MODULE MCAutoDiscovery --------------------------
(* Two namespaces, one of them of the system.  Of the types that go by     *)
(* namespace and of the parts of KOTS applications there is one each: the  *)
(* others are checked in the same way, on resources of their own.          *)
EXTENDS AutoDiscovery

OneStandard ==
    {c \in GenerateStandardKotsCollectors : c.name \in {"kurl-current-config", "host-preflights"}}
=============================================================================
