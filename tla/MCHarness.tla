----------------------------- MODULE MCHarness -----------------------------
(***************************************************************************)
(* Two sessions of one script on one directory.  Each plan holds every sort*)
(* of step of its script, but for one that the other plan has.             *)
(***************************************************************************)
EXTENDS Harness
CONSTANTS s1, s2
MCCasts == {[s \in Sessions |-> k] : k \in Kinds}
Entry(call, logged) == [call |-> call, logged |-> logged]
MCPlan ==
    [acceptance |-> <<Entry("copy", FALSE), Entry("publish", TRUE), Entry("keep", FALSE),
                      Entry("seal", TRUE), Entry("copy", FALSE), Entry("refuse", FALSE),
                      Entry("append", FALSE)>>,
     conformance |-> <<Entry("copy", FALSE), Entry("read", FALSE), Entry("publish", FALSE),
                       Entry("compare", FALSE)>>]
============================================================================
