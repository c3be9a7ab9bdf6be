----------------------------- MODULE MC_JobApi -----------------------------
(* A small instance of JobApi for TLC: two allowed roots, "/r" and "/s/u". *)
EXTENDS JobApi

Abs(parts) == [absolute |-> TRUE, parts |-> parts]
Rel(parts) == [absolute |-> FALSE, parts |-> parts]

MCInputs == { Abs(<<"r", "x", "y">>), Abs(<<"r", "l">>), Abs(<<"r", "l", ".", "x", "y">>), Abs(<<"s", "u", "y">>),
              Abs(<<"r", "..", "s">>), Abs(<<"..", "r">>), Rel(<<"r">>) }

MCRootInputs == { Abs(<<"r", ".">>), Abs(<<"s", "u">>), Rel(<<"s">>) }

MCPaths == { <<"r">>, <<"s">>, <<"r", "x">>, <<"r", "l">>, <<"r", "x", "y">>, <<"s", "x">>, <<"s", "u">> }

NoLinks == [p \in {} |-> p]
LinkTo(p) == [l \in {<<"r", "l">>} |-> p]
Nas(D, L) == [dirs |-> {<< >>, <<"s">>} \cup D, links |-> L]

OutAndIn == [l \in {<<"r", "l">>, <<"s", "x">>} |-> IF l = <<"r", "l">> THEN <<"s">> ELSE <<"r">>]

(* The roots alone; a link inside one, a link to nothing, one out of a root and  *)
(* another in again; no root; a root that is a link itself.                     *)
MCFirstNas ==
    { Nas({<<"r">>, <<"s", "u">>}, NoLinks),
      Nas({<<"r">>, <<"r", "x">>}, LinkTo(<<"r", "x">>)),
      Nas({<<"r">>}, LinkTo(<<"r", "x">>)),
      Nas({<<"r">>}, OutAndIn),
      Nas({}, NoLinks),
      Nas({}, [l \in {<<"r">>} |-> <<"s">>]) }

MCBatches == { <<"item", "item">>, <<"item", "/">> }
=============================================================================
