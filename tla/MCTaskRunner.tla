---------------------------- MODULE MCTaskRunner ----------------------------
(***************************************************************************)
(* A diamond: "top" groups "mid", and both depend on "leaf", which is thus *)
(* executed twice; "mid" takes the parameter that "leaf" provides.         *)
(***************************************************************************)
EXTENDS TaskRunner

MCNames == {"top", "mid", "leaf"}
MCParams == {"p"}

MCSubs == [top |-> <<"mid">>, mid |-> <<>>, leaf |-> <<>>]
MCDeps == [top |-> <<"leaf">>, mid |-> <<"leaf">>, leaf |-> <<>>]
MCPlan == Expansion(MCSubs, MCDeps)

Diamond == Forest(MCPlan, <<"top">>)
Chain == Forest(MCPlan, <<"mid">>)

NothingRequired == [n \in MCNames |-> {}]
MidRequires == [top |-> {}, mid |-> {"p"}, leaf |-> {}]
LeafProvides == [top |-> {}, mid |-> {}, leaf |-> {"p"}]
=============================================================================
