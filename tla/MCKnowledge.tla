---------------------------- MODULE MCKnowledge ----------------------------
(***************************************************************************)
(* Small instances of KnowledgeEvolution for TLC.                          *)
(***************************************************************************)
EXTENDS KnowledgeEvolution, TLC

CONSTANTS i1, i2, i3, j, m, x, h1, h2, h3

Leak == <<"leak", "oom">>
Overload == <<"overload", "timeouts">>

Builtin == <<"cpu-saturation">>

Qualified == [gates |-> Gates, confidence |-> 90, proposal |-> {Leak}, grounded |-> TRUE,
              topology |-> {"service>database"}, mined |-> {}, others |-> {}]

\* The Brain diagnosed i1, i2 and i3, which leaves no ledger to mine; m has one;
\* j has a diagnosis that gives no proposal,
\* and a ledger for another path whose graph names the cause of the first; x is an evaluation incident; the h
\* were resolved with too little confidence for Learn and enough for discovery.
InstanceFacts ==
    [i \in Incidents |->
        CASE i \in {i1, i2, i3} -> Qualified
          [] i = m -> [Qualified EXCEPT !.mined = {Leak}, !.topology = {"service>cache"}]
          [] i = j -> [Qualified EXCEPT !.proposal = {}, !.mined = {Overload},
                                         !.others = {Head(Leak)}]
          [] i = x -> [Qualified EXCEPT !.gates = Gates \ {"production"}, !.mined = {Leak}]
          [] OTHER -> [Qualified EXCEPT !.gates = Gates \ {"confident"}, !.confidence = 85,
                                        !.mined = {Leak}]]

\* Three incidents race in an empty table; a mining run finds a path that three
\* earlier incidents share; the shipped server has builtin patterns.
InstanceServers ==
    {[seeds |-> {}, history |-> <<>>, arriving |-> {i1, i2, i3}],
     [seeds |-> {}, history |-> <<h1, h2, x, h3>>, arriving |-> {m, j}],
     [seeds |-> {Builtin}, history |-> <<h1, h2, h3>>, arriving |-> {i1, j, x}]}

Symmetry == Permutations({i1, i2, i3})
=============================================================================
