------------------------------ MODULE MCWorkers ------------------------------
EXTENDS Workers
Scenario(begin, makes, changes, connects) ==
    [begin |-> begin, makes |-> makes, changes |-> changes, clock |-> connects]
MCScenarios ==
    {Scenario(<<"Lumitone">>, {}, 2, FALSE),
     Scenario(<<"Wled">>, {}, 2, FALSE),
     Scenario(<<>>, {"Lumitone", "Wled"}, 0, FALSE),
     Scenario(<<"Wled">>, {"Wled"}, 0, FALSE),
     Scenario(<<>>, {}, 0, TRUE)}
=============================================================================
