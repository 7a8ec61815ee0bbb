--------------------------- MODULE MCTimeseriesDB ---------------------------
\* Instance of TimeseriesDB for TLC: the second experiment reuses the workflow ID of the
\* first, so that late events of the first may be counted in it, and has two equal
\* descriptors, which a duplicate event completes; it defines two workflows, so that late
\* events also meet a map that is half filled.
EXTENDS TimeseriesDB

MCDefinitions == << [w \in {"w1"} |-> <<{"a"}, {"b"}>>],
                    [w \in {"w1", "w2"} |-> IF w = "w1" THEN <<{"a"}, {"a"}>> ELSE <<{"b"}>>] >>

MCEvents == {[gen |-> 1, wf |-> "w1", inv |-> "i1", attrs |-> {"a"}],
             [gen |-> 1, wf |-> "w1", inv |-> "i1", attrs |-> {"b"}],
             [gen |-> 2, wf |-> "w1", inv |-> "i2", attrs |-> {"a", "b"}]}

MCMaxDeliveries == <<2, 3>>

HandlerSymmetry == Permutations(Handlers)
=============================================================================
