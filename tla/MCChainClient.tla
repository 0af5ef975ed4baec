---------------------------- MODULE MCChainClient ----------------------------
EXTENDS ChainClient

CONSTANTS t1, t2

\* A package of one and one of two.
TwoPackages == {<<t1>>, <<t1, t2>>}

TwoEstimates == {[b \in {1, 6, 144} |-> CASE b = 1 -> 4000 [] b = 6 -> 2000 [] b = 144 -> 1500],
                 [b \in {1, 6, 144} |-> CASE b = 1 -> 300 [] b = 6 -> 280 [] b = 144 -> 100]}

NoBudget == [offers |-> 0, users |-> 0, others |-> 0, syncs |-> 0, outputs |-> 0, fees |-> 0, stops |-> 0, faults |-> 0]

On(kind, network, budget) == [backend |-> [kind |-> kind, network |-> network], budget |-> budget]

\* Packages against the queue's bound and a stop; calls that share a connection that breaks; a call
\* across a stop; lightning syncs; fee updates.
SomeScenarios ==
    LET packages == [NoBudget EXCEPT !.offers = 3, !.stops = 1, !.faults = 1]
        breaks == [NoBudget EXCEPT !.offers = 1, !.users = 1, !.others = 1, !.faults = 1]
        across == [NoBudget EXCEPT !.users = 2, !.stops = 1, !.faults = 2]
        syncs == [NoBudget EXCEPT !.syncs = 2, !.outputs = 2, !.stops = 1, !.faults = 1]
        updates == [NoBudget EXCEPT !.fees = 2, !.stops = 1]
    IN  {On("electrum", "bitcoin", b) : b \in {packages, breaks, across, syncs}}
          \cup {On("esplora", "bitcoin", b) : b \in {breaks, syncs}} \cup {On("bitcoind", "bitcoin", across)}
          \cup {On(k, n, updates) : k \in {"electrum", "esplora", "bitcoind"}, n \in {"bitcoin", "regtest"}}
=============================================================================
