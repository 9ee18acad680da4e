--------------------------- MODULE LaunchGatesMC ---------------------------
(* A driver pod and workers of two pods per replica; a rack is above a host.  Kueue may admit less
   than a replica of the workers, and a ProvisioningRequest may ask for a host. *)
EXTENDS LaunchGates

Universal(v) == [universal |-> <<v>>, individual |-> << >>]
Individual(vs) == [universal |-> << >>, individual |-> vs]

Slice(n, racks, hosts, counts) == [domains |-> n, values |-> <<racks, hosts>>, counts |-> counts]

OneHost == [levels |-> <<"rack", "host">>,
            slices |-> <<Slice(1, Universal("r1"), Universal("h1"), Universal(2))>>]

OneRack == [levels |-> <<"rack", "host">>,
            slices |-> <<Slice(2, Universal("r2"), Individual(<<"h1", "h2">>), Individual(<<2, 1>>))>>]

Admission(workers, topology) ==
    [counts |-> [driver |-> 1, workers |-> workers],
     topology |-> [driver |-> NoAssignment, workers |-> topology],
     delayed |-> FALSE, reserved |-> TRUE]

MCAdmissions == {Admission(1, NoAssignment), Admission(2, NoAssignment), Admission(3, NoAssignment),
                 Admission(2, OneHost), Admission(3, OneRack)}

MCPodSets == {"driver", "workers"}
MCOnes == [p \in MCPodSets |-> 1]
MCPairs == [driver |-> 1, workers |-> 2]
MCNodeUpdates == {NoKeys, [rack |-> "r2"], [host |-> "h3"]}
=============================================================================
