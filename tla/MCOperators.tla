----------------------------- MODULE MCOperators -----------------------------
(* Small instances of the operators with protocols of their own. They do    *)
(* not interact: a behaviour is about one of them, which it chooses first.  *)
EXTENDS ClusterdMembership, ServiceOffers, OvnCluster, ApiCharms, Hypervisor,
        VolumeBackends, TLC

VARIABLE operator

MCPlans ==
    {[units |-> {"c1", "c2"}, faults |-> {}]} \cup
    [units : {{"c1"}},
     faults : {{"config", "kill"}, {"config", "error"}, {"config", "elect", "leaderleaves"},
               {"config", "kill", "elect", "leaderleaves"},
               {"kill", "error", "roles", "force", "elect", "leaderleaves"}}]

MCOfferPlans ==
    [offer : OfferNames, faults : {{"elect", "unwell", "relations", "again", "value"},
                                   {"remove", "value"}}]

MCOvnPlans ==
    [start : {{"o0"}}, scale : {{"o1", "o2"}}, client : {FALSE}, faults : {{}}] \cup
    [start : {{"o0"}}, scale : {{"o1"}}, client : {FALSE}, faults : {OvnFaults}] \cup
    [start : {{"o0"}}, scale : {{"o1"}}, client : {TRUE},
     faults : {{"raft", "probe", "pod"}}]

\* One fault of any kind for every charm, two for those of one container; aodh
\* and nova, with five and four containers, without restarts of them.
MCManyContainers == {"aodh", "nova"}

MCCharmPlans ==
    [charm : MCManyContainers, leads : {TRUE}, faults : {CharmFaults \ {"restart"}},
     most : {1}] \cup
    [charm : CharmNames \ MCManyContainers, leads : {TRUE}, faults : {CharmFaults},
     most : {1}] \cup
    [charm : {"ceilometer", "octavia", "neutron"}, leads : {FALSE},
     faults : {CharmFaults}, most : {1}] \cup
    [charm : {n \in CharmNames : Len(CharmCatalogue[n].pod) = 1}, leads : {TRUE},
     faults : {CharmFaults}, most : {2}] \cup
    [charm : {"placement"}, leads : {FALSE}, faults : {CharmFaults}, most : {2}]

MCHvPlans ==
    [focus : HvRelations, faults : {{"remove", "options", "snap"}}, readable : BOOLEAN,
     most : {2}] \cup
    [focus : {"options"}, faults : {{"options", "others"}, {"options", "epa"}},
     readable : {TRUE}, most : {3}]

Dpdk(on, control, datapath, memory) ==
    [dpdk |-> on, control |-> control, datapath |-> datapath, memory |-> memory]

MCHvOptions ==
    {Dpdk(FALSE, 1, 1, 1), Dpdk(TRUE, 1, 1, 0), Dpdk(TRUE, 2, 0, 2), Dpdk(TRUE, 0, 2, 2),
     Dpdk(TRUE, 2, 2, 2)}

MCCoresOf == (0 :> {0, 1, 2}) @@ (1 :> {3, 4})

\* One driver with everything that may happen; two on a unit that is set up.
MCVolumePlans ==
    [drivers : {{"d1"}}, ceph : {{"d1"}}, ready : {FALSE},
     faults : {{"install", "unset", "remove"}, {"remove", "relations", "options"}},
     most : {2}] \cup
    [drivers : {{"d1", "d2"}}, ceph : {{}}, ready : {TRUE},
     faults : {{"remove"}}, most : {1}]

\* The plans of the chosen operator; one, which nothing depends on, for others.
Of(name, plans) == IF operator = name THEN plans ELSE {CHOOSE p \in plans : TRUE}

MCInit ==
    /\ operator \in {"clusterd", "offers", "ovn", "charms", "hypervisor", "volumes"}
    /\ plan \in Of("clusterd", Plans)
    /\ oplan \in Of("offers", OfferPlans)
    /\ readable \in Of("offers", IF "remove" \in oplan.faults THEN BOOLEAN ELSE {FALSE})
    /\ ovnplan \in Of("ovn", OvnPlans)
    /\ cplan \in Of("charms", CharmPlans)
    /\ hvplan \in Of("hypervisor", HvPlans)
    /\ vplan \in Of("volumes", VolumePlans)
    /\ MembershipInit /\ OffersInit /\ OvnInit /\ CharmsInit /\ HypervisorInit /\ VolumeInit

MCNext ==
    /\ operator' = operator
    /\ \/ /\ operator = "clusterd" /\ MembershipNext
          /\ UNCHANGED <<offerVars, ovnVars, charmVars, hvVars, volumeVars>>
       \/ /\ operator = "offers" /\ OffersNext
          /\ UNCHANGED <<membershipVars, ovnVars, charmVars, hvVars, volumeVars>>
       \/ /\ operator = "ovn" /\ OvnNext
          /\ UNCHANGED <<membershipVars, offerVars, charmVars, hvVars, volumeVars>>
       \/ /\ operator = "charms" /\ CharmsNext
          /\ UNCHANGED <<membershipVars, offerVars, ovnVars, hvVars, volumeVars>>
       \/ /\ operator = "hypervisor" /\ HypervisorNext
          /\ UNCHANGED <<membershipVars, offerVars, ovnVars, charmVars, volumeVars>>
       \/ /\ operator = "volumes" /\ VolumeNext
          /\ UNCHANGED <<membershipVars, offerVars, ovnVars, charmVars, hvVars>>

MCSpec ==
    MCInit /\ [][MCNext]_<<operator, membershipVars, offerVars, ovnVars, charmVars, hvVars,
                          volumeVars>>

\* The types of all parts.
OperatorTypes ==
    /\ MembershipTypeOK /\ OffersTypeOK /\ OvnTypeOK /\ ApiCharmsTypeOK
    /\ HypervisorTypeOK /\ VolumeTypeOK
==============================================================================
