---------------------------- MODULE MCTopology ----------------------------
(* Two callers, and four kinds of labs to start from: an empty one whose    *)
(* pools are nearly used up by routers that are gone, one with a region,    *)
(* one in which all regions but one or two exist, most without their        *)
(* router, and one with two routers and a device.                           *)
EXTENDS Topology, TLC

MCStarts == {
    [Fresh EXCEPT !.private = 255, !.public = 14, !.ix = 11],
    [Fresh EXCEPT !.ix = 253]}
\* The second name is the one of the first one's switch.
MCNames == {"a", "a-sub"}
Callers == Permutations(Tasks)

IxSwitch == [name |-> "ix", cidr |-> IxCidr, owner |-> NoNode, next |-> FirstHost]
OnIx(n, p, third, id, host) ==
    [RouterRec(n, "none", p, id + 1, Cidr(p, third)) EXCEPT
        !.uplink = Ix, !.up = Addr(IxCidr, host), !.ready = TRUE]
Idling == task = [t \in Tasks |-> IdleTask] /\ panic = "none" /\ shared = {}

RegionBuilt ==
    /\ nextId = 4 /\ pools = [Fresh EXCEPT !.ix = 11, !.region = 2]
    /\ names = ("ix" :> 1 @@ "region_g" :> 2 @@ "region_g-sub" :> 3)
    /\ routers = (2 :> OnIx("region_g", "public", 16, 2, 10))
    /\ switches = (1 :> IxSwitch @@ 3 :> SwitchRec("region_g", Cidr("public", 16), 2, RegionFirstHost))
    /\ devices = [i \in {} |-> NoNode]
    /\ regions = ("g" :> [idx |-> 1, router |-> 2, next |-> 1])
    /\ ns = (0 :> {Route(16, 24, Addr(IxCidr, 10)), Route(16, 20, Addr(IxCidr, 10))} @@ 2 :> {})
    /\ Idling /\ left = MaxOps

\* Regions 1 to n, of which h and k have their routers; the block of h has
\* one /24 left.  The routes of the other routers are still there.
RegionsFull(n) ==
    /\ nextId = 2 + 2 * n /\ pools = [Fresh EXCEPT !.ix = 10 + n, !.region = 1 + n]
    /\ names = ("ix" :> 1 @@ "region_h" :> 2 @@ "region_h-sub" :> 3
                @@ "region_k" :> 4 @@ "region_k-sub" :> 5)
    /\ routers = (2 :> OnIx("region_h", "public", 16, 2, 10) @@ 4 :> OnIx("region_k", "public", 32, 4, 11))
    /\ switches = (1 :> IxSwitch @@ 3 :> SwitchRec("region_h", Cidr("public", 16), 2, RegionFirstHost)
                   @@ 5 :> SwitchRec("region_k", Cidr("public", 32), 4, RegionFirstHost))
    /\ devices = [i \in {} |-> NoNode]
    /\ regions = ("h" :> [idx |-> 1, router |-> 2, next |-> 15]
                  @@ "k" :> [idx |-> 2, router |-> 4, next |-> 1]
                  @@ [g \in {ToString(i) : i \in 3..n} |->
                         LET i == CHOOSE m \in 3..n : ToString(m) = g
                         IN [idx |-> i, router |-> 2 * i, next |-> 1]])
    /\ ns = (0 :> UNION {{Route(16 * i, 24, Addr(IxCidr, 9 + i)), Route(16 * i, 20, Addr(IxCidr, 9 + i))} : i \in 1..n}
             @@ 2 :> {} @@ 4 :> {})
    /\ Idling /\ left = LastRegion - n

DeviceBuilt ==
    /\ nextId = 8 /\ pools = [Fresh EXCEPT !.ix = 12, !.private = 2, !.public = 2]
    /\ names = ("ix" :> 1 @@ "a" :> 2 @@ "a-sub" :> 3 @@ "b" :> 4 @@ "b-sub" :> 5 @@ "c" :> 6)
    /\ routers = (2 :> OnIx("a", "public", 1, 2, 10) @@ 4 :> OnIx("b", "private", 1, 4, 11))
    /\ switches = (1 :> IxSwitch @@ 3 :> SwitchRec("a", Cidr("public", 1), 2, 3)
                   @@ 5 :> SwitchRec("b", Cidr("private", 1), 4, FirstHost))
    /\ devices = (6 :> [name |-> "c", ifaces |->
                    ("eth0" :> [sw |-> 3, ip |-> Addr(Cidr("public", 1), 2)])])
    /\ regions = [g \in {} |-> NoNode]
    /\ ns = (0 :> {Route(1, 24, Addr(IxCidr, 10))} @@ 2 :> {} @@ 4 :> {} @@ 6 :> {})
    /\ Idling /\ left = MaxOps - 1

MCSpec == (Init \/ RegionBuilt \/ (\E n \in {14, 15} : RegionsFull(n)) \/ DeviceBuilt) /\ [][Next]_vars
=============================================================================
