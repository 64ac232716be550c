------------------------- MODULE RegionLinksProofs -------------------------
(***************************************************************************)
(* Proofs about RegionLinks, for every set of regions and clients and any  *)
(* number of breaks.                                                       *)
(*                                                                         *)
(* Loop freedom is not inductive: it says nothing of the calls in flight,  *)
(* nor why an intermediate stays safe when its own link breaks later.  The *)
(* strengthening numbers the breaks (the history variable since): along    *)
(* the hops of a rerouted packet the number grows, so it cannot circulate. *)
(***************************************************************************)
EXTENDS RegionLinks, WellFoundedInduction, TLAPS

----------------------------------------------------------------------------
(* The inductive invariant. *)

(* Some call is about to change, or is changing, the routes of the pair. *)
Busy(n, d) ==
    \E c \in Clients : IsReroute(op[c]) /\ LinkKey(op[c].a, op[c].b) = LinkKey(n, d)

(* No two pairs were last broken by the same break. *)
SinceInv ==
    /\ \A p \in Pairs : since[p] <= breaks
    /\ \A p, q \in Pairs : (since[p] = since[q] /\ since[p] # 0) => p = q

Serial == \A c, e \in Clients : (IsReroute(op[c]) /\ IsReroute(op[e])) => c = e

(* What a break in flight relies on: both links of its intermediate are    *)
(* intact, and its pair holds the latest number.                           *)
BreakInv(o) ==
    /\ link[LinkKey(o.a, o.b)] = "linked"
    /\ link[LinkKey(o.m, o.a)] = "linked"
    /\ link[LinkKey(o.m, o.b)] = "linked"
    /\ since[LinkKey(o.a, o.b)] = breaks
    /\ breaks # 0
    /\ o.step = "a" => route4[o.a][o.b] \in {o.b, Ix}
    /\ o.step # "a" => route4[o.a][o.b] = o.m
    /\ o.step # "mark" => route4[o.b][o.a] \in {o.a, Ix}
    /\ o.step = "mark" => route4[o.b][o.a] = o.m

RestoreInv(o) ==
    /\ link[LinkKey(o.a, o.b)] = "broken"
    /\ o.step = "a" => /\ route4[o.a][o.b] = route4[o.b][o.a]
                       /\ route4[o.a][o.b] \notin {o.a, o.b, Ix}
    /\ o.step # "a" => route4[o.a][o.b] = o.b
    /\ o.step = "mark" => route4[o.b][o.a] = o.a

CallInv ==
    \A c \in Clients :
        /\ op[c].kind = "break" => BreakInv(op[c])
        /\ op[c].kind = "restore" => RestoreInv(op[c])

Direct ==
    \A n, d \in Regions :
        (n # d /\ link[LinkKey(n, d)] # "broken" /\ ~Busy(n, d)) =>
            route4[n][d] \in {d, Ix}

Bypassed ==
    \A n, d \in Regions :
        (n # d /\ link[LinkKey(n, d)] = "broken" /\ ~Busy(n, d)) =>
            route4[n][d] = route4[d][n] /\ route4[n][d] \notin {n, d, Ix}

(* Each hop of a rerouted packet is either the last one or leads to a pair *)
(* that was broken later.                                                  *)
Ranked ==
    \A n, d \in Regions :
        (n # d /\ route4[n][d] \notin {d, Ix}) =>
            /\ route4[n][d] # n
            /\ \/ route4[route4[n][d]][d] \in {d, Ix}
               \/ since[LinkKey(route4[n][d], d)] > since[LinkKey(n, d)]

SerialInv == Serial /\ CallInv /\ Direct /\ Bypassed /\ Ranked

IInv == TypeOK /\ SinceInv /\ (disturbed \/ SerialInv)

----------------------------------------------------------------------------
(* Keys. *)

(* The key of a pair does not depend on the order its regions are named in. *)
LEMMA KeyEq ==
    ASSUME NEW a, NEW b, NEW n, NEW d
    PROVE  (LinkKey(a, b) = LinkKey(n, d)) <=> ((a = n /\ b = d) \/ (a = d /\ b = n))
  BY DEF LinkKey

LEMMA KeyInPairs == \A a, b \in Regions : LinkKey(a, b) \in Pairs
  BY DEF Pairs

----------------------------------------------------------------------------
(* What each way of moving a client's call does to the calls. *)

(* Step advances the await of one client and touches nothing else of it. *)
LEMMA StepFacts ==
    ASSUME TypeOK, NEW c \in Clients, NEW s \in {"a", "b", "mark"}, Step(c, s)
    PROVE  /\ op' \in [Clients -> Call]
           /\ \A e \in Clients :
                 /\ op'[e].kind = op[e].kind /\ op'[e].a = op[e].a
                 /\ op'[e].b = op[e].b /\ op'[e].m = op[e].m
                 /\ e # c => op'[e] = op[e]
           /\ op'[c].step = s
  <1>1. op \in [Clients -> Call] /\ op[c] \in Call
    BY DEF TypeOK
  <1>2. op' = [op EXCEPT ![c] = [op[c] EXCEPT !.step = s]]
    BY DEF Step
  <1>3. [op[c] EXCEPT !.step = s] \in Call
    BY <1>1 DEF Call
  <1>4. op' \in [Clients -> Call] /\ op'[c] = [op[c] EXCEPT !.step = s]
    BY <1>1, <1>2, <1>3
  <1>5. /\ op'[c].kind = op[c].kind /\ op'[c].a = op[c].a /\ op'[c].b = op[c].b
        /\ op'[c].m = op[c].m /\ op'[c].step = s
    BY <1>1, <1>4 DEF Call
  <1>6. \A e \in Clients : e # c => op'[e] = op[e]
    BY <1>1, <1>2
  <1> QED
    BY <1>4, <1>5, <1>6

(* Return leaves one client idle. *)
LEMMA ReturnFacts ==
    ASSUME TypeOK, NEW c \in Clients, Return(c)
    PROVE  /\ op' \in [Clients -> Call]
           /\ op'[c].kind = "idle"
           /\ \A e \in Clients : e # c => op'[e] = op[e]
  <1>1. Idle \in Call /\ Idle.kind = "idle"
    BY DEF Idle, Call, NextHops
  <1> QED
    BY <1>1 DEF Return, TypeOK

(* Begin puts one client at the first await of a call. *)
LEMMA BeginFacts ==
    ASSUME TypeOK, NEW c \in Clients, NEW k \in {"link", "break", "restore"},
           NEW x \in Regions, NEW y \in Regions, NEW z \in NextHops,
           op' = [op EXCEPT ![c] = Begin(k, x, y, z)]
    PROVE  /\ op' \in [Clients -> Call]
           /\ op'[c].kind = k /\ op'[c].step = "a" /\ op'[c].a = x
           /\ op'[c].b = y /\ op'[c].m = z
           /\ \A e \in Clients : e # c => op'[e] = op[e]
  <1>1. Begin(k, x, y, z) \in Call
    BY DEF Begin, Call, NextHops
  <1> QED
    BY <1>1 DEF Begin, TypeOK

(* Configuring one side of a link keeps the route tables well formed.      *)
RoutesOK ==
    /\ wired \in [Regions -> SUBSET Regions]
    /\ route4 \in [Regions -> [Regions -> NextHops]]
    /\ route6 \in [Regions -> [Regions -> NextHops]]

LEMMA ConfigureFacts ==
    ASSUME TypeOK, NEW n \in Regions, NEW d \in Regions, ConfigureSide(n, d)
    PROVE  RoutesOK'
  <1>1. wired' \in [Regions -> SUBSET Regions]
    BY DEF TypeOK, ConfigureSide
  <1>2. route4' \in [Regions -> [Regions -> NextHops]]
    BY DEF TypeOK, ConfigureSide, AddRoute, NextHops
  <1>3. route6' \in [Regions -> [Regions -> NextHops]]
    BY DEF TypeOK, ConfigureSide, AddRoute, NextHops
  <1> QED
    BY <1>1, <1>2, <1>3 DEF RoutesOK

----------------------------------------------------------------------------
(* Type correctness: records, routes and calls stay in their sets, and a   *)
(* call in flight names two distinct regions and, for a break, a third.    *)
THEOREM TypeInvariant == Spec => []TypeOK
  <1> USE RegionsAssumption, KeyInPairs
  <1>1. Init => TypeOK
    <2> SUFFICES ASSUME Init PROVE TypeOK
      OBVIOUS
    <2>1. Idle \in Call
      BY DEF Idle, Call, NextHops
    <2>2. op \in [Clients -> Call] /\ \A c \in Clients : op[c].kind = "idle"
      BY <2>1 DEF Init, Idle
    <2>3. 0 \in 0..MaxBreaks
      OBVIOUS
    <2> QED
      BY <2>2, <2>3 DEF Init, TypeOK, Status, NextHops
  <1>2. TypeOK /\ [Next]_vars => TypeOK'
    <2> SUFFICES ASSUME TypeOK, [Next]_vars PROVE TypeOK'
      OBVIOUS
    <2>1. ASSUME NEW c \in Clients, NEW a \in Regions, NEW b \in Regions,
                 LinkPrepare(c, a, b)
          PROVE  TypeOK'
      <3>1. op' = [op EXCEPT ![c] = Begin("link", a, b, Ix)] /\ a # b
        BY <2>1 DEF LinkPrepare
      <3>5. /\ op' \in [Clients -> Call]
            /\ op'[c].kind = "link" /\ op'[c].step = "a" /\ op'[c].a = a
            /\ op'[c].b = b /\ op'[c].m = Ix
            /\ \A e \in Clients : e # c => op'[e] = op[e]
        BY <3>1, BeginFacts DEF NextHops
      <3> QED
        BY <2>1, <3>1, <3>5 DEF LinkPrepare, TypeOK, Status
    <2>2. ASSUME NEW c \in Clients, NEW a \in Regions, NEW b \in Regions,
                 BreakPrepare(c, a, b)
          PROVE  TypeOK'
      <3>1. breaks' \in 0..MaxBreaks /\ since' \in [Pairs -> 0..MaxBreaks]
        BY <2>2 DEF BreakPrepare, TypeOK
      <3>2. disturbed' \in BOOLEAN
        BY <2>2 DEF BreakPrepare, NoteOverlap, TypeOK
      <3>3. PICK m \in Intermediates(a, b) : op' = [op EXCEPT ![c] = Begin("break", a, b, m)]
        BY <2>2 DEF BreakPrepare
      <3>4. m \in Regions \ {a, b} /\ a # b
        BY <2>2 DEF Intermediates, BreakPrepare
      <3>5. /\ op' \in [Clients -> Call]
            /\ op'[c].kind = "break" /\ op'[c].step = "a" /\ op'[c].a = a
            /\ op'[c].b = b /\ op'[c].m = m
            /\ \A e \in Clients : e # c => op'[e] = op[e]
        BY <3>3, <3>4, BeginFacts DEF NextHops
      <3> QED
        BY <2>2, <3>1, <3>2, <3>4, <3>5 DEF BreakPrepare, TypeOK
    <2>3. ASSUME NEW c \in Clients, NEW a \in Regions, NEW b \in Regions,
                 RestorePrepare(c, a, b)
          PROVE  TypeOK'
      <3>1. op' = [op EXCEPT ![c] = Begin("restore", a, b, Ix)] /\ a # b
        BY <2>3 DEF RestorePrepare
      <3>5. /\ op' \in [Clients -> Call]
            /\ op'[c].kind = "restore" /\ op'[c].step = "a" /\ op'[c].a = a
            /\ op'[c].b = b /\ op'[c].m = Ix
            /\ \A e \in Clients : e # c => op'[e] = op[e]
        BY <3>1, BeginFacts DEF NextHops
      <3> QED
        BY <2>3, <3>1, <3>5 DEF RestorePrepare, NoteOverlap, TypeOK
    <2>4. ASSUME NEW c \in Clients, LinkSideA(c) PROVE TypeOK'
      <3>1. /\ op[c].a \in Regions /\ op[c].b \in Regions /\ Step(c, "b")
            /\ ConfigureSide(op[c].a, op[c].b)
            /\ UNCHANGED <<link, since, breaks, disturbed>>
        BY <2>4 DEF LinkSideA, TypeOK
      <3>2. /\ op' \in [Clients -> Call]
            /\ \A e \in Clients :
                 /\ op'[e].kind = op[e].kind /\ op'[e].a = op[e].a
                 /\ op'[e].b = op[e].b /\ op'[e].m = op[e].m
        BY <3>1, StepFacts
      <3>3. RoutesOK'
        BY <3>1, ConfigureFacts
      <3> QED
        BY <3>1, <3>2, <3>3 DEF TypeOK, RoutesOK
    <2>5. ASSUME NEW c \in Clients, LinkSideB(c) PROVE TypeOK'
      <3>1. /\ op[c].a \in Regions /\ op[c].b \in Regions /\ Return(c)
            /\ ConfigureSide(op[c].b, op[c].a)
            /\ UNCHANGED <<link, since, breaks, disturbed>>
        BY <2>5 DEF LinkSideB, TypeOK
      <3>2. /\ op' \in [Clients -> Call]
            /\ op'[c].kind = "idle"
            /\ \A e \in Clients : e # c => op'[e] = op[e]
        BY <3>1, ReturnFacts
      <3>3. RoutesOK'
        BY <3>1, ConfigureFacts
      <3> QED
        BY <3>1, <3>2, <3>3 DEF TypeOK, RoutesOK
    <2>6. ASSUME NEW c \in Clients, RerouteA(c) PROVE TypeOK'
      <3>1. /\ op[c] \in Call /\ op[c].a \in Regions /\ op[c].b \in Regions
            /\ Step(c, "b")
        BY <2>6 DEF RerouteA, IsReroute, TypeOK
      <3>2. Gateway(op[c], op[c].b) \in NextHops
        BY <3>1 DEF Gateway, Call, NextHops
      <3>3. route4' \in [Regions -> [Regions -> NextHops]]
        BY <2>6, <3>1, <3>2 DEF RerouteA, ReplaceRoute, TypeOK
      <3>4. /\ op' \in [Clients -> Call]
            /\ \A e \in Clients :
                 /\ op'[e].kind = op[e].kind /\ op'[e].a = op[e].a
                 /\ op'[e].b = op[e].b /\ op'[e].m = op[e].m
        BY <3>1, StepFacts
      <3> QED
        BY <2>6, <3>3, <3>4 DEF RerouteA, TypeOK
    <2>7. ASSUME NEW c \in Clients, RerouteB(c) PROVE TypeOK'
      <3>1. /\ op[c] \in Call /\ op[c].a \in Regions /\ op[c].b \in Regions
            /\ Step(c, "mark")
        BY <2>7 DEF RerouteB, IsReroute, TypeOK
      <3>2. Gateway(op[c], op[c].a) \in NextHops
        BY <3>1 DEF Gateway, Call, NextHops
      <3>3. route4' \in [Regions -> [Regions -> NextHops]]
        BY <2>7, <3>1, <3>2 DEF RerouteB, ReplaceRoute, TypeOK
      <3>4. /\ op' \in [Clients -> Call]
            /\ \A e \in Clients :
                 /\ op'[e].kind = op[e].kind /\ op'[e].a = op[e].a
                 /\ op'[e].b = op[e].b /\ op'[e].m = op[e].m
        BY <3>1, StepFacts
      <3> QED
        BY <2>7, <3>3, <3>4 DEF RerouteB, TypeOK
    <2>8. ASSUME NEW c \in Clients, RerouteFails(c) PROVE TypeOK'
      <3>1. Return(c)
        BY <2>8 DEF RerouteFails
      <3> QED
        BY <2>8, <3>1, ReturnFacts DEF RerouteFails, TypeOK
    <2>9. ASSUME NEW c \in Clients, MarkLink(c) PROVE TypeOK'
      <3>1. Return(c) /\ op[c].a \in Regions /\ op[c].b \in Regions
        BY <2>9 DEF MarkLink, IsReroute, TypeOK
      <3> QED
        BY <2>9, <3>1, ReturnFacts DEF MarkLink, TypeOK, Status
    <2>10. ASSUME NEW c \in Clients, Drop(c) PROVE TypeOK'
      <3>1. Return(c)
        BY <2>10 DEF Drop
      <3> QED
        BY <2>10, <3>1, ReturnFacts DEF Drop, TypeOK
    <2>11. CASE UNCHANGED vars
      BY <2>11 DEF vars, TypeOK
    <2> QED
      BY <2>1, <2>2, <2>3, <2>4, <2>5, <2>6, <2>7, <2>8, <2>9, <2>10, <2>11 DEF Next
  <1> QED
    BY <1>1, <1>2, PTL DEF Spec

----------------------------------------------------------------------------
(* The numbering of the breaks is kept by every step, disturbed or not.    *)
LEMMA SinceStep ==
    ASSUME TypeOK, SinceInv, [Next]_vars
    PROVE  SinceInv'
  <1>1. ASSUME NEW c \in Clients, NEW a \in Regions, NEW b \in Regions,
               BreakPrepare(c, a, b)
        PROVE  SinceInv'
    BY <1>1, KeyInPairs, RegionsAssumption DEF BreakPrepare, SinceInv, TypeOK
  <1>2. CASE UNCHANGED <<since, breaks>>
    BY <1>2 DEF SinceInv
  <1> QED
    BY <1>1, <1>2 DEF Next, vars, LinkPrepare, RestorePrepare, LinkSideA, LinkSideB,
       RerouteA, RerouteB, RerouteFails, MarkLink, Drop

(* The lab never forgets that it was disturbed. *)
LEMMA DisturbedStep ==
    ASSUME disturbed, [Next]_vars
    PROVE  disturbed'
  BY ZenonT(30) DEF Next, vars, LinkPrepare, BreakPrepare, RestorePrepare, NoteOverlap, LinkSideA,
     LinkSideB, RerouteA, RerouteB, RerouteFails, MarkLink, Drop

(* A route that is added only where there was none leaves every reroute    *)
(* and every call relying on one as it was.                                *)
LEMMA AddRouteKeeps ==
    ASSUME TypeOK, SerialInv, NEW x \in Regions, NEW y \in Regions, x # y,
           route4' = AddRoute(route4, x, y), UNCHANGED <<link, since, breaks>>,
           \A e \in Clients : (IsReroute(op[e]) \/ IsReroute(op'[e])) => op'[e] = op[e]
    PROVE  SerialInv'
  <1>1. \A n, d \in Regions :
          route4'[n][d] = IF n = x /\ d = y /\ route4[n][d] = Ix THEN d ELSE route4[n][d]
    BY DEF TypeOK, AddRoute
  <1>2. \A n, d \in Regions : Busy(n, d)' <=> Busy(n, d)
    BY DEF Busy, IsReroute
  <1>3. Serial'
    BY DEF SerialInv, Serial, IsReroute
  <1>4. CallInv'
    <2> SUFFICES ASSUME NEW e \in Clients
                 PROVE  /\ op'[e].kind = "break" => BreakInv(op[e])'
                        /\ op'[e].kind = "restore" => RestoreInv(op[e])'
      BY DEF CallInv, IsReroute
    <2>1. IsReroute(op'[e]) => /\ op'[e] = op[e]
                              /\ op[e].a \in Regions /\ op[e].b \in Regions
      BY DEF TypeOK, IsReroute
    <2>2. ASSUME op'[e].kind = "break" PROVE BreakInv(op[e])'
      <3>1. /\ op'[e] = op[e] /\ BreakInv(op[e]) /\ op[e].m \in Regions
            /\ op[e].a \in Regions /\ op[e].b \in Regions
        BY <2>1, <2>2 DEF SerialInv, CallInv, IsReroute, TypeOK
      <3>2. /\ route4'[op[e].a][op[e].b] = route4[op[e].a][op[e].b]
               \/ (route4[op[e].a][op[e].b] = Ix /\ route4'[op[e].a][op[e].b] = op[e].b)
            /\ route4'[op[e].b][op[e].a] = route4[op[e].b][op[e].a]
               \/ (route4[op[e].b][op[e].a] = Ix /\ route4'[op[e].b][op[e].a] = op[e].a)
        BY <1>1, <3>1
      <3>3. op[e].m # Ix
        BY <3>1, RegionsAssumption
      <3> QED
        BY <3>1, <3>2, <3>3 DEF BreakInv
    <2>3. ASSUME op'[e].kind = "restore" PROVE RestoreInv(op[e])'
      <3>1. /\ op'[e] = op[e] /\ RestoreInv(op[e])
            /\ op[e].a \in Regions /\ op[e].b \in Regions
        BY <2>1, <2>3 DEF SerialInv, CallInv, IsReroute
      <3>2. /\ route4[op[e].a][op[e].b] # Ix =>
                  route4'[op[e].a][op[e].b] = route4[op[e].a][op[e].b]
            /\ route4[op[e].b][op[e].a] # Ix =>
                  route4'[op[e].b][op[e].a] = route4[op[e].b][op[e].a]
        BY <1>1, <3>1
      <3>3. op[e].a # Ix /\ op[e].b # Ix
        BY <3>1, RegionsAssumption
      <3> QED
        BY <3>1, <3>2, <3>3 DEF RestoreInv
    <2> QED
      BY <2>2, <2>3
  <1>5. Direct'
    BY <1>1, <1>2 DEF SerialInv, Direct
  <1>6. Bypassed'
    BY <1>1, <1>2 DEF SerialInv, Bypassed
  <1>7. Ranked'
    BY <1>1 DEF SerialInv, Ranked, TypeOK, NextHops
  <1> QED
    BY <1>3, <1>4, <1>5, <1>6, <1>7 DEF SerialInv

(* A new record is never one that a call relies on.                        *)
LEMMA LinkPrepareKeeps ==
    ASSUME TypeOK, SerialInv, NEW c \in Clients, NEW a \in Regions, NEW b \in Regions,
           LinkPrepare(c, a, b)
    PROVE  SerialInv'
  <1>1. /\ \A e \in Clients : e # c => op'[e] = op[e]
        /\ ~IsReroute(op[c]) /\ ~IsReroute(op'[c])
    BY BeginFacts DEF LinkPrepare, NextHops, IsReroute
  <1>2. \A n, d \in Regions : Busy(n, d)' <=> Busy(n, d)
    BY <1>1 DEF Busy
  <1>3. \A p \in Pairs : \/ link'[p] = link[p]
                         \/ link[p] = "none" /\ link'[p] = "linked"
    BY KeyInPairs DEF LinkPrepare, TypeOK
  <1>4. Serial'
    BY <1>1 DEF SerialInv, Serial
  <1>5. CallInv'
    <2> SUFFICES ASSUME NEW e \in Clients, IsReroute(op'[e])
                 PROVE  /\ op'[e].kind = "break" => BreakInv(op[e])'
                        /\ op'[e].kind = "restore" => RestoreInv(op[e])'
      BY DEF CallInv, IsReroute
    <2>1. op'[e] = op[e] /\ op[e].a \in Regions /\ op[e].b \in Regions
      BY <1>1 DEF TypeOK, IsReroute
    <2>2. op[e].kind = "break" => op[e].m \in Regions
      BY DEF TypeOK
    <2>3. UNCHANGED <<route4, since, breaks>>
      BY DEF LinkPrepare
    <2>4. op[e].kind = "break" => BreakInv(op[e])'
      BY <1>3, <2>1, <2>2, <2>3, KeyInPairs DEF SerialInv, CallInv, BreakInv
    <2>5. op[e].kind = "restore" => RestoreInv(op[e])'
      BY <1>3, <2>1, <2>3, KeyInPairs DEF SerialInv, CallInv, RestoreInv
    <2> QED
      BY <2>1, <2>4, <2>5
  <1>6. Direct'
    BY <1>2, <1>3, KeyInPairs DEF SerialInv, Direct, LinkPrepare
  <1>7. Bypassed'
    BY <1>2, <1>3, KeyInPairs DEF SerialInv, Bypassed, LinkPrepare
  <1>8. Ranked'
    BY DEF SerialInv, Ranked, LinkPrepare
  <1> QED
    BY <1>4, <1>5, <1>6, <1>7, <1>8 DEF SerialInv

(* A break that is not disturbed starts alone, from a pair whose two ends  *)
(* use it directly, and takes the highest number.                          *)
LEMMA BreakPrepareKeeps ==
    ASSUME TypeOK, SinceInv, SerialInv, ~disturbed',
           NEW c \in Clients, NEW a \in Regions, NEW b \in Regions,
           BreakPrepare(c, a, b)
    PROVE  SerialInv'
  <1>1. /\ \A e \in Clients : ~IsReroute(op[e])
        /\ link[LinkKey(a, b)] = "linked" /\ a # b
        /\ UNCHANGED <<link, route4>>
    BY DEF BreakPrepare, NoteOverlap, RerouteInFlight
  <1>2. PICK m \in Intermediates(a, b) : op' = [op EXCEPT ![c] = Begin("break", a, b, m)]
    BY DEF BreakPrepare
  <1>3. /\ m \in Regions \ {a, b}
        /\ link[LinkKey(m, a)] = "linked" /\ link[LinkKey(m, b)] = "linked"
    BY DEF Intermediates
  <1>4. /\ op' \in [Clients -> Call]
        /\ op'[c].kind = "break" /\ op'[c].step = "a" /\ op'[c].a = a
        /\ op'[c].b = b /\ op'[c].m = m
        /\ \A e \in Clients : e # c => op'[e] = op[e]
    BY <1>2, <1>3, BeginFacts DEF NextHops
  <1>5. /\ breaks' = breaks + 1 /\ breaks \in Nat
        /\ since'[LinkKey(a, b)] = breaks + 1
        /\ \A p \in Pairs : p # LinkKey(a, b) => since'[p] = since[p]
        /\ \A p \in Pairs : since[p] \in Nat /\ since[p] <= breaks
    BY KeyInPairs, RegionsAssumption DEF BreakPrepare, TypeOK, SinceInv
  <1>6. /\ \A n, d \in Regions : ~Busy(n, d)
        /\ \A n, d \in Regions : Busy(n, d)' <=> LinkKey(n, d) = LinkKey(a, b)
    BY <1>1, <1>4 DEF Busy, IsReroute
  <1>7. Serial'
    BY <1>1, <1>4 DEF Serial
  <1>8. route4[a][b] \in {b, Ix} /\ route4[b][a] \in {a, Ix}
    <2>1. link[LinkKey(b, a)] = "linked"
      BY <1>1, KeyEq
    <2> QED
      BY <1>1, <1>6, <2>1 DEF SerialInv, Direct
  <1>9. CallInv'
    <2>1. \A e \in Clients : e # c => op'[e].kind \notin {"break", "restore"}
      BY <1>1, <1>4 DEF IsReroute
    <2>2. BreakInv(op[c])'
      BY <1>1, <1>3, <1>4, <1>5, <1>8 DEF BreakInv
    <2> QED
      BY <1>4, <2>1, <2>2 DEF CallInv
  <1>10. Direct'
    BY <1>1, <1>6 DEF SerialInv, Direct
  <1>11. Bypassed'
    BY <1>1, <1>6 DEF SerialInv, Bypassed
  <1>12. Ranked'
    <2> SUFFICES ASSUME NEW n \in Regions, NEW d \in Regions, n # d,
                        route4[n][d] \notin {d, Ix}
                 PROVE  /\ route4[n][d] # n
                        /\ \/ route4[route4[n][d]][d] \in {d, Ix}
                           \/ since'[LinkKey(route4[n][d], d)] > since'[LinkKey(n, d)]
      BY <1>1 DEF Ranked
    <2>1. route4[n][d] \in Regions
      BY DEF TypeOK, NextHops
    <2>2. LinkKey(n, d) # LinkKey(a, b)
      BY <1>8, KeyEq
    <2>3. /\ LinkKey(n, d) \in Pairs /\ LinkKey(route4[n][d], d) \in Pairs
      BY <2>1, KeyInPairs
    <2>4. since'[LinkKey(n, d)] = since[LinkKey(n, d)]
      BY <1>5, <2>2, <2>3
    <2>5. since'[LinkKey(route4[n][d], d)] >= since[LinkKey(route4[n][d], d)]
      BY <1>5, <2>3
    <2>6. \/ since'[LinkKey(route4[n][d], d)] \in Nat
      BY <1>5, <2>3
    <2>7. since[LinkKey(n, d)] \in Nat /\ since[LinkKey(route4[n][d], d)] \in Nat
      BY <1>5, <2>3
    <2> QED
      BY <2>4, <2>5, <2>6, <2>7 DEF SerialInv, Ranked
  <1> QED
    BY <1>7, <1>9, <1>10, <1>11, <1>12 DEF SerialInv

(* A restore that is not disturbed starts alone, from a pair whose two     *)
(* ends are rerouted through the same region.                              *)
LEMMA RestorePrepareKeeps ==
    ASSUME TypeOK, SerialInv, ~disturbed',
           NEW c \in Clients, NEW a \in Regions, NEW b \in Regions,
           RestorePrepare(c, a, b)
    PROVE  SerialInv'
  <1>1. /\ \A e \in Clients : ~IsReroute(op[e])
        /\ link[LinkKey(a, b)] = "broken" /\ a # b
        /\ UNCHANGED <<link, route4, since>>
    BY DEF RestorePrepare, NoteOverlap, RerouteInFlight
  <1>2. /\ op' \in [Clients -> Call]
        /\ op'[c].kind = "restore" /\ op'[c].step = "a" /\ op'[c].a = a
        /\ op'[c].b = b /\ op'[c].m = Ix
        /\ \A e \in Clients : e # c => op'[e] = op[e]
    BY BeginFacts DEF RestorePrepare, NextHops
  <1>3. /\ \A n, d \in Regions : ~Busy(n, d)
        /\ \A n, d \in Regions : Busy(n, d)' <=> LinkKey(n, d) = LinkKey(a, b)
    BY <1>1, <1>2 DEF Busy, IsReroute
  <1>4. Serial'
    BY <1>1, <1>2 DEF Serial
  <1>5. CallInv'
    <2>1. \A e \in Clients : e # c => op'[e].kind \notin {"break", "restore"}
      BY <1>1, <1>2 DEF IsReroute
    <2>2. RestoreInv(op[c])'
      BY <1>1, <1>2, <1>3 DEF SerialInv, Bypassed, RestoreInv
    <2> QED
      BY <1>2, <2>1, <2>2 DEF CallInv
  <1>6. Direct'
    BY <1>1, <1>3 DEF SerialInv, Direct
  <1>7. Bypassed'
    BY <1>1, <1>3 DEF SerialInv, Bypassed
  <1>8. Ranked'
    BY <1>1 DEF SerialInv, Ranked
  <1> QED
    BY <1>4, <1>5, <1>6, <1>7, <1>8 DEF SerialInv

(* The one call that reroutes replaces a route of its own pair: a break    *)
(* sends it to an intermediate that is direct, a restore makes it direct,  *)
(* and whoever forwards through this end was broken earlier.               *)
LEMMA ReplaceKeeps ==
    ASSUME TypeOK, SinceInv, SerialInv, NEW c \in Clients, IsReroute(op[c]),
           NEW x \in Regions, NEW y \in Regions,
           LinkKey(x, y) = LinkKey(op[c].a, op[c].b),
           ReplaceRoute(op[c], x, y), UNCHANGED <<link, since>>,
           op' \in [Clients -> Call],
           \A e \in Clients : /\ op'[e].kind = op[e].kind /\ op'[e].a = op[e].a
                              /\ op'[e].b = op[e].b
    PROVE  Serial' /\ Direct' /\ Bypassed' /\ Ranked'
  <1> DEFINE g == Gateway(op[c], y)
  <1>1. \A n, d \in Regions :
          route4'[n][d] = IF n = x /\ d = y THEN g ELSE route4[n][d]
    BY DEF ReplaceRoute, TypeOK
  <1>2. /\ \A n, d \in Regions : Busy(n, d)' <=> Busy(n, d)
        /\ \A n, d \in Regions : Busy(n, d) <=> LinkKey(n, d) = LinkKey(x, y)
    BY DEF Busy, IsReroute, SerialInv, Serial
  <1>3. x # y
    BY KeyEq DEF IsReroute, TypeOK
  <1>4. Busy(x, y) /\ Busy(y, x)
    BY <1>2, KeyEq
  <1>5. Serial'
    BY DEF SerialInv, Serial, IsReroute
  <1>6. Direct'
    BY <1>1, <1>2, <1>4 DEF SerialInv, Direct
  <1>7. Bypassed'
    BY <1>1, <1>2, <1>4 DEF SerialInv, Bypassed
  <1>8. g = y \/ (g \in Regions \ {x, y} /\ route4[g][y] \in {y, Ix})
    <2>1. CASE op[c].kind = "restore"
      BY <2>1 DEF Gateway
    <2>2. CASE op[c].kind = "break"
      <3>1. /\ g = op[c].m /\ op[c].m \in Regions \ {op[c].a, op[c].b}
            /\ BreakInv(op[c])
        BY <2>2 DEF Gateway, TypeOK, SerialInv, CallInv
      <3>2. (x = op[c].a /\ y = op[c].b) \/ (x = op[c].b /\ y = op[c].a)
        BY KeyEq
      <3>3. g \in Regions \ {x, y} /\ link[LinkKey(g, y)] = "linked"
        BY <3>1, <3>2 DEF BreakInv
      <3>4. ~Busy(g, y)
        BY <1>2, <3>3, KeyEq
      <3> QED
        BY <3>3, <3>4 DEF SerialInv, Direct
    <2> QED
      BY <2>1, <2>2 DEF IsReroute
  <1>9. op[c].kind = "break" => since[LinkKey(x, y)] = breaks
    BY DEF SerialInv, CallInv, BreakInv
  <1>10. Ranked'
    <2> SUFFICES ASSUME NEW n \in Regions, NEW d \in Regions, n # d,
                        route4'[n][d] \notin {d, Ix}
                 PROVE  /\ route4'[n][d] # n
                        /\ \/ route4'[route4'[n][d]][d] \in {d, Ix}
                           \/ since[LinkKey(route4'[n][d], d)] > since[LinkKey(n, d)]
      BY DEF Ranked
    <2>1. CASE n = x /\ d = y
      <3>1. g \in Regions \ {x, y} /\ route4[g][y] \in {y, Ix} /\ route4'[n][d] = g
        BY <1>1, <1>8, <2>1
      <3>2. route4'[g][d] = route4[g][d]
        BY <1>1, <3>1
      <3> QED
        BY <2>1, <3>1, <3>2
    <2>2. CASE ~(n = x /\ d = y)
      <3>1. route4'[n][d] = route4[n][d] /\ route4[n][d] \in Regions
        BY <1>1, <2>2 DEF TypeOK, NextHops
      <3>2. /\ route4[n][d] # n
            /\ \/ route4[route4[n][d]][d] \in {d, Ix}
               \/ since[LinkKey(route4[n][d], d)] > since[LinkKey(n, d)]
        BY <3>1 DEF SerialInv, Ranked
      <3>3. CASE ~(route4[n][d] = x /\ d = y)
        <4>1. route4'[route4[n][d]][d] = route4[route4[n][d]][d]
          BY <1>1, <3>1, <3>3
        <4> QED
          BY <3>1, <3>2, <4>1
      <3>4. CASE route4[n][d] = x /\ d = y /\ op[c].kind = "restore"
        BY <1>1, <3>1, <3>2, <3>4 DEF Gateway
      <3>5. CASE route4[n][d] = x /\ d = y /\ op[c].kind = "break"
        <4>1. BreakInv(op[c]) /\ since[LinkKey(x, y)] = breaks /\ breaks # 0
          BY <1>9, <3>5 DEF SerialInv, CallInv, BreakInv
        <4>2. LinkKey(n, y) # LinkKey(x, y)
          BY <3>2, <3>5, KeyEq
        <4>3. LinkKey(n, y) \in Pairs /\ LinkKey(x, y) \in Pairs
          BY KeyInPairs
        <4>4. since[LinkKey(n, y)] \in Nat /\ since[LinkKey(x, y)] \in Nat
          BY <4>3, RegionsAssumption DEF TypeOK
        <4>5. since[LinkKey(n, y)] < since[LinkKey(x, y)]
          BY <4>1, <4>2, <4>3, <4>4 DEF SinceInv
        <4> QED
          BY <3>1, <3>2, <3>5, <4>5, <4>4
      <3> QED
        BY <3>3, <3>4, <3>5 DEF IsReroute
    <2> QED
      BY <2>1, <2>2
  <1> QED
    BY <1>5, <1>6, <1>7, <1>10

LEMMA RerouteAKeeps ==
    ASSUME TypeOK, SinceInv, SerialInv, NEW c \in Clients, RerouteA(c)
    PROVE  SerialInv'
  <1>1. /\ IsReroute(op[c]) /\ op[c].step = "a" /\ Step(c, "b")
        /\ op[c].a \in Regions /\ op[c].b \in Regions /\ op[c].a # op[c].b
        /\ ReplaceRoute(op[c], op[c].a, op[c].b)
        /\ UNCHANGED <<link, since, breaks>>
    BY DEF RerouteA, IsReroute, TypeOK
  <1>2. /\ op' \in [Clients -> Call]
        /\ \A e \in Clients :
             /\ op'[e].kind = op[e].kind /\ op'[e].a = op[e].a
             /\ op'[e].b = op[e].b /\ op'[e].m = op[e].m
             /\ e # c => op'[e] = op[e]
        /\ op'[c].step = "b"
    BY <1>1, StepFacts
  <1>3. Serial' /\ Direct' /\ Bypassed' /\ Ranked'
    BY <1>1, <1>2, ReplaceKeeps
  <1>4. \A e \in Clients : e # c => op'[e].kind \notin {"break", "restore"}
    BY <1>1, <1>2 DEF SerialInv, Serial, IsReroute
  <1>5. /\ route4'[op[c].a][op[c].b] = Gateway(op[c], op[c].b)
        /\ route4'[op[c].b][op[c].a] = route4[op[c].b][op[c].a]
    BY <1>1 DEF ReplaceRoute, TypeOK
  <1>6. op[c].kind = "break" => BreakInv(op[c])'
    BY SMTT(30), <1>1, <1>2, <1>5 DEF SerialInv, CallInv, BreakInv, Gateway
  <1>7. op[c].kind = "restore" => RestoreInv(op[c])'
    BY <1>1, <1>2, <1>5 DEF SerialInv, CallInv, RestoreInv, Gateway
  <1>8. CallInv'
    BY <1>2, <1>4, <1>6, <1>7 DEF CallInv
  <1> QED
    BY <1>3, <1>8 DEF SerialInv

LEMMA RerouteBKeeps ==
    ASSUME TypeOK, SinceInv, SerialInv, NEW c \in Clients, RerouteB(c)
    PROVE  SerialInv'
  <1>1. /\ IsReroute(op[c]) /\ op[c].step = "b" /\ Step(c, "mark")
        /\ op[c].a \in Regions /\ op[c].b \in Regions /\ op[c].a # op[c].b
        /\ ReplaceRoute(op[c], op[c].b, op[c].a)
        /\ LinkKey(op[c].b, op[c].a) = LinkKey(op[c].a, op[c].b)
        /\ UNCHANGED <<link, since, breaks>>
    BY KeyEq DEF RerouteB, IsReroute, TypeOK
  <1>2. /\ op' \in [Clients -> Call]
        /\ \A e \in Clients :
             /\ op'[e].kind = op[e].kind /\ op'[e].a = op[e].a
             /\ op'[e].b = op[e].b /\ op'[e].m = op[e].m
             /\ e # c => op'[e] = op[e]
        /\ op'[c].step = "mark"
    BY <1>1, StepFacts
  <1>3. Serial' /\ Direct' /\ Bypassed' /\ Ranked'
    BY <1>1, <1>2, ReplaceKeeps
  <1>4. \A e \in Clients : e # c => op'[e].kind \notin {"break", "restore"}
    BY <1>1, <1>2 DEF SerialInv, Serial, IsReroute
  <1>5. /\ route4'[op[c].b][op[c].a] = Gateway(op[c], op[c].a)
        /\ route4'[op[c].a][op[c].b] = route4[op[c].a][op[c].b]
    BY <1>1 DEF ReplaceRoute, TypeOK
  <1>6. op[c].kind = "break" => BreakInv(op[c])'
    BY SMTT(30), <1>1, <1>2, <1>5 DEF SerialInv, CallInv, BreakInv, Gateway
  <1>7. op[c].kind = "restore" => RestoreInv(op[c])'
    BY SMTT(30), <1>1, <1>2, <1>5 DEF SerialInv, CallInv, RestoreInv, Gateway
  <1>8. CallInv'
    BY <1>2, <1>4, <1>6, <1>7 DEF CallInv
  <1> QED
    BY <1>3, <1>8 DEF SerialInv

(* A call that ends after its first await, and one that has replaced both  *)
(* routes and flips the record, leave the pair as the record says.         *)
LEMMA EndKeeps ==
    ASSUME TypeOK, SerialInv, ~disturbed', NEW c \in Clients,
           RerouteFails(c) \/ MarkLink(c)
    PROVE  SerialInv'
  <1> DEFINE a == op[c].a
             b == op[c].b
  <1>1. /\ IsReroute(op[c]) /\ Return(c) /\ UNCHANGED <<route4, since, breaks>>
        /\ a \in Regions /\ b \in Regions /\ a # b
        /\ op[c].kind = "break" => op[c].m \in Regions \ {a, b}
    BY DEF RerouteFails, MarkLink, IsReroute, TypeOK
  <1>2. /\ op' \in [Clients -> Call]
        /\ op'[c].kind = "idle"
        /\ \A e \in Clients : e # c => op'[e] = op[e]
    BY <1>1, ReturnFacts
  <1>3. \A e \in Clients : ~IsReroute(op'[e])
    BY <1>1, <1>2 DEF SerialInv, Serial, IsReroute
  <1>4. /\ \A n, d \in Regions : ~Busy(n, d)'
        /\ \A n, d \in Regions : Busy(n, d) <=> LinkKey(n, d) = LinkKey(a, b)
    BY <1>1, <1>3 DEF Busy, SerialInv, Serial
  <1>5. Serial' /\ CallInv'
    BY <1>3 DEF Serial, CallInv, IsReroute
  <1>6. \A n, d \in Regions : LinkKey(n, d) # LinkKey(a, b) =>
          link'[LinkKey(n, d)] = link[LinkKey(n, d)]
    BY KeyInPairs DEF RerouteFails, MarkLink, TypeOK
  <1>7. \/ /\ link'[LinkKey(a, b)] # "broken"
           /\ route4[a][b] \in {b, Ix} /\ route4[b][a] \in {a, Ix}
        \/ /\ link'[LinkKey(a, b)] = "broken"
           /\ route4[a][b] = route4[b][a] /\ route4[a][b] \notin {a, b, Ix}
    <2>1. CASE RerouteFails(c)
      <3>1. op[c].step = "a" /\ link' = link
        BY <2>1 DEF RerouteFails
      <3> QED
        BY <1>1, <3>1 DEF SerialInv, CallInv, BreakInv, RestoreInv, IsReroute
    <2>2. CASE MarkLink(c)
      <3>1. /\ op[c].step = "mark"
            /\ link'[LinkKey(a, b)] = IF op[c].kind = "break" THEN "broken" ELSE "linked"
        BY <1>1, <2>2, KeyInPairs DEF MarkLink, TypeOK
      <3> QED
        BY <1>1, <3>1, RegionsAssumption
           DEF SerialInv, CallInv, BreakInv, RestoreInv, IsReroute
    <2> QED
      BY <2>1, <2>2
  <1>8. Direct'
    <2> SUFFICES ASSUME NEW n \in Regions, NEW d \in Regions, n # d,
                        link'[LinkKey(n, d)] # "broken"
                 PROVE  route4[n][d] \in {d, Ix}
      BY <1>1 DEF Direct
    <2>1. CASE LinkKey(n, d) = LinkKey(a, b)
      BY <1>7, <2>1, KeyEq
    <2>2. CASE LinkKey(n, d) # LinkKey(a, b)
      BY <1>4, <1>6, <2>2 DEF SerialInv, Direct
    <2> QED
      BY <2>1, <2>2
  <1>9. Bypassed'
    <2> SUFFICES ASSUME NEW n \in Regions, NEW d \in Regions, n # d,
                        link'[LinkKey(n, d)] = "broken"
                 PROVE  route4[n][d] = route4[d][n] /\ route4[n][d] \notin {n, d, Ix}
      BY <1>1 DEF Bypassed
    <2>1. CASE LinkKey(n, d) = LinkKey(a, b)
      BY <1>7, <2>1, KeyEq
    <2>2. CASE LinkKey(n, d) # LinkKey(a, b)
      BY <1>4, <1>6, <2>2 DEF SerialInv, Bypassed
    <2> QED
      BY <2>1, <2>2
  <1>10. Ranked'
    BY <1>1 DEF SerialInv, Ranked
  <1> QED
    BY <1>5, <1>8, <1>9, <1>10 DEF SerialInv

----------------------------------------------------------------------------
(* IInv is inductive. *)

LEMMA SerialStep ==
    ASSUME TypeOK, SinceInv, SerialInv, ~disturbed', [Next]_vars
    PROVE  SerialInv'
  <1>1. ASSUME NEW c \in Clients, NEW a \in Regions, NEW b \in Regions,
               LinkPrepare(c, a, b)
        PROVE  SerialInv'
    BY <1>1, LinkPrepareKeeps
  <1>2. ASSUME NEW c \in Clients, NEW a \in Regions, NEW b \in Regions,
               BreakPrepare(c, a, b)
        PROVE  SerialInv'
    BY <1>2, BreakPrepareKeeps
  <1>3. ASSUME NEW c \in Clients, NEW a \in Regions, NEW b \in Regions,
               RestorePrepare(c, a, b)
        PROVE  SerialInv'
    BY <1>3, RestorePrepareKeeps
  <1>4. ASSUME NEW c \in Clients, LinkSideA(c) PROVE SerialInv'
    <2>1. /\ op[c].kind = "link" /\ Step(c, "b")
          /\ op[c].a \in Regions /\ op[c].b \in Regions /\ op[c].a # op[c].b
          /\ route4' = AddRoute(route4, op[c].a, op[c].b)
          /\ UNCHANGED <<link, since, breaks>>
      BY <1>4 DEF LinkSideA, ConfigureSide, TypeOK
    <2>2. \A e \in Clients : /\ op'[e].kind = op[e].kind
                             /\ e # c => op'[e] = op[e]
      BY <2>1, StepFacts
    <2>3. \A e \in Clients : (IsReroute(op[e]) \/ IsReroute(op'[e])) => op'[e] = op[e]
      BY <2>1, <2>2 DEF IsReroute
    <2> QED
      BY <2>1, <2>3, AddRouteKeeps
  <1>5. ASSUME NEW c \in Clients, LinkSideB(c) PROVE SerialInv'
    <2>1. /\ op[c].kind = "link" /\ Return(c)
          /\ op[c].a \in Regions /\ op[c].b \in Regions /\ op[c].a # op[c].b
          /\ route4' = AddRoute(route4, op[c].b, op[c].a)
          /\ UNCHANGED <<link, since, breaks>>
      BY <1>5 DEF LinkSideB, ConfigureSide, TypeOK
    <2>2. /\ op' \in [Clients -> Call]
          /\ op'[c].kind = "idle"
          /\ \A e \in Clients : e # c => op'[e] = op[e]
      BY <2>1, ReturnFacts
    <2>3. \A e \in Clients : (IsReroute(op[e]) \/ IsReroute(op'[e])) => op'[e] = op[e]
      BY <2>1, <2>2 DEF IsReroute
    <2> QED
      BY <2>1, <2>3, AddRouteKeeps
  <1>6. ASSUME NEW c \in Clients, RerouteA(c) PROVE SerialInv'
    BY <1>6, RerouteAKeeps
  <1>7. ASSUME NEW c \in Clients, RerouteB(c) PROVE SerialInv'
    BY <1>7, RerouteBKeeps
  <1>8. ASSUME NEW c \in Clients, RerouteFails(c) \/ MarkLink(c) PROVE SerialInv'
    BY <1>8, EndKeeps
  <1>9. ASSUME NEW c \in Clients, Drop(c) PROVE SerialInv'
    BY <1>9 DEF Drop
  <1>10. CASE UNCHANGED vars
    BY <1>10 DEF vars, SerialInv, Serial, CallInv, BreakInv, RestoreInv, Direct,
       Bypassed, Ranked, Busy
  <1> QED
    BY <1>1, <1>2, <1>3, <1>4, <1>5, <1>6, <1>7, <1>8, <1>9, <1>10 DEF Next

LEMMA InitIInv == Init => IInv
  <1> SUFFICES ASSUME Init PROVE IInv
    OBVIOUS
  <1>1. TypeOK
    <2>1. Idle \in Call
      BY DEF Idle, Call, NextHops
    <2>2. op \in [Clients -> Call] /\ \A c \in Clients : op[c].kind = "idle"
      BY <2>1 DEF Init, Idle
    <2>3. 0 \in 0..MaxBreaks
      BY RegionsAssumption
    <2> QED
      BY <2>2, <2>3 DEF Init, TypeOK, Status, NextHops
  <1>2. SinceInv
    BY DEF Init, SinceInv
  <1>3. \A c \in Clients : op[c].kind = "idle"
    BY DEF Init, Idle
  <1>4. Serial /\ CallInv
    BY <1>3 DEF Serial, CallInv, IsReroute
  <1>5. Direct /\ Bypassed /\ Ranked
    BY KeyInPairs DEF Init, Direct, Bypassed, Ranked
  <1> QED
    BY <1>1, <1>2, <1>4, <1>5 DEF IInv, SerialInv

(* The strengthening holds of every reachable state, whatever the number   *)
(* of regions, clients and breaks.                                         *)
THEOREM InductiveInvariant == Spec => []IInv
  <1>1. IInv /\ TypeOK' /\ [Next]_vars => IInv'
    <2> SUFFICES ASSUME IInv, TypeOK', [Next]_vars PROVE IInv'
      OBVIOUS
    <2>1. SinceInv'
      BY SinceStep DEF IInv
    <2>2. disturbed' \/ SerialInv'
      BY SerialStep, DisturbedStep DEF IInv
    <2> QED
      BY <2>1, <2>2 DEF IInv
  <1> QED
    BY <1>1, InitIInv, TypeInvariant, PTL DEF Spec

----------------------------------------------------------------------------
(* What follows from it. *)

LEMMA LeastElement ==
    ASSUME NEW T, T \subseteq Nat, T # {}
    PROVE  \E x \in T : \A y \in T : ~(y < x)
  <1>1. \E x \in T : \A y \in T : ~(<<y, x>> \in OpToRel(<, Nat))
    BY NatLessThanWellFounded, WFMin
  <1> QED
    BY <1>1 DEF OpToRel

(* Where every hop of a rerouted packet leads to a later break, no set of  *)
(* regions can keep a packet: its latest broken member would have to       *)
(* forward to one broken later still.                                      *)
LEMMA RankedLoopFree ==
    ASSUME TypeOK, SinceInv, Ranked
    PROVE  LoopFree
  <1> SUFFICES ASSUME NEW d \in Regions, NEW S \in SUBSET (Regions \ {d}), LoopTowards(d, S)
               PROVE  FALSE
    BY DEF LoopFree
  <1> DEFINE Age(n) == breaks - since[LinkKey(n, d)]
  <1>1. \A n \in S : Age(n) \in Nat
    BY KeyInPairs, RegionsAssumption DEF TypeOK, SinceInv
  <1>2. \A n \in S : /\ route4[n][d] \in S
                     /\ since[LinkKey(route4[n][d], d)] > since[LinkKey(n, d)]
    <2> SUFFICES ASSUME NEW n \in S
                 PROVE  /\ route4[n][d] \in S
                        /\ since[LinkKey(route4[n][d], d)] > since[LinkKey(n, d)]
      OBVIOUS
    <2>1. route4[n][d] \in S /\ route4[route4[n][d]][d] \in S
      BY DEF LoopTowards
    <2>2. \A s \in S : s \in Regions /\ s \notin {d, Ix}
      BY RegionsAssumption
    <2> QED
      BY <2>1, <2>2 DEF Ranked
  <1>3. \A n \in S : Age(route4[n][d]) < Age(n)
    <2> SUFFICES ASSUME NEW n \in S PROVE Age(route4[n][d]) < Age(n)
      OBVIOUS
    <2>1. LinkKey(n, d) \in Pairs /\ LinkKey(route4[n][d], d) \in Pairs
      BY <1>2, KeyInPairs
    <2>2. since[LinkKey(n, d)] \in Nat /\ since[LinkKey(route4[n][d], d)] \in Nat /\ breaks \in Nat
      BY <2>1, RegionsAssumption DEF TypeOK
    <2> QED
      BY <1>2, <2>2
  <1> DEFINE T == {Age(n) : n \in S}
  <1>4. T \subseteq Nat /\ T # {}
    BY <1>1 DEF LoopTowards
  <1>5. \E x \in T : \A y \in T : ~(y < x)
    BY <1>4, LeastElement
  <1> HIDE DEF Age
  <1> QED
    BY <1>2, <1>3, <1>5

(* No packet between regions can circulate, as long as breaks and restores *)
(* do not overlap and none is abandoned half way.                          *)
THEOREM LoopFreedom == Spec => []SerialLoopFree
  <1>1. IInv => SerialLoopFree
    BY RankedLoopFree DEF IInv, SerialInv, SerialLoopFree
  <1> QED
    BY <1>1, InductiveInvariant, PTL

(* Between calls, the record of a link and the routes of its ends agree.   *)
THEOREM RecordsAgree == Spec => []RecordMatchesRoutes
  <1>1. IInv => RecordMatchesRoutes
    <2> SUFFICES ASSUME IInv, ~disturbed, ~RerouteInFlight,
                        NEW a \in Regions, NEW b \in Regions, a # b
                 PROVE  /\ link[LinkKey(a, b)] = "broken" =>
                             /\ route4[a][b] = route4[b][a]
                             /\ route4[a][b] \notin {a, b, Ix}
                        /\ link[LinkKey(a, b)] = "linked" => route4[a][b] \in {b, Ix}
      BY DEF RecordMatchesRoutes
    <2>1. ~Busy(a, b)
      BY DEF Busy, RerouteInFlight
    <2> QED
      BY <2>1 DEF IInv, SerialInv, Direct, Bypassed
  <1> QED
    BY <1>1, InductiveInvariant, PTL

(* When a break takes effect, the intermediate forwards directly: its own  *)
(* link is intact and no other call is changing it.                        *)
THEOREM TwoHopsAtBreak == Spec => BreakGivesTwoHops
  <1> DEFINE Taken == \A a, b \in Regions :
          (~disturbed /\ link[LinkKey(a, b)] # "broken" /\ link'[LinkKey(a, b)] = "broken")
              => route4'[route4'[a][b]][b] \in {b, Ix}
  <1>1. IInv /\ [Next]_vars => [Taken]_vars
    <2> SUFFICES ASSUME IInv, [Next]_vars, ~disturbed, NEW a \in Regions, NEW b \in Regions,
                        link[LinkKey(a, b)] # "broken", link'[LinkKey(a, b)] = "broken"
                 PROVE  route4'[route4'[a][b]][b] \in {b, Ix}
      OBVIOUS
    <2>1. PICK c \in Clients : MarkLink(c)
      <3>1. ASSUME NEW c \in Clients, NEW x \in Regions, NEW y \in Regions,
                   LinkPrepare(c, x, y)
            PROVE  FALSE
        BY <3>1, KeyInPairs DEF LinkPrepare, IInv, TypeOK
      <3>2. link' # link
        OBVIOUS
      <3> QED
        BY <3>1, <3>2 DEF Next, vars, BreakPrepare, RestorePrepare, LinkSideA, LinkSideB,
           RerouteA, RerouteB, RerouteFails, Drop
    <2>2. /\ IsReroute(op[c]) /\ op[c].step = "mark"
          /\ op[c].a \in Regions /\ op[c].b \in Regions
          /\ UNCHANGED route4
          /\ link' = [link EXCEPT ![LinkKey(op[c].a, op[c].b)] =
                          IF op[c].kind = "break" THEN "broken" ELSE "linked"]
      BY <2>1 DEF MarkLink, IInv, TypeOK, IsReroute
    <2>3. op[c].kind = "break" /\ LinkKey(a, b) = LinkKey(op[c].a, op[c].b)
      BY <2>2, KeyInPairs DEF IInv, TypeOK
    <2>4. /\ op[c].m \in Regions \ {op[c].a, op[c].b} /\ BreakInv(op[c])
          /\ op[c].a # op[c].b
      BY <2>3 DEF IInv, TypeOK, SerialInv, CallInv
    <2>5. (a = op[c].a /\ b = op[c].b) \/ (a = op[c].b /\ b = op[c].a)
      BY <2>3, KeyEq
    <2>6. /\ route4[a][b] = op[c].m /\ link[LinkKey(op[c].m, b)] = "linked"
          /\ op[c].m # a /\ op[c].m # b
      BY <2>2, <2>4, <2>5 DEF BreakInv
    <2>7. ~Busy(op[c].m, b)
      <3>1. LinkKey(op[c].m, b) # LinkKey(op[c].a, op[c].b)
        BY <2>3, <2>6, KeyEq
      <3> QED
        BY <2>2, <3>1 DEF Busy, IInv, SerialInv, Serial
    <2> QED
      BY <2>2, <2>4, <2>6, <2>7 DEF IInv, SerialInv, Direct
  <1> QED
    BY <1>1, InductiveInvariant, PTL DEF Spec, BreakGivesTwoHops
============================================================================
