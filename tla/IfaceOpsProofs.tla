--------------------------- MODULE IfaceOpsProofs ---------------------------
(***************************************************************************)
(* Proofs about IfaceOps, for any interfaces, routers, clients, conditions *)
(* and number of addresses.                                                *)
(*                                                                         *)
(* The op mutex is what the proofs rest on: what an operation relies on    *)
(* between two of its awaits can be changed by nobody else but             *)
(* remove_router, which only ever takes routers and pairs away.  The first *)
(* part is about states any operations may lead to, failed and stale ones  *)
(* included; the second, that the kernel follows the record, holds until   *)
(* one fails half way or works from a stale copy, as the properties say.   *)
(***************************************************************************)
EXTENDS IfaceOps, SequenceTheorems, TLAPS

----------------------------------------------------------------------------
(* Sequences without repetitions. *)

LEMMA RemoveAtFacts ==
    ASSUME NEW S, NEW s \in Seq(S), IsInjective(s), NEW k \in DOMAIN s
    PROVE  /\ RemoveAt(s, k) \in Seq(S)
           /\ Len(RemoveAt(s, k)) = Len(s) - 1
           /\ IsInjective(RemoveAt(s, k))
           /\ Range(RemoveAt(s, k)) = Range(s) \ {s[k]}
<1> DEFINE t == RemoveAt(s, k)
           u == SubSeq(s, 1, k - 1)
           v == SubSeq(s, k + 1, Len(s))
<1>1. t = u \o v
    BY DEF RemoveAt
<1>2. /\ u \in Seq(S) /\ Len(u) = k - 1
      /\ \A j \in 1..k - 1 : u[j] = s[j]
    <2>1. \A j \in 1..k - 1 : s[j] \in S
        OBVIOUS
    <2>2. 1 \in Int /\ k - 1 \in Int /\ k \in 1..Len(s)
        OBVIOUS
    <2>. HIDE DEF u
    <2>3. /\ u \in Seq(S) /\ Len(u) = IF 1 <= k - 1 THEN (k - 1) - 1 + 1 ELSE 0
          /\ \A j \in 1..(k - 1) - 1 + 1 : u[j] = s[1 + j - 1]
        BY <2>1, <2>2, SubSeqProperties DEF u
    <2>. QED  BY <2>2, <2>3
<1>3. /\ v \in Seq(S) /\ Len(v) = Len(s) - k
      /\ \A j \in 1..Len(s) - k : v[j] = s[k + j]
    <2>1. \A j \in k + 1..Len(s) : s[j] \in S
        OBVIOUS
    <2>. QED  BY <2>1, SubSeqProperties
<1>4. /\ t \in Seq(S) /\ Len(t) = Len(s) - 1
      /\ \A j \in 1..Len(s) - 1 : t[j] = IF j < k THEN s[j] ELSE s[j + 1]
    <2>. HIDE DEF u, v
    <2>. QED  BY SMTT(30), <1>1, <1>2, <1>3, ConcatProperties
<1>5. IsInjective(t)
    BY SMTT(30), <1>4 DEF IsInjective
<1>6. Range(t) \subseteq Range(s) \ {s[k]}
    BY <1>4 DEF IsInjective, Range
<1>7. ASSUME NEW j \in DOMAIN s, j # k PROVE s[j] \in Range(t)
    <2>1. CASE j < k
        BY <2>1, <1>4 DEF Range
    <2>2. CASE j > k
        <3>1. j - 1 \in DOMAIN t /\ t[j - 1] = s[j]
            BY <2>2, <1>4
        <3>. QED  BY <3>1 DEF Range
    <2>. QED  BY <1>7, <2>1, <2>2
<1>8. Range(s) \ {s[k]} \subseteq Range(t)
    BY <1>7 DEF Range
<1>. QED  BY <1>4, <1>5, <1>6, <1>8

LEMMA AppendFacts ==
    ASSUME NEW S, NEW s \in Seq(S), IsInjective(s), NEW e \in S, e \notin Range(s)
    PROVE  /\ Append(s, e) \in Seq(S)
           /\ IsInjective(Append(s, e))
           /\ Range(Append(s, e)) = Range(s) \cup {e}
<1> DEFINE t == Append(s, e)
<1>1. t \in Seq(S) /\ Len(t) = Len(s) + 1 /\ t[Len(s) + 1] = e
    OBVIOUS
<1>2. \A j \in 1..Len(s) : t[j] = s[j]
    OBVIOUS
<1>3. IsInjective(t)
    BY <1>1, <1>2 DEF IsInjective, Range
<1>4. Range(t) \subseteq Range(s) \cup {e}
    BY <1>1, <1>2 DEF Range
<1>5. Range(s) \subseteq Range(t)
    <2>1. \A j \in DOMAIN s : j \in DOMAIN t /\ t[j] = s[j]
        BY <1>1, <1>2
    <2>. QED  BY <2>1 DEF Range
<1>6. e \in Range(t)
    <2>1. Len(s) + 1 \in DOMAIN t
        BY <1>1
    <2>. QED  BY <2>1, <1>1 DEF Range
<1>. QED  BY <1>1, <1>3, <1>4, <1>5, <1>6

----------------------------------------------------------------------------
(* The inductive invariant. *)

(* The mutex is held by the client that is past its wait, if there is one. *)
Mutex == \A c \in Clients : call[c].at # "lock" <=> lock = c

(* Only link_up and set_condition begin before they hold the mutex, and    *)
(* only replug has a commit of its own.                                    *)
Stages == \A c \in Clients :
    /\ call[c].at = "lock" => call[c].kind \in {"idle", "up", "condition"}
    /\ call[c].at = "commit" => call[c].kind = "replug"
    /\ call[c].kind = "idle" => call[c].at = "lock"

(* What the arguments of a call refer to. *)
Arguments == \A c \in Clients :
    /\ call[c].kind # "idle" => call[c].i \in Ifaces
    /\ call[c].kind \in {"default", "renew", "replug", "add"} => call[c].i \in Recorded
    /\ call[c].kind \in {"default", "replug", "add"} => call[c].r \in Routers

(* The pair that an operation is about to wire is not there.               *)
AboutToWire(o) == o.kind = "add" \/ (o.kind = "replug" /\ o.at = "kernel")
Unwired == \A c \in Clients : AboutToWire(call[c]) => kern[call[c].i].gw = NoRouter

(* A name that is not recorded has no pair, unless remove is deleting it.  *)
Leftover == \A i \in Ifaces \ Recorded :
    \/ kern[i].gw = NoRouter
    \/ lock # Free /\ call[lock].kind = "remove" /\ call[lock].i = i

IInv == TypeOK /\ Mutex /\ Stages /\ Arguments /\ Unwired /\ Leftover /\ UplinksExist

(* The part of it that is about the mutex and the calls. *)
Calls == /\ call \in [Clients -> Call] /\ lock \in Clients \cup {Free}
         /\ Mutex /\ Stages /\ Arguments /\ Unwired

Waiting == {"idle", "up", "condition"}

LEMMA Initially == Init => IInv
<1> SUFFICES ASSUME Init PROVE IInv
    OBVIOUS
<1> USE IfaceAssumption
<1>1. order \in Seq(Ifaces) /\ IsInjective(order) /\ Recorded = {FirstIface}
    BY DEF Init, IsInjective, Recorded, Range
<1>2. Idle \in Call /\ Idle.at = "lock" /\ Idle.kind = "idle"
    BY DEF Idle, Work, Call, Kinds
<1>3. Absent \in Link /\ Plugged(FirstRouter, 1, NoCond) \in Link /\ Absent.gw = NoRouter
    <2>1. Absent \in Link /\ Absent.gw = NoRouter
        BY DEF Absent, Link
    <2>2. 1 \in 0..MaxAddrs
        OBVIOUS
    <2>. QED  BY <2>1, <2>2 DEF Plugged, Link
<1>4. TypeOK
    <2>1. kern \in [Ifaces -> Link] /\ call \in [Clients -> Call]
        BY <1>2, <1>3 DEF Init
    <2>2. route \in [via : Ifaces, gw : Routers]
        BY DEF Init, RouteVia
    <2>3. ip \in [Ifaces -> 0..MaxAddrs] /\ allocated \in 1..MaxAddrs
        BY DEF Init
    <2>4. /\ uplink \in [Ifaces -> Routers \cup {NoRouter}]
          /\ egress \in [Ifaces -> Conds \cup {NoCond}]
          /\ ingress \in [Ifaces -> Conds \cup {NoCond}]
          /\ defaultVia \in Recorded /\ routers \subseteq Routers
          /\ lock \in Clients \cup {Free}
        BY <1>1 DEF Init
    <2>. QED  BY <1>1, <2>1, <2>2, <2>3, <2>4 DEF Init, TypeOK
<1>5. Mutex /\ Stages /\ Arguments /\ Unwired
    BY <1>2 DEF Init, Mutex, Stages, Arguments, Unwired, AboutToWire
<1>6. Leftover /\ UplinksExist
    BY <1>1, <1>3 DEF Init, Leftover, UplinksExist
<1>. QED  BY <1>4, <1>5, <1>6 DEF IInv

(* A step wires no pair over another one. *)
NotOver == \A i \in Ifaces :
    kern'[i].gw # kern[i].gw => NoRouter \in {kern[i].gw, kern'[i].gw}

----------------------------------------------------------------------------
(* Taking and giving up the mutex. *)

(* While c may change something, the other clients wait or are idle.       *)
LEMMA OthersWait ==
    ASSUME TypeOK, Mutex, Stages, NEW c \in Clients, lock \in {c, Free},
           NEW d \in Clients, d # c
    PROVE  call[d].at = "lock" /\ call[d].kind \in Waiting
BY IfaceAssumption DEF Mutex, Stages, Waiting

(* What an operation that takes the mutex leaves of the calls.             *)
LEMMA EnterFacts ==
    ASSUME IInv, NEW c \in Clients, lock = Free,
           NEW o \in Call, o.kind # "idle", o.i \in Ifaces, Enter(c, o),
           o.kind \in {"default", "renew", "replug", "add"} => o.i \in Recorded',
           o.kind \in {"default", "replug", "add"} => o.r \in Routers,
           o.kind \in {"replug", "add"} => kern'[o.i].gw = NoRouter
    PROVE  Calls' /\ lock' = c /\ call'[c].kind = o.kind /\ call'[c].i = o.i
<1> DEFINE n == [o EXCEPT !.at = "kernel"]
<1>1. /\ n \in Call /\ n.at = "kernel" /\ n.kind = o.kind /\ n.i = o.i /\ n.r = o.r
    BY DEF Call
<1>2. call' = [call EXCEPT ![c] = n] /\ lock' = c
    BY DEF Enter
<1>. HIDE DEF n
<1>3. /\ call' \in [Clients -> Call] /\ call'[c] = n
      /\ \A d \in Clients \ {c} : call'[d] = call[d]
    BY <1>1, <1>2 DEF IInv, TypeOK
<1>4. \A d \in Clients \ {c} : call[d].at = "lock" /\ call[d].kind \in Waiting
    BY OthersWait DEF IInv
<1>5. Mutex' /\ Stages'
    BY <1>1, <1>2, <1>3, <1>4 DEF IInv, Mutex, Stages
<1>6. Arguments' /\ Unwired'
    BY <1>1, <1>3, <1>4 DEF IInv, Arguments, Unwired, AboutToWire, Waiting
<1>. QED  BY <1>1, <1>2, <1>3, <1>5, <1>6 DEF Calls

(* What an operation that returns leaves of them.                          *)
LEMMA ReturnFacts ==
    ASSUME IInv, NEW c \in Clients, lock \in {c, Free}, Return(c)
    PROVE  Calls' /\ lock' = Free
<1>1. Idle \in Call /\ Idle.at = "lock" /\ Idle.kind = "idle"
    BY IfaceAssumption DEF Idle, Work, Call, Kinds
<1>2. call' = [call EXCEPT ![c] = Idle] /\ lock' = Free
    BY DEF Return
<1>3. /\ call' \in [Clients -> Call] /\ call'[c] = Idle
      /\ \A d \in Clients \ {c} : call'[d] = call[d]
    BY <1>1, <1>2 DEF IInv, TypeOK
<1>4. \A d \in Clients \ {c} : call[d].at = "lock" /\ call[d].kind \in Waiting
    BY OthersWait DEF IInv
<1>5. Mutex' /\ Stages'
    BY IfaceAssumption, <1>1, <1>2, <1>3, <1>4 DEF IInv, Mutex, Stages
<1>6. Arguments' /\ Unwired'
    BY <1>1, <1>3, <1>4 DEF IInv, Arguments, Unwired, AboutToWire, Waiting
<1>. QED  BY <1>2, <1>3, <1>5, <1>6 DEF Calls

(* What an operation that has yet to wait for the mutex leaves: everything. *)
LEMMA BeginFacts ==
    ASSUME IInv, NEW c \in Clients, NEW o \in Call, o.kind \in {"up", "condition"},
           o.at = "lock", o.i \in Ifaces, Begin(c, o)
    PROVE  IInv' /\ NotOver
<1>1. /\ call' = [call EXCEPT ![c] = o]
      /\ call[c].at = "lock" /\ call[c].kind = "idle"
      /\ UNCHANGED <<routers, order, uplink, ip, egress, ingress, defaultVia, allocated,
                     kern, route, lock, lost, failed, stale>>
    BY DEF Begin, Idle, Work, core, kernel, history
<1>2. /\ call' \in [Clients -> Call] /\ call'[c] = o
      /\ \A d \in Clients \ {c} : call'[d] = call[d]
    BY <1>1 DEF IInv, TypeOK
<1>3. Mutex' /\ Stages'
    BY <1>1, <1>2 DEF IInv, Mutex, Stages
<1>4. Arguments' /\ Unwired'
    BY <1>1, <1>2 DEF IInv, Arguments, Unwired, AboutToWire, Recorded
<1>5. lock # c
    BY <1>1 DEF IInv, Mutex
<1>6. Leftover' /\ UplinksExist' /\ NotOver
    BY <1>1, <1>2, <1>5 DEF IInv, TypeOK, Leftover, UplinksExist, Recorded, NotOver
<1>7. TypeOK'
    BY <1>1, <1>2 DEF IInv, TypeOK, Recorded
<1>. QED  BY <1>3, <1>4, <1>6, <1>7 DEF IInv

(* What a step that is nobody's call, or a whole one, leaves of the calls  *)
(* and of what is unrecorded, when all it does to pairs is to delete some. *)
LEMMA StillFacts ==
    ASSUME IInv, UNCHANGED <<lock, call, order>>,
           \A i \in Ifaces : kern'[i].gw \in {kern[i].gw, NoRouter}
    PROVE  Calls' /\ Leftover' /\ NotOver
<1>1. Calls'
    <2>1. Mutex' /\ Stages' /\ Arguments'
        BY DEF IInv, Mutex, Stages, Arguments, Recorded
    <2>2. Unwired'
        BY DEF IInv, Arguments, Unwired, AboutToWire
    <2>. QED  BY <2>1, <2>2 DEF IInv, TypeOK, Calls
<1>2. Leftover' /\ NotOver
    BY DEF IInv, Leftover, Recorded, NotOver
<1>. QED  BY <1>1, <1>2

(* While no remove is deleting a pair, what is unrecorded has none.        *)
LEMMA LeftoverKept ==
    ASSUME IInv, lock = Free \/ call[lock].kind # "remove",
           Recorded \subseteq Recorded',
           \A i \in Ifaces \ Recorded : kern'[i].gw \in {kern[i].gw, NoRouter}
    PROVE  Leftover'
BY DEF IInv, Leftover

----------------------------------------------------------------------------
(* Links and calls. *)

(* The fields of a link that tc, ip link and ip addr set.                  *)
LEMMA LinkFields ==
    ASSUME NEW k \in Link
    PROVE  /\ k.gw \in Routers \cup {NoRouter}
           /\ \A x \in Conds \cup {NoCond} :
                 /\ [k EXCEPT !.eg = x] \in Link /\ [k EXCEPT !.eg = x].gw = k.gw
                 /\ [k EXCEPT !.in = x] \in Link /\ [k EXCEPT !.in = x].gw = k.gw
           /\ \A b \in BOOLEAN :
                 /\ [k EXCEPT !.up = b] \in Link /\ [k EXCEPT !.up = b].gw = k.gw
                 /\ [k EXCEPT !.extra = b] \in Link /\ [k EXCEPT !.extra = b].gw = k.gw
           /\ \A a, old \in 0..MaxAddrs :
                 Readdressed(k, old, a) \in Link /\ Readdressed(k, old, a).gw = k.gw
<1>1. \A a, old \in 0..MaxAddrs :
         Readdressed(k, old, a) \in Link /\ Readdressed(k, old, a).gw = k.gw
    <2> SUFFICES ASSUME NEW a \in 0..MaxAddrs, NEW old \in 0..MaxAddrs
                 PROVE  Readdressed(k, old, a) \in Link /\ Readdressed(k, old, a).gw = k.gw
        OBVIOUS
    <2>. QED  BY DEF Link, Readdressed
<1>. QED  BY <1>1 DEF Link

(* What they make of the links of the namespace.                           *)
SamePeers(k) == k \in [Ifaces -> Link] /\ \A j \in Ifaces : k[j].gw = kern[j].gw

LEMMA SetFacts ==
    ASSUME TypeOK, NEW i \in Ifaces, NEW l \in Link, l.gw = kern[i].gw
    PROVE  SamePeers([kern EXCEPT ![i] = l])
BY DEF TypeOK, SamePeers

LEMMA LinkSets ==
    ASSUME TypeOK, NEW i \in Ifaces
    PROVE  /\ \A b \in BOOLEAN : /\ SamePeers([kern EXCEPT ![i].up = b])
                               /\ SamePeers([kern EXCEPT ![i].extra = b])
           /\ \A x \in Conds \cup {NoCond} : SamePeers(EgressSet(i, x))
           /\ \A r : \A x \in Conds \cup {NoCond} : SamePeers(IngressSet(i, r, x))
<1>1. kern[i] \in Link
    BY DEF TypeOK
<1>2. PICK k : k = kern[i]
    OBVIOUS
<1>3. \A b \in BOOLEAN : /\ SamePeers([kern EXCEPT ![i] = [k EXCEPT !.up = b]])
                        /\ SamePeers([kern EXCEPT ![i] = [k EXCEPT !.extra = b]])
    BY <1>1, <1>2, LinkFields, SetFacts
<1>4. \A x \in Conds \cup {NoCond} :
          /\ SamePeers([kern EXCEPT ![i] = [k EXCEPT !.eg = x]])
          /\ SamePeers([kern EXCEPT ![i] = [k EXCEPT !.in = x]])
    BY <1>1, <1>2, LinkFields, SetFacts
<1>5. /\ k.eg \in Conds \cup {NoCond} /\ k.in \in Conds \cup {NoCond}
    BY <1>1, <1>2 DEF Link
<1>6. \A x \in Conds \cup {NoCond} : SamePeers(EgressSet(i, x))
    <2> SUFFICES ASSUME NEW x \in Conds \cup {NoCond} PROVE SamePeers(EgressSet(i, x))
        OBVIOUS
    <2>1. CASE Exists(i)
        BY <2>1, <1>2, <1>4 DEF EgressSet
    <2>2. CASE ~Exists(i)
        BY <2>2, <1>2, <1>4, <1>5 DEF EgressSet
    <2>. QED  BY <2>1, <2>2
<1>7. \A r : \A x \in Conds \cup {NoCond} : SamePeers(IngressSet(i, r, x))
    <2> SUFFICES ASSUME NEW x \in Conds \cup {NoCond}, NEW r
                 PROVE  SamePeers(IngressSet(i, r, x))
        OBVIOUS
    <2>1. CASE kern[i].gw = r
        BY <2>1, <1>2, <1>4 DEF IngressSet
    <2>2. CASE kern[i].gw # r
        BY <2>2, <1>2, <1>4, <1>5 DEF IngressSet
    <2>. QED  BY <2>1, <2>2
<1>. QED  BY <1>2, <1>3, <1>6, <1>7

LEMMA PluggedFacts ==
    ASSUME NEW r \in Routers, NEW a \in 0..MaxAddrs, NEW x \in Conds \cup {NoCond}
    PROVE  /\ Plugged(r, a, x) \in Link /\ Plugged(r, a, x).gw = r
           /\ Absent \in Link /\ Absent.gw = NoRouter
<1>1. PICK k : k = Absent
    OBVIOUS
<1>2. k \in Link /\ k.gw = NoRouter
    BY <1>1, IfaceAssumption DEF Absent, Link
<1>3. LET p == [k EXCEPT !.gw = r, !.up = TRUE, !.addr = a, !.eg = x]
      IN  p \in Link /\ p.gw = r
    BY <1>2 DEF Link
<1>. QED  BY <1>1, <1>2, <1>3 DEF Plugged

LEMMA CallFields ==
    ASSUME NEW o \in Call
    PROVE  /\ o.kind \in Kinds /\ o.i \in Ifaces \cup {NoIface}
           /\ o.r \in Routers \cup {NoRouter} /\ o.c \in Conds \cup {NoCond}
           /\ o.addr \in 0..MaxAddrs
BY DEF Call

(* What a call is when it begins, whatever it copies.                      *)
Begun(o, k, i, r) == o \in Call /\ o.kind = k /\ o.at = "lock" /\ o.i = i /\ o.r = r

LEMMA WorkFields ==
    ASSUME NEW k \in Kinds, NEW i \in Ifaces, NEW r \in Routers \cup {NoRouter},
           NEW w, w = Work(k, i, r)
    PROVE  /\ Begun(w, k, i, r)
           /\ \A x \in Conds \cup {NoCond} : Begun([w EXCEPT !.c = x], k, i, r)
           /\ \A b \in BOOLEAN : Begun([w EXCEPT !.dflt = b], k, i, r)
           /\ \A a \in 0..MaxAddrs : Begun([w EXCEPT !.addr = a], k, i, r)
           /\ \A x \in Conds \cup {NoCond}, d \in Directions :
                 Begun([w EXCEPT !.c = x, !.dir = d], k, i, r)
           /\ \A a \in 0..MaxAddrs, x \in Conds \cup {NoCond}, b \in BOOLEAN :
                 Begun([w EXCEPT !.addr = a, !.c = x, !.dflt = b], k, i, r)
<1>1. Begun(w, k, i, r)
    BY IfaceAssumption DEF Work, Call, Begun
<1>2. /\ \A x \in Conds \cup {NoCond} : Begun([w EXCEPT !.c = x], k, i, r)
      /\ \A b \in BOOLEAN : Begun([w EXCEPT !.dflt = b], k, i, r)
      /\ \A a \in 0..MaxAddrs : Begun([w EXCEPT !.addr = a], k, i, r)
    BY <1>1 DEF Call, Begun
<1>3. \A x \in Conds \cup {NoCond}, d \in Directions :
          Begun([w EXCEPT !.c = x, !.dir = d], k, i, r)
    BY <1>1 DEF Call, Begun
<1>4. \A a \in 0..MaxAddrs, x \in Conds \cup {NoCond}, b \in BOOLEAN :
          Begun([w EXCEPT !.addr = a, !.c = x, !.dflt = b], k, i, r)
    BY ZenonT(30), <1>1 DEF Call, Begun
<1>. QED  BY <1>1, <1>2, <1>3, <1>4

----------------------------------------------------------------------------
(* The steps.  Each keeps the invariant and wires no pair over another.    *)

(* An operation that looks at the device and takes the mutex.              *)
LEMMA SetDefaultLookupStep ==
    ASSUME IInv, NEW c \in Clients, SetDefaultLookup(c) PROVE IInv' /\ NotOver
<1>1. PICK i \in Recorded :
        /\ Ready(c) /\ uplink[i] \in routers
        /\ Enter(c, [Work("default", i, uplink[i]) EXCEPT !.c = egress[i]])
        /\ UNCHANGED <<core, kernel, history>>
    BY DEF SetDefaultLookup
<1>2. /\ i \in Ifaces /\ uplink[i] \in Routers /\ egress[i] \in Conds \cup {NoCond}
      /\ lock = Free
      /\ UNCHANGED <<routers, order, uplink, ip, egress, ingress, defaultVia, allocated,
                     kern, route, lost, failed, stale>>
    BY <1>1 DEF IInv, TypeOK, Recorded, Range, Ready, core, kernel, history
<1>3. PICK o : o = [Work("default", i, uplink[i]) EXCEPT !.c = egress[i]]
    OBVIOUS
<1>4. Begun(o, "default", i, uplink[i])
    <2>1. "default" \in Kinds  BY DEF Kinds
    <2>. QED  BY <1>2, <1>3, <2>1, WorkFields
<1>5. Calls'
    BY <1>1, <1>2, <1>3, <1>4, EnterFacts DEF Recorded, Begun
<1>6. Leftover' /\ UplinksExist' /\ NotOver
    BY <1>2, LeftoverKept DEF SamePeers, IInv, UplinksExist, NotOver, Recorded
<1>7. TypeOK'
    BY <1>2, <1>5 DEF IInv, TypeOK, Calls, Recorded, SamePeers
<1>. QED  BY <1>5, <1>6, <1>7 DEF IInv, Calls

LEMMA SetDefaultRouteStep ==
    ASSUME IInv, NEW c \in Clients, SetDefaultRoute(c) PROVE IInv' /\ NotOver
<1> DEFINE o == call[c]
<1>1. /\ o \in Call /\ o.kind = "default" /\ lock = c
      /\ o.i \in Recorded /\ o.i \in Ifaces /\ o.r \in Routers
    BY DEF SetDefaultRoute, Holds, IInv, TypeOK, Arguments
<1>2. Return(c)
    BY DEF SetDefaultRoute, Fail
<1>3. Calls'
    BY <1>1, <1>2, ReturnFacts
<1>4. route' \in {NoRoute} \cup [via : Ifaces, gw : Routers]
    BY <1>1 DEF SetDefaultRoute, Replaced, RouteVia, IInv, TypeOK
<1>5. SamePeers(kern')
    <2>1. CASE kern' = EgressSet(o.i, o.c)
        BY <1>1, <2>1, LinkSets, CallFields DEF IInv
    <2>2. CASE kern' = kern
        BY <2>2 DEF IInv, TypeOK, SamePeers
    <2>. QED  BY <2>1, <2>2 DEF SetDefaultRoute
<1>6. /\ defaultVia' \in Recorded /\ lost' \in BOOLEAN /\ failed' \in BOOLEAN
      /\ UNCHANGED <<routers, order, uplink, ip, egress, ingress, allocated, stale>>
    BY <1>1 DEF SetDefaultRoute, Fail, core, IInv, TypeOK
<1>7. Leftover' /\ UplinksExist' /\ NotOver
    BY <1>1, <1>5, <1>6, LeftoverKept DEF SamePeers, IInv, UplinksExist, NotOver, Recorded
<1>8. TypeOK'
    BY <1>3, <1>4, <1>5, <1>6 DEF IInv, TypeOK, Calls, Recorded, SamePeers
<1>. QED  BY <1>3, <1>7, <1>8 DEF IInv, Calls

LEMMA LinkDownStep ==
    ASSUME IInv, NEW c \in Clients, LinkDown(c) PROVE IInv' /\ NotOver
<1>1. PICK i \in Recorded :
        /\ kern' = [kern EXCEPT ![i].up = FALSE]
        /\ route' = FlushedOf(i)
        /\ UNCHANGED <<core, lock, call, history>>
    BY DEF LinkDown
<1>2. /\ i \in Ifaces
      /\ UNCHANGED <<routers, order, uplink, ip, egress, ingress, defaultVia, allocated,
                     lock, call, lost, failed, stale>>
    BY <1>1 DEF IInv, TypeOK, Recorded, Range, core, history
<1>3. /\ SamePeers(kern')
      /\ route' \in {NoRoute} \cup [via : Ifaces, gw : Routers]
    BY <1>1, <1>2, LinkSets DEF FlushedOf, IInv, TypeOK
<1>4. Calls' /\ Leftover' /\ NotOver
    BY <1>2, <1>3, StillFacts DEF SamePeers
<1>5. TypeOK' /\ UplinksExist'
    BY <1>2, <1>3 DEF IInv, TypeOK, UplinksExist, Recorded, SamePeers
<1>. QED  BY <1>4, <1>5 DEF IInv, Calls

LEMMA AddIpStep ==
    ASSUME IInv, NEW c \in Clients, AddIp(c) PROVE IInv' /\ NotOver
<1>1. PICK i \in Recorded :
        /\ kern' = [kern EXCEPT ![i].extra = TRUE]
        /\ UNCHANGED <<core, route, lock, call, history>>
    BY DEF AddIp
<1>2. /\ i \in Ifaces
      /\ UNCHANGED <<routers, order, uplink, ip, egress, ingress, defaultVia, allocated,
                     route, lock, call, lost, failed, stale>>
    BY <1>1 DEF IInv, TypeOK, Recorded, Range, core, history
<1>3. SamePeers(kern')
    BY <1>1, <1>2, LinkSets DEF IInv
<1>4. Calls' /\ Leftover' /\ NotOver
    BY <1>2, <1>3, StillFacts DEF SamePeers
<1>5. TypeOK' /\ UplinksExist'
    BY <1>2, <1>3 DEF IInv, TypeOK, UplinksExist, Recorded, SamePeers
<1>. QED  BY <1>4, <1>5 DEF IInv, Calls

LEMMA BeginLinkUpStep ==
    ASSUME IInv, NEW c \in Clients, BeginLinkUp(c) PROVE IInv' /\ NotOver
<1>1. PICK i \in Recorded :
        Begin(c, [Work("up", i, uplink[i]) EXCEPT !.dflt = (defaultVia = i)])
    BY DEF BeginLinkUp
<1>2. i \in Ifaces /\ uplink[i] \in Routers \cup {NoRouter} /\ "up" \in Kinds
    BY DEF IInv, TypeOK, Recorded, Range, Kinds
<1>3. PICK o : o = [Work("up", i, uplink[i]) EXCEPT !.dflt = (defaultVia = i)]
    OBVIOUS
<1>4. Begun(o, "up", i, uplink[i])
    BY <1>2, <1>3, WorkFields
<1>. QED  BY <1>1, <1>2, <1>3, <1>4, BeginFacts DEF Begun

LEMMA LinkUpStep ==
    ASSUME IInv, NEW c \in Clients, LinkUp(c) PROVE IInv' /\ NotOver
<1> DEFINE o == call[c]
<1>1. o \in Call /\ o.kind = "up" /\ o.i \in Ifaces /\ lock = Free
    BY DEF LinkUp, Waited, IInv, TypeOK, Arguments
<1>2. /\ UNCHANGED <<routers, order, uplink, ip, egress, ingress, defaultVia, allocated,
                     route, lost, failed>>
      /\ stale' \in BOOLEAN
    BY DEF LinkUp, core, kernel, history, IInv, TypeOK
<1>3. SamePeers(kern')
    <2>1. CASE kern' = [kern EXCEPT ![o.i].up = TRUE]
        BY <1>1, <2>1, LinkSets DEF IInv
    <2>2. CASE kern' = kern
        BY <2>2 DEF IInv, TypeOK, SamePeers
    <2>. QED  BY <2>1, <2>2 DEF LinkUp, kernel
<1>4. Calls'
    <2>1. CASE Enter(c, o)
        BY <1>1, <2>1, EnterFacts
    <2>2. CASE Return(c)
        BY <1>1, <2>2, ReturnFacts
    <2>. QED  BY <2>1, <2>2 DEF LinkUp
<1>5. Leftover' /\ UplinksExist' /\ NotOver
    BY <1>1, <1>2, <1>3, LeftoverKept DEF SamePeers, IInv, UplinksExist, NotOver, Recorded
<1>6. TypeOK'
    BY <1>2, <1>3, <1>4 DEF IInv, TypeOK, Calls, Recorded, SamePeers
<1>. QED  BY <1>4, <1>5, <1>6 DEF IInv, Calls

LEMMA LinkUpRouteStep ==
    ASSUME IInv, NEW c \in Clients, LinkUpRoute(c) PROVE IInv' /\ NotOver
<1> DEFINE o == call[c]
<1>1. o \in Call /\ o.kind = "up" /\ o.i \in Ifaces /\ lock = c
    BY DEF LinkUpRoute, Holds, IInv, TypeOK, Arguments
<1>2. /\ UNCHANGED <<routers, order, uplink, ip, egress, ingress, defaultVia, allocated,
                     kern, stale>>
      /\ lost' \in BOOLEAN /\ failed' \in BOOLEAN
      /\ Return(c)
    BY DEF LinkUpRoute, Fail, core, IInv, TypeOK
<1>3. route' \in {NoRoute} \cup [via : Ifaces, gw : Routers]
    BY <1>1 DEF LinkUpRoute, Replaced, RouteVia, IInv, TypeOK
<1>4. Calls'
    BY <1>1, <1>2, ReturnFacts
<1>5. Leftover' /\ UplinksExist' /\ NotOver
    BY <1>1, <1>2, LeftoverKept DEF SamePeers, IInv, UplinksExist, NotOver, Recorded
<1>6. TypeOK'
    BY <1>2, <1>3, <1>4 DEF IInv, TypeOK, Calls, Recorded, SamePeers
<1>. QED  BY <1>4, <1>5, <1>6 DEF IInv, Calls

LEMMA RenewIpStep ==
    ASSUME IInv, NEW c \in Clients, RenewIp(c) PROVE IInv' /\ NotOver
<1>1. PICK i \in Recorded :
        /\ Ready(c) /\ allocated < MaxAddrs
        /\ allocated' = allocated + 1
        /\ ip' = [ip EXCEPT ![i] = allocated + 1]
        /\ Enter(c, [Work("renew", i, NoRouter) EXCEPT !.addr = ip[i]])
        /\ UNCHANGED <<routers, order, uplink, egress, ingress, defaultVia, kernel, history>>
    BY DEF RenewIp
<1>2. /\ i \in Ifaces /\ ip[i] \in 0..MaxAddrs /\ lock = Free
      /\ UNCHANGED <<kern, route, lost, failed, stale>>
    BY <1>1 DEF IInv, TypeOK, Recorded, Range, Ready, kernel, history
<1>3. PICK o : o = [Work("renew", i, NoRouter) EXCEPT !.addr = ip[i]]
    OBVIOUS
<1>4. Begun(o, "renew", i, NoRouter)
    <2>1. "renew" \in Kinds  BY DEF Kinds
    <2>. QED  BY <1>2, <1>3, <2>1, WorkFields
<1>5. Calls'
    BY <1>1, <1>2, <1>3, <1>4, EnterFacts DEF Recorded, Begun
<1>6. Leftover' /\ UplinksExist' /\ NotOver
    BY <1>1, <1>2, LeftoverKept DEF IInv, UplinksExist, NotOver, Recorded
<1>7. allocated' \in 1..MaxAddrs /\ ip' \in [Ifaces -> 0..MaxAddrs]
    BY <1>1, <1>2, IfaceAssumption DEF IInv, TypeOK
<1>8. TypeOK'
    BY <1>1, <1>2, <1>5, <1>7 DEF IInv, TypeOK, Calls, Recorded
<1>. QED  BY <1>5, <1>6, <1>8 DEF IInv, Calls

LEMMA ReplaceAddrStep ==
    ASSUME IInv, NEW c \in Clients, ReplaceAddr(c) PROVE IInv' /\ NotOver
<1> DEFINE o == call[c]
<1>1. o \in Call /\ o.kind = "renew" /\ o.i \in Ifaces /\ lock = c
    BY DEF ReplaceAddr, Holds, IInv, TypeOK, Arguments
<1>2. /\ UNCHANGED <<routers, order, uplink, ip, egress, ingress, defaultVia, allocated, stale>>
      /\ lost' \in BOOLEAN /\ failed' \in BOOLEAN
      /\ Return(c)
    BY DEF ReplaceAddr, Fail, core, IInv, TypeOK
<1>3. SamePeers(kern')
    <2>1. CASE kern' = kern
        BY <2>1 DEF IInv, TypeOK, SamePeers
    <2>2. CASE kern' = [kern EXCEPT ![o.i] = Readdressed(@, o.addr, ip[o.i])]
        <3>1. PICK l : l = Readdressed(kern[o.i], o.addr, ip[o.i])
            OBVIOUS
        <3>2. l \in Link /\ l.gw = kern[o.i].gw
            BY <1>1, <3>1, LinkFields, CallFields DEF IInv, TypeOK
        <3>. QED  BY <1>1, <2>2, <3>1, <3>2, SetFacts DEF IInv
    <2>. QED  BY <2>1, <2>2 DEF ReplaceAddr, kernel
<1>4. route' \in {NoRoute} \cup [via : Ifaces, gw : Routers]
    BY DEF ReplaceAddr, kernel, FlushedOf, IInv, TypeOK
<1>5. Calls'
    BY <1>1, <1>2, ReturnFacts
<1>6. Leftover' /\ UplinksExist' /\ NotOver
    BY <1>1, <1>2, <1>3, LeftoverKept DEF SamePeers, IInv, UplinksExist, NotOver, Recorded
<1>7. TypeOK'
    BY <1>2, <1>3, <1>4, <1>5 DEF IInv, TypeOK, Calls, Recorded, SamePeers
<1>. QED  BY <1>5, <1>6, <1>7 DEF IInv, Calls

(* replug deletes the pair and wires a new one while it holds the mutex.   *)
LEMMA ReplugStep ==
    ASSUME IInv, NEW c \in Clients, Replug(c) PROVE IInv' /\ NotOver
<1>1. PICK i \in Recorded, r \in routers :
        /\ Ready(c) /\ allocated < MaxAddrs
        /\ allocated' = allocated + 1
        /\ kern' = [kern EXCEPT ![i] = Absent]
        /\ route' = FlushedOf(i)
        /\ Enter(c, [Work("replug", i, r) EXCEPT !.addr = allocated + 1, !.c = egress[i],
                                                 !.dflt = (defaultVia = i)])
        /\ UNCHANGED <<routers, order, uplink, ip, egress, ingress, defaultVia, history>>
    BY DEF Replug
<1>2. /\ i \in Ifaces /\ r \in Routers /\ egress[i] \in Conds \cup {NoCond}
      /\ lock = Free /\ UNCHANGED <<lost, failed, stale>>
    BY <1>1 DEF IInv, TypeOK, Recorded, Range, Ready, history
<1>3. allocated + 1 \in 1..MaxAddrs /\ allocated + 1 \in 0..MaxAddrs
    BY <1>1, IfaceAssumption DEF IInv, TypeOK
<1>4. PICK o : o = [Work("replug", i, r) EXCEPT !.addr = allocated + 1, !.c = egress[i],
                                               !.dflt = (defaultVia = i)]
    OBVIOUS
<1>5. Begun(o, "replug", i, r)
    <2>1. "replug" \in Kinds  BY DEF Kinds
    <2>2. PICK w : w = Work("replug", i, r)  OBVIOUS
    <2>3. PICK a \in 0..MaxAddrs : a = allocated + 1  BY <1>3
    <2>4. PICK b \in BOOLEAN : b = (defaultVia = i)  OBVIOUS
    <2>. QED  BY <1>2, <1>4, <2>1, <2>2, <2>3, <2>4, WorkFields
<1>6. /\ kern' \in [Ifaces -> Link] /\ kern'[i].gw = NoRouter
      /\ \A j \in Ifaces : kern'[j].gw \in {kern[j].gw, NoRouter}
    BY <1>1, <1>2, <1>3, PluggedFacts DEF IInv, TypeOK
<1>7. Calls'
    BY ZenonT(30), <1>1, <1>2, <1>4, <1>5, <1>6, EnterFacts DEF Recorded, Begun
<1>8. Leftover' /\ UplinksExist' /\ NotOver
    BY <1>1, <1>2, <1>6, LeftoverKept DEF IInv, UplinksExist, NotOver, Recorded
<1>9. route' \in {NoRoute} \cup [via : Ifaces, gw : Routers]
    BY <1>1 DEF FlushedOf, IInv, TypeOK
<1>10. TypeOK'
    BY <1>1, <1>2, <1>3, <1>6, <1>7, <1>9 DEF IInv, TypeOK, Calls, Recorded
<1>. QED  BY <1>7, <1>8, <1>10 DEF IInv, Calls

LEMMA WireReplugStep ==
    ASSUME IInv, NEW c \in Clients, WireReplugged(c) PROVE IInv' /\ NotOver
<1> DEFINE o == call[c]
<1>1. /\ o \in Call /\ o.kind = "replug" /\ o.at = "kernel" /\ lock = c
      /\ o.i \in Recorded /\ o.i \in Ifaces /\ o.r \in Routers
      /\ kern[o.i].gw = NoRouter
    BY DEF WireReplugged, Holds, IInv, TypeOK, Arguments, Unwired, AboutToWire
<1>2. CASE UNCHANGED kernel /\ Fail(c)
    <2>1. /\ UNCHANGED <<routers, order, uplink, ip, egress, ingress, defaultVia, allocated,
                         kern, route, lost, stale>>
          /\ failed' \in BOOLEAN /\ Return(c)
        BY <1>2 DEF Fail, core, kernel
    <2>2. Calls'
        BY <1>1, <2>1, ReturnFacts
    <2>3. Leftover' /\ UplinksExist' /\ NotOver
        BY <1>1, <2>1, LeftoverKept DEF IInv, UplinksExist, NotOver, Recorded
    <2>4. TypeOK'
        BY <2>1, <2>2 DEF IInv, TypeOK, Calls, Recorded
    <2>. QED  BY <2>2, <2>3, <2>4 DEF IInv, Calls
<1>3. CASE /\ kern' = [kern EXCEPT ![o.i] = Plugged(o.r, o.addr, o.c)]
           /\ route' = IF o.dflt /\ route = NoRoute THEN RouteVia(o.i, o.r) ELSE route
           /\ lost' = (lost /\ ~o.dflt)
           /\ call' = [call EXCEPT ![c].at = "commit"]
           /\ UNCHANGED <<core, lock, failed, stale>>
    <2>1. UNCHANGED <<routers, order, uplink, ip, egress, ingress, defaultVia, allocated,
                      lock, failed, stale>>
        BY <1>3 DEF core
    <2>2. PICK l : l = Plugged(o.r, o.addr, o.c)
        OBVIOUS
    <2>3. l \in Link
        BY <1>1, <2>2, CallFields, PluggedFacts
    <2>4. /\ kern' \in [Ifaces -> Link]
          /\ \A j \in Ifaces \ {o.i} : kern'[j] = kern[j]
        BY <1>1, <1>3, <2>2, <2>3 DEF IInv, TypeOK
    <2>5. PICK n : n = [o EXCEPT !.at = "commit"]
        OBVIOUS
    <2>6. /\ n \in Call /\ n.at = "commit" /\ n.kind = "replug" /\ n.i = o.i /\ n.r = o.r
        BY <1>1, <2>5 DEF Call
    <2>7. /\ call' \in [Clients -> Call] /\ call'[c] = n
          /\ \A d \in Clients \ {c} : call'[d] = call[d]
        BY <1>3, <2>5, <2>6 DEF IInv, TypeOK
    <2>8. \A d \in Clients \ {c} : call[d].at = "lock" /\ call[d].kind \in Waiting
        BY <1>1, OthersWait DEF IInv
    <2>9. Mutex' /\ Stages'
        BY <1>1, <2>1, <2>6, <2>7 DEF IInv, Mutex, Stages
    <2>10. Arguments' /\ Unwired'
        BY <1>1, <2>1, <2>6, <2>7, <2>8
        DEF IInv, Arguments, Unwired, AboutToWire, Waiting, Recorded
    <2>11. Leftover'
        <3>1. \A i \in Ifaces \ Recorded : kern'[i].gw \in {kern[i].gw, NoRouter}
            BY <1>1, <2>4
        <3>. QED  BY <1>1, <2>1, <3>1, LeftoverKept DEF Recorded
    <2>12. UplinksExist' /\ NotOver
        BY <1>1, <2>1, <2>4 DEF IInv, UplinksExist, NotOver, Recorded
    <2>13. route' \in {NoRoute} \cup [via : Ifaces, gw : Routers] /\ lost' \in BOOLEAN
        BY <1>1, <1>3 DEF RouteVia, IInv, TypeOK
    <2>14. TypeOK'
        BY <2>1, <2>4, <2>7, <2>13 DEF IInv, TypeOK, Recorded
    <2>. QED  BY <2>9, <2>10, <2>11, <2>12, <2>14 DEF IInv
<1>. QED  BY <1>2, <1>3 DEF WireReplugged

LEMMA FinishReplugStep ==
    ASSUME IInv, NEW c \in Clients, FinishReplug(c) PROVE IInv' /\ NotOver
<1> DEFINE o == call[c]
<1>1. /\ o \in Call /\ o.kind = "replug" /\ lock = c
      /\ o.i \in Ifaces /\ o.r \in Routers
    BY DEF FinishReplug, Holds, IInv, TypeOK, Arguments
<1>2. /\ UNCHANGED <<routers, order, egress, ingress, defaultVia, allocated,
                     kern, route, lost, stale>>
      /\ failed' \in BOOLEAN
      /\ Return(c)
    BY DEF FinishReplug, Fail, core, kernel, history, IInv, TypeOK
<1>3. /\ uplink' \in [Ifaces -> Routers \cup {NoRouter}] /\ ip' \in [Ifaces -> 0..MaxAddrs]
      /\ \A i \in Ifaces : uplink'[i] \in {uplink[i]} \cup routers
    <2>1. CASE UNCHANGED <<uplink, ip>>
        BY <2>1 DEF IInv, TypeOK
    <2>2. CASE /\ o.r \in routers
               /\ uplink' = [uplink EXCEPT ![o.i] = o.r]
               /\ ip' = [ip EXCEPT ![o.i] = o.addr]
        BY <1>1, <2>2, CallFields DEF IInv, TypeOK
    <2>. QED  BY <2>1, <2>2 DEF FinishReplug, Fail, core
<1>4. Calls'
    BY <1>1, <1>2, ReturnFacts
<1>5. Leftover' /\ NotOver
    BY <1>1, <1>2, LeftoverKept DEF NotOver, Recorded
<1>6. UplinksExist'
    BY <1>2, <1>3 DEF IInv, TypeOK, UplinksExist, Recorded, Range
<1>7. TypeOK'
    BY <1>2, <1>3, <1>4 DEF IInv, TypeOK, Calls, Recorded
<1>. QED  BY <1>4, <1>5, <1>6, <1>7 DEF IInv, Calls

(* remove takes the record first and then the pair.                        *)
LEMMA RemoveIfaceStep ==
    ASSUME IInv, NEW c \in Clients, RemoveIface(c) PROVE IInv' /\ NotOver
<1>1. PICK k \in DOMAIN order :
        /\ Ready(c) /\ Len(order) > 1
        /\ order' = RemoveAt(order, k)
        /\ defaultVia' = IF defaultVia = order[k] THEN order'[1] ELSE defaultVia
        /\ lost' = (lost \/ defaultVia = order[k])
        /\ Enter(c, Work("remove", order[k], NoRouter))
        /\ uplink' = [uplink EXCEPT ![order[k]] = NoRouter]
        /\ ip' = [ip EXCEPT ![order[k]] = 0]
        /\ egress' = [egress EXCEPT ![order[k]] = NoCond]
        /\ ingress' = [ingress EXCEPT ![order[k]] = NoCond]
        /\ UNCHANGED <<routers, allocated, kernel, failed, stale>>
    BY DEF RemoveIface
<1>2. order \in Seq(Ifaces) /\ IsInjective(order) /\ lock = Free
    BY <1>1 DEF IInv, TypeOK, Ready
<1>3. /\ order' \in Seq(Ifaces) /\ Len(order') = Len(order) - 1 /\ IsInjective(order')
      /\ Recorded' = Recorded \ {order[k]}
    BY <1>1, <1>2, RemoveAtFacts DEF Recorded
<1>4. order[k] \in Ifaces
    BY <1>2
<1>5. defaultVia' \in Recorded' /\ lost' \in BOOLEAN
    <2>1. order'[1] \in Recorded'
        BY <1>1, <1>2, <1>3 DEF Recorded, Range
    <2>. QED  BY <1>1, <1>3, <2>1 DEF IInv, TypeOK
<1>6. PICK o : o = Work("remove", order[k], NoRouter)
    OBVIOUS
<1>7. Begun(o, "remove", order[k], NoRouter)
    <2>1. "remove" \in Kinds  BY DEF Kinds
    <2>. QED  BY <1>4, <1>6, <2>1, WorkFields
<1>8. Calls' /\ lock' = c /\ call'[c].kind = "remove" /\ call'[c].i = order[k]
    BY <1>1, <1>2, <1>4, <1>6, <1>7, EnterFacts DEF Begun
<1>9. UNCHANGED <<kern, route>>
    BY <1>1 DEF kernel
<1>10. Leftover'
    BY <1>2, <1>3, <1>8, <1>9, IfaceAssumption DEF IInv, Leftover
<1>11. UplinksExist' /\ NotOver
    <2>1. Recorded \subseteq Ifaces
        BY <1>2 DEF Recorded, Range
    <2>2. \A j \in Recorded' : j \in Recorded /\ j \in Ifaces /\ j # order[k]
        BY <1>3, <2>1
    <2>3. \A j \in Recorded' : uplink'[j] \in routers'
        BY <1>1, <1>4, <2>2 DEF IInv, TypeOK, UplinksExist
    <2>. QED  BY <1>9, <2>3 DEF UplinksExist, NotOver
<1>12. /\ uplink' \in [Ifaces -> Routers \cup {NoRouter}]
       /\ ip' \in [Ifaces -> 0..MaxAddrs]
       /\ egress' \in [Ifaces -> Conds \cup {NoCond}]
       /\ ingress' \in [Ifaces -> Conds \cup {NoCond}]
    <2>1. 0 \in 0..MaxAddrs  BY IfaceAssumption
    <2>. QED  BY <1>1, <1>4, <2>1 DEF IInv, TypeOK
<1>13. TypeOK'
    BY <1>1, <1>3, <1>5, <1>8, <1>9, <1>12 DEF IInv, TypeOK, Calls
<1>. QED  BY <1>8, <1>10, <1>11, <1>13 DEF IInv, Calls

LEMMA UnplugStep ==
    ASSUME IInv, NEW c \in Clients, Unplug(c) PROVE IInv' /\ NotOver
<1> DEFINE i == call[c].i
<1>1. /\ i \in Ifaces /\ call[c].kind = "remove" /\ lock = c
      /\ kern' = [kern EXCEPT ![i] = Absent]
      /\ route' = FlushedOf(i)
      /\ Return(c)
      /\ UNCHANGED <<routers, order, uplink, ip, egress, ingress, defaultVia, allocated,
                     lost, failed, stale>>
    BY DEF Unplug, Holds, IInv, TypeOK, Arguments, core, history
<1>2. Absent \in Link /\ Absent.gw = NoRouter
    BY IfaceAssumption, PluggedFacts DEF Absent, Link
<1>3. /\ kern' \in [Ifaces -> Link] /\ kern'[i].gw = NoRouter
      /\ \A j \in Ifaces \ {i} : kern'[j] = kern[j]
    BY <1>1, <1>2 DEF IInv, TypeOK
<1>4. Calls' /\ lock' = Free
    BY <1>1, ReturnFacts
<1>5. Leftover' /\ NotOver
    BY <1>1, <1>3, <1>4 DEF IInv, Leftover, NotOver, Recorded
<1>6. UplinksExist'
    BY <1>1 DEF IInv, UplinksExist, Recorded
<1>7. route' \in {NoRoute} \cup [via : Ifaces, gw : Routers]
    BY <1>1 DEF FlushedOf, IInv, TypeOK
<1>8. TypeOK'
    BY <1>1, <1>3, <1>4, <1>7 DEF IInv, TypeOK, Calls, Recorded
<1>. QED  BY <1>4, <1>5, <1>6, <1>8 DEF IInv, Calls

LEMMA BeginConditionStep ==
    ASSUME IInv, NEW c \in Clients, BeginCondition(c) PROVE IInv' /\ NotOver
<1>1. PICK i \in Recorded, x \in Conds \cup {NoCond}, d \in Directions :
        Begin(c, [Work("condition", i, uplink[i]) EXCEPT !.c = x, !.dir = d])
    BY DEF BeginCondition
<1>2. i \in Ifaces /\ uplink[i] \in Routers \cup {NoRouter} /\ "condition" \in Kinds
    BY DEF IInv, TypeOK, Recorded, Range, Kinds
<1>3. PICK o : o = [Work("condition", i, uplink[i]) EXCEPT !.c = x, !.dir = d]
    OBVIOUS
<1>4. PICK w : w = Work("condition", i, uplink[i])
    OBVIOUS
<1>5. Begun(o, "condition", i, uplink[i])
    BY <1>2, <1>3, <1>4, WorkFields
<1>. QED  BY <1>1, <1>2, <1>3, <1>5, BeginFacts DEF Begun

LEMMA SetEgressStep ==
    ASSUME IInv, NEW c \in Clients, SetEgress(c) PROVE IInv' /\ NotOver
<1> DEFINE o == call[c]
<1>1. o \in Call /\ o.kind = "condition" /\ o.i \in Ifaces /\ lock = Free
    BY DEF SetEgress, Waited, IInv, TypeOK, Arguments
<1>2. /\ UNCHANGED <<routers, order, uplink, ip, egress, ingress, defaultVia, allocated,
                     route, lost, failed>>
      /\ stale' \in BOOLEAN /\ Enter(c, o)
    BY DEF SetEgress, core, IInv, TypeOK
<1>3. SamePeers(kern')
    <2>1. CASE kern' = EgressSet(o.i, o.c)
        BY <1>1, <2>1, LinkSets, CallFields DEF IInv
    <2>2. CASE kern' = kern
        BY <2>2 DEF IInv, TypeOK, SamePeers
    <2>. QED  BY <2>1, <2>2 DEF SetEgress
<1>4. Calls'
    BY <1>1, <1>2, EnterFacts
<1>5. Leftover' /\ UplinksExist' /\ NotOver
    BY <1>1, <1>2, <1>3, LeftoverKept DEF SamePeers, IInv, UplinksExist, NotOver, Recorded
<1>6. TypeOK'
    BY <1>2, <1>3, <1>4 DEF IInv, TypeOK, Calls, Recorded, SamePeers
<1>. QED  BY <1>4, <1>5, <1>6 DEF IInv, Calls

LEMMA SetIngressStep ==
    ASSUME IInv, NEW c \in Clients, SetIngress(c) PROVE IInv' /\ NotOver
<1> DEFINE o == call[c]
<1>1. /\ o \in Call /\ o.kind = "condition" /\ o.i \in Ifaces /\ lock = c
      /\ o.c \in Conds \cup {NoCond}
    BY CallFields DEF SetIngress, Holds, IInv, TypeOK, Arguments
<1>2. /\ UNCHANGED <<routers, order, uplink, ip, defaultVia, allocated, route,
                     lost, failed, stale>>
      /\ Return(c)
    BY DEF SetIngress, history
<1>3. SamePeers(kern')
    <2>1. CASE kern' = IngressSet(o.i, o.r, o.c)
        BY <1>1, <2>1, LinkSets DEF IInv
    <2>2. CASE kern' = kern
        BY <2>2 DEF IInv, TypeOK, SamePeers
    <2>. QED  BY <2>1, <2>2 DEF SetIngress
<1>4. /\ egress' \in {egress, [egress EXCEPT ![o.i] = o.c]}
      /\ ingress' \in {ingress, [ingress EXCEPT ![o.i] = o.c]}
    BY DEF SetIngress
<1>5. /\ egress' \in [Ifaces -> Conds \cup {NoCond}]
      /\ ingress' \in [Ifaces -> Conds \cup {NoCond}]
    BY <1>1, <1>4 DEF IInv, TypeOK
<1>6. Calls'
    BY <1>1, <1>2, ReturnFacts
<1>7. Leftover' /\ UplinksExist' /\ NotOver
    BY <1>1, <1>2, <1>3, LeftoverKept DEF SamePeers, IInv, UplinksExist, NotOver, Recorded
<1>8. TypeOK'
    BY <1>2, <1>3, <1>5, <1>6 DEF IInv, TypeOK, Calls, Recorded, SamePeers
<1>. QED  BY <1>6, <1>7, <1>8 DEF IInv, Calls

LEMMA AddIfaceStep ==
    ASSUME IInv, NEW c \in Clients, AddIface(c) PROVE IInv' /\ NotOver
<1>1. PICK i \in Ifaces \ Recorded, r \in routers :
        /\ Ready(c) /\ allocated < MaxAddrs
        /\ allocated' = allocated + 1
        /\ order' = Append(order, i)
        /\ uplink' = [uplink EXCEPT ![i] = r]
        /\ ip' = [ip EXCEPT ![i] = allocated + 1]
        /\ Enter(c, Work("add", i, r))
        /\ UNCHANGED <<routers, egress, ingress, defaultVia, kernel, history>>
    BY DEF AddIface
<1>2. /\ order \in Seq(Ifaces) /\ IsInjective(order) /\ lock = Free /\ r \in Routers
      /\ UNCHANGED <<kern, route, lost, failed, stale>>
    BY <1>1 DEF IInv, TypeOK, Ready, kernel, history
<1>3. /\ order' \in Seq(Ifaces) /\ IsInjective(order')
      /\ Recorded' = Recorded \cup {i}
    BY <1>1, <1>2, AppendFacts DEF Recorded
<1>4. kern[i].gw = NoRouter
    BY <1>2 DEF IInv, Leftover
<1>5. PICK o : o = Work("add", i, r)
    OBVIOUS
<1>6. Begun(o, "add", i, r)
    <2>1. "add" \in Kinds  BY DEF Kinds
    <2>. QED  BY <1>2, <1>5, <2>1, WorkFields
<1>7. Calls'
    BY <1>1, <1>2, <1>3, <1>4, <1>5, <1>6, EnterFacts DEF Begun
<1>8. Leftover' /\ NotOver
    BY <1>2, <1>3, LeftoverKept DEF NotOver
<1>9. UplinksExist'
    BY <1>1, <1>3 DEF IInv, TypeOK, UplinksExist
<1>10. /\ uplink' \in [Ifaces -> Routers \cup {NoRouter}]
       /\ ip' \in [Ifaces -> 0..MaxAddrs] /\ allocated' \in 1..MaxAddrs
    <2>1. allocated + 1 \in 1..MaxAddrs /\ allocated + 1 \in 0..MaxAddrs
        BY <1>1, IfaceAssumption DEF IInv, TypeOK
    <2>. QED  BY <1>1, <1>2, <2>1 DEF IInv, TypeOK
<1>11. TypeOK'
    BY <1>1, <1>2, <1>3, <1>7, <1>10 DEF IInv, TypeOK, Calls
<1>. QED  BY <1>7, <1>8, <1>9, <1>11 DEF IInv, Calls

LEMMA WireAddedStep ==
    ASSUME IInv, NEW c \in Clients, WireAdded(c) PROVE IInv' /\ NotOver
<1> DEFINE o == call[c]
<1>1. /\ o \in Call /\ o.kind = "add" /\ lock = c
      /\ o.i \in Recorded /\ o.i \in Ifaces /\ o.r \in Routers
      /\ kern[o.i].gw = NoRouter /\ ip[o.i] \in 0..MaxAddrs
    BY DEF WireAdded, Holds, IInv, TypeOK, Arguments, Unwired, AboutToWire
<1>2. /\ kern' = [kern EXCEPT ![o.i] = Plugged(o.r, ip[o.i], NoCond)]
      /\ UNCHANGED <<routers, order, uplink, ip, egress, ingress, defaultVia, allocated,
                     route, lost, failed, stale>>
      /\ Return(c)
    BY DEF WireAdded, core, history
<1>3. PICK l : l = Plugged(o.r, ip[o.i], NoCond)
    OBVIOUS
<1>4. l \in Link
    BY <1>1, <1>3, PluggedFacts
<1>5. kern' \in [Ifaces -> Link] /\ \A j \in Ifaces \ {o.i} : kern'[j] = kern[j]
    BY <1>1, <1>2, <1>3, <1>4 DEF IInv, TypeOK
<1>6. Calls'
    BY <1>1, <1>2, ReturnFacts
<1>7. Leftover'
    <2>1. \A i \in Ifaces \ Recorded : kern'[i].gw \in {kern[i].gw, NoRouter}
        BY <1>1, <1>5
    <2>. QED  BY <1>1, <1>2, <2>1, LeftoverKept DEF Recorded
<1>8. UplinksExist' /\ NotOver
    BY <1>1, <1>2, <1>5 DEF IInv, UplinksExist, NotOver, Recorded
<1>9. TypeOK'
    BY <1>2, <1>5, <1>6 DEF IInv, TypeOK, Calls, Recorded
<1>. QED  BY <1>6, <1>7, <1>8, <1>9 DEF IInv, Calls

(* remove_router takes no mutex: whatever operation it meets, it only takes *)
(* away a router no recorded interface hangs on.                            *)
LEMMA RemoveRouterStep ==
    ASSUME IInv, NEW r \in Routers, RemoveRouter(r) PROVE IInv' /\ NotOver
<1>1. /\ routers' = routers \ {r} /\ ~Connected(r)
      /\ kern' = [i \in Ifaces |-> IF kern[i].gw = r THEN Absent ELSE kern[i]]
      /\ route' = IF route.gw = r THEN NoRoute ELSE route
      /\ UNCHANGED <<order, uplink, ip, egress, ingress, defaultVia, allocated,
                     lock, call, lost, failed, stale>>
    BY DEF RemoveRouter, history
<1>2. Absent \in Link /\ Absent.gw = NoRouter
    BY IfaceAssumption DEF Absent, Link
<1>3. /\ kern' \in [Ifaces -> Link]
      /\ \A i \in Ifaces : kern'[i].gw \in {kern[i].gw, NoRouter}
    BY <1>1, <1>2 DEF IInv, TypeOK
<1>4. Calls' /\ Leftover' /\ NotOver
    BY <1>1, <1>3, StillFacts
<1>5. UplinksExist'
    BY <1>1 DEF IInv, UplinksExist, Recorded, Connected
<1>6. TypeOK'
    BY <1>1, <1>3 DEF IInv, TypeOK, Recorded
<1>. QED  BY <1>4, <1>5, <1>6 DEF IInv, Calls

LEMMA StutterStep ==
    ASSUME IInv, UNCHANGED vars PROVE IInv' /\ NotOver
<1>1. UNCHANGED <<routers, order, uplink, ip, egress, ingress, defaultVia, allocated,
                  kern, route, lock, call, lost, failed, stale>>
    BY DEF vars, core, kernel, history
<1>2. Calls' /\ Leftover' /\ NotOver
    BY <1>1, StillFacts
<1>3. TypeOK' /\ UplinksExist'
    BY <1>1 DEF IInv, TypeOK, UplinksExist, Recorded
<1>. QED  BY <1>2, <1>3 DEF IInv, Calls

LEMMA Step ==
    ASSUME IInv, [Next]_vars PROVE IInv' /\ NotOver
<1>1. ASSUME NEW c \in Clients,
             \/ SetDefaultLookup(c) \/ SetDefaultRoute(c)
             \/ LinkDown(c) \/ BeginLinkUp(c) \/ LinkUp(c) \/ LinkUpRoute(c) \/ AddIp(c)
             \/ RenewIp(c) \/ ReplaceAddr(c)
      PROVE  IInv' /\ NotOver
    BY <1>1, SetDefaultLookupStep, SetDefaultRouteStep, LinkDownStep, BeginLinkUpStep,
       LinkUpStep, LinkUpRouteStep, AddIpStep, RenewIpStep, ReplaceAddrStep
<1>2. ASSUME NEW c \in Clients,
             \/ Replug(c) \/ WireReplugged(c) \/ FinishReplug(c)
             \/ RemoveIface(c) \/ Unplug(c)
             \/ BeginCondition(c) \/ SetEgress(c) \/ SetIngress(c)
             \/ AddIface(c) \/ WireAdded(c)
      PROVE  IInv' /\ NotOver
    BY <1>2, ReplugStep, WireReplugStep, FinishReplugStep, RemoveIfaceStep, UnplugStep,
       BeginConditionStep, SetEgressStep, SetIngressStep, AddIfaceStep, WireAddedStep
<1>3. ASSUME NEW r \in Routers, RemoveRouter(r) PROVE IInv' /\ NotOver
    BY <1>3, RemoveRouterStep
<1>4. CASE UNCHANGED vars
    BY <1>4, StutterStep
<1>. QED  BY <1>1, <1>2, <1>3, <1>4 DEF Next

----------------------------------------------------------------------------
(* The theorems. *)

(* The mutex protocol and the types hold at every step of every run.       *)
THEOREM Inductive == Spec => []IInv
<1>1. IInv /\ [Next]_vars => IInv'
    BY Step
<1>. QED  BY Initially, <1>1, PTL DEF Spec

(* The record and the kernel keep their types: in particular the default   *)
(* interface is always one the device has, and it has none of them twice.  *)
THEOREM Types == Spec => []TypeOK
<1>1. IInv => TypeOK
    BY DEF IInv
<1>. QED  BY Inductive, <1>1, PTL

(* However remove_router and the operations of the device interleave, a    *)
(* recorded interface's uplink belongs to a router that is still there.    *)
THEOREM UplinksSafe == Spec => []UplinksExist
<1>1. IInv => UplinksExist
    BY DEF IInv
<1>. QED  BY Inductive, <1>1, PTL

(* No operation wires a pair under a name whose pair is still there.       *)
THEOREM PairsSafe == Spec => NoPairOverPair
<1>1. IInv /\ [Next]_vars =>
        [\A i \in Ifaces :
            kern'[i].gw # kern[i].gw => NoRouter \in {kern[i].gw, kern'[i].gw}]_vars
    BY Step DEF NotOver
<1>. QED  BY Inductive, <1>1, PTL DEF Spec, NoPairOverPair

----------------------------------------------------------------------------
(* The kernel and the record.  While no operation has failed half way or   *)
(* worked from a stale copy, they differ only at the interface the holder  *)
(* of the mutex works on, and there by what it has yet to do.              *)

Undisturbed == ~failed /\ ~stale

(* The call that holds the mutex, Idle if none does. *)
Holder == IF lock = Free THEN Idle ELSE call[lock]

(* A pair into r's switch with address a and egress condition e.           *)
Plug(i, r, a, e) == /\ kern[i].gw = r /\ kern[i].addr = a /\ kern[i].eg = e
                    /\ kern[i].in \in {ingress[i], NoCond}

Wired(i) == IF i \in Recorded THEN Plug(i, uplink[i], ip[i], egress[i])
                              ELSE kern[i] = Absent

(* A name that is not recorded has no condition left over for its next use. *)
Blank == \A i \in Ifaces \ Recorded : egress[i] = NoCond /\ ingress[i] = NoCond

OthersWired == \A i \in Ifaces : i # Holder.i => Wired(i)

(* What the holder has copied is still so: only it changes the record.     *)
Copies ==
    /\ Holder.kind \in {"default", "up", "renew", "replug", "condition", "add"}
          => Holder.i \in Recorded
    /\ Holder.kind \in {"default", "up", "condition", "add"}
          => Holder.r = uplink[Holder.i]
    /\ Holder.kind \in {"default", "replug"} => Holder.c = egress[Holder.i]
    /\ Holder.kind = "up" => defaultVia = Holder.i
    /\ Holder.kind = "add" => defaultVia # Holder.i /\ egress[Holder.i] = NoCond
    /\ Holder.kind = "remove" => Holder.i \in Ifaces \ Recorded
    /\ Holder.kind = "replug" => Holder.dflt = (defaultVia = Holder.i)

(* How far the holder has come with its interface. *)
Halfway ==
    /\ Holder.kind \in {"default", "up"} => Wired(Holder.i)
    /\ Holder.kind = "renew"
          => Plug(Holder.i, uplink[Holder.i], Holder.addr, egress[Holder.i])
    /\ Holder.kind = "condition"
          => Plug(Holder.i, uplink[Holder.i], ip[Holder.i],
                  IF Holder.dir = "ingress" THEN egress[Holder.i] ELSE Holder.c)
    /\ Holder.kind = "replug" /\ Holder.at = "kernel" => kern[Holder.i] = Absent
    /\ Holder.kind = "replug" /\ Holder.at = "commit"
          => \/ Plug(Holder.i, Holder.r, Holder.addr, egress[Holder.i])
             \/ kern[Holder.i] = Absent /\ Holder.r \notin routers

(* The router the default interface is plugged into, recorded yet or not.  *)
Replugging == Holder.kind = "replug" /\ Holder.at = "commit" /\ defaultVia = Holder.i
DefaultRouter == IF Replugging THEN Holder.r ELSE uplink[defaultVia]

RouteInHand ==
    /\ \/ route \in {NoRoute, RouteVia(defaultVia, DefaultRouter)}
       \/ Holder.kind = "remove" /\ route.via = Holder.i /\ lost
    /\ Holder.kind # "up" /\ kern[defaultVia].up /\ ~lost => route # NoRoute
    /\ Holder.kind = "replug" /\ Holder.at = "kernel" /\ Holder.dflt => route = NoRoute

Matched == Blank /\ OthersWired /\ Copies /\ Halfway /\ RouteInHand
MInv == Undisturbed => Matched

(* What it comes to when nobody holds the mutex. *)
Wiring == \A i \in Ifaces : Wired(i)
RouteKept == /\ route \in {NoRoute, RouteVia(defaultVia, uplink[defaultVia])}
             /\ kern[defaultVia].up /\ ~lost => route # NoRoute
Rest == Blank /\ Wiring /\ RouteKept

LEMMA Rested ==
    ASSUME lock = Free, Matched PROVE Rest
<1>1. Holder.kind = "idle" /\ Holder.i = NoIface
    BY DEF Holder, Idle, Work
<1>2. Wiring
    BY <1>1, IfaceAssumption DEF Matched, OthersWired, Wiring
<1>3. RouteKept
    <2>1. DefaultRouter = uplink[defaultVia]
        BY <1>1 DEF DefaultRouter, Replugging
    <2>. QED  BY <1>1, <2>1 DEF Matched, RouteInHand, RouteKept
<1>. QED  BY <1>2, <1>3 DEF Matched, Rest

LEMMA FreeMatches ==
    ASSUME lock' = Free, Rest' PROVE Matched'
<1>1. Holder'.kind = "idle" /\ Holder'.i = NoIface
    BY DEF Holder, Idle, Work
<1>2. OthersWired' /\ Copies' /\ Halfway'
    BY <1>1 DEF Rest, Wiring, OthersWired, Copies, Halfway
<1>3. RouteInHand'
    <2>1. DefaultRouter' = uplink'[defaultVia']
        BY <1>1 DEF DefaultRouter, Replugging
    <2>. QED  BY <1>1, <2>1 DEF Rest, RouteInHand, RouteKept
<1>. QED  BY <1>2, <1>3 DEF Rest, Matched

LEMMA ReturnRests ==
    ASSUME NEW c, Return(c), Rest' PROVE Matched'
BY FreeMatches DEF Return

LEMMA Holding ==
    ASSUME IInv, NEW c \in Clients, lock = c PROVE Holder = call[c]
BY IfaceAssumption DEF Holder

LEMMA Entered ==
    ASSUME IInv, NEW c \in Clients, NEW o \in Call, Enter(c, o)
    PROVE  /\ Holder'.at = "kernel" /\ Holder'.kind = o.kind /\ Holder'.i = o.i
           /\ Holder'.r = o.r /\ Holder'.c = o.c /\ Holder'.dir = o.dir
           /\ Holder'.dflt = o.dflt /\ Holder'.addr = o.addr
<1>1. PICK n : n = [o EXCEPT !.at = "kernel"]
    OBVIOUS
<1>2. /\ n.at = "kernel" /\ n.kind = o.kind /\ n.i = o.i /\ n.r = o.r /\ n.c = o.c
      /\ n.dir = o.dir /\ n.dflt = o.dflt /\ n.addr = o.addr
    BY <1>1 DEF Call
<1>3. call' = [call EXCEPT ![c] = n] /\ lock' = c
    BY <1>1 DEF Enter
<1>4. call'[c] = n
    BY <1>3 DEF IInv, TypeOK
<1>5. Holder' = n
    BY <1>3, <1>4, IfaceAssumption DEF Holder
<1>. QED  BY <1>2, <1>5

(* An operation that waits for the mutex, or a whole one, leaves the holder. *)
LEMMA SameHolder ==
    ASSUME UNCHANGED <<call, lock>> PROVE Holder' = Holder
BY DEF Holder

(* What the recorded interfaces and their uplinks are. *)
LEMMA RecordFacts ==
    ASSUME IInv
    PROVE  /\ Recorded \subseteq Ifaces /\ defaultVia \in Recorded
           /\ \A i \in Recorded : uplink[i] \in Routers /\ uplink[i] # NoRouter
           /\ Absent.gw = NoRouter /\ ~Absent.up /\ NoRoute.via = NoIface
           /\ \A i \in Ifaces : \A r : RouteVia(i, r) # NoRoute /\ RouteVia(i, r).via = i
                                   /\ RouteVia(i, r).gw = r
<1>1. Recorded \subseteq Ifaces /\ defaultVia \in Recorded
    BY DEF IInv, TypeOK, Recorded, Range
<1>2. \A i \in Recorded : uplink[i] \in Routers /\ uplink[i] # NoRouter
    BY IfaceAssumption DEF IInv, TypeOK, UplinksExist
<1>3. Absent.gw = NoRouter /\ ~Absent.up /\ NoRoute.via = NoIface
    BY DEF Absent, NoRoute
<1>4. ASSUME NEW i \in Ifaces, NEW r
      PROVE  RouteVia(i, r) # NoRoute /\ RouteVia(i, r).via = i /\ RouteVia(i, r).gw = r
    <2>1. RouteVia(i, r).via = i /\ RouteVia(i, r).gw = r /\ i # NoIface
        BY IfaceAssumption DEF RouteVia
    <2>. QED  BY <1>3, <2>1
<1>. QED  BY <1>1, <1>2, <1>3, <1>4

(* A call that only begins changes nothing the holder relies on. *)
LEMMA BeginMatches ==
    ASSUME IInv, MInv, NEW c \in Clients, NEW o, Begin(c, o) PROVE MInv'
<1> SUFFICES ASSUME Undisturbed' PROVE Matched'
    BY DEF MInv
<1>1. /\ call' = [call EXCEPT ![c] = o]
      /\ call[c].at = "lock"
      /\ UNCHANGED <<routers, order, uplink, ip, egress, ingress, defaultVia,
                     kern, route, lock, lost, failed, stale>>
    BY DEF Begin, Idle, Work, core, kernel, history
<1>2. Matched
    BY <1>1 DEF MInv, Undisturbed
<1>3. lock # c
    BY <1>1 DEF IInv, Mutex
<1>4. Holder' = Holder
    BY <1>1, <1>3 DEF Holder, IInv, TypeOK
<1>5. Blank' /\ Copies'
    BY <1>1, <1>2, <1>4 DEF Matched, Blank, Copies, Recorded
<1>6. OthersWired' /\ Halfway'
    BY <1>1, <1>2, <1>4 DEF Matched, OthersWired, Halfway, Wired, Plug, Recorded
<1>7. RouteInHand'
    BY <1>1, <1>2, <1>4 DEF Matched, RouteInHand, DefaultRouter, Replugging
<1>. QED  BY <1>5, <1>6, <1>7 DEF Matched

LEMMA SetDefaultLookupMatches ==
    ASSUME IInv, MInv, NEW c \in Clients, SetDefaultLookup(c) PROVE MInv'
<1> SUFFICES ASSUME Undisturbed' PROVE Matched'
    BY DEF MInv
<1>1. PICK i \in Recorded :
        /\ Ready(c)
        /\ Enter(c, [Work("default", i, uplink[i]) EXCEPT !.c = egress[i]])
        /\ UNCHANGED <<core, kernel, history>>
    BY DEF SetDefaultLookup
<1>2. /\ i \in Ifaces /\ uplink[i] \in Routers /\ egress[i] \in Conds \cup {NoCond}
      /\ lock = Free
      /\ UNCHANGED <<routers, order, uplink, ip, egress, ingress, defaultVia,
                     kern, route, lost, failed, stale>>
    BY <1>1, RecordFacts DEF IInv, TypeOK, Ready, core, kernel, history
<1>3. Rest
    BY <1>2, Rested DEF MInv, Undisturbed
<1>4. PICK w : w = Work("default", i, uplink[i])
    OBVIOUS
<1>5. PICK o : o = [w EXCEPT !.c = egress[i]]
    OBVIOUS
<1>6. Begun(o, "default", i, uplink[i]) /\ o.c = egress[i]
    <2>1. "default" \in Kinds  BY DEF Kinds
    <2>2. Begun(o, "default", i, uplink[i]) /\ Begun(w, "default", i, uplink[i])
        BY <1>2, <1>4, <1>5, <2>1, WorkFields
    <2>. QED  BY <1>5, <2>2 DEF Begun, Call
<1>7. /\ Holder'.kind = "default" /\ Holder'.i = i /\ Holder'.r = uplink[i]
      /\ Holder'.c = egress[i]
    BY <1>1, <1>4, <1>5, <1>6, Entered DEF Begun
<1>8. Blank' /\ Copies'
    BY <1>1, <1>2, <1>3, <1>7 DEF Rest, Blank, Copies, Recorded
<1>9. OthersWired' /\ Halfway'
    BY <1>2, <1>3, <1>7 DEF Rest, Wiring, OthersWired, Halfway, Wired, Plug, Recorded
<1>10. RouteInHand'
    BY <1>2, <1>3, <1>7 DEF Rest, RouteKept, RouteInHand, DefaultRouter, Replugging
<1>. QED  BY <1>8, <1>9, <1>10 DEF Matched

LEMMA SetDefaultRouteMatches ==
    ASSUME IInv, MInv, NEW c \in Clients, SetDefaultRoute(c) PROVE MInv'
<1> SUFFICES ASSUME Undisturbed' PROVE Matched'
    BY DEF MInv
<1> DEFINE o == call[c]
<1>1. /\ lock = c /\ o.kind = "default" /\ Accepts(o.i, o.r)
      /\ route' = RouteVia(o.i, o.r)
      /\ kern' = EgressSet(o.i, o.c)
      /\ defaultVia' = o.i
      /\ Return(c)
      /\ UNCHANGED <<routers, order, uplink, ip, egress, ingress, failed, stale>>
    BY DEF SetDefaultRoute, Holds, Replaced, Accepts, Fail, Undisturbed
<1>2. Matched
    BY <1>1 DEF MInv, Undisturbed
<1>3. Holder = o
    BY <1>1, Holding
<1>4. /\ o.i \in Recorded /\ o.i \in Ifaces /\ o.r = uplink[o.i] /\ o.c = egress[o.i]
    BY <1>1, <1>2, <1>3, RecordFacts DEF Matched, Copies
<1>5. Wiring
    BY <1>1, <1>2, <1>3 DEF Matched, OthersWired, Halfway, Wiring
<1>6. kern[o.i] \in Link /\ kern[o.i].eg = egress[o.i]
    BY <1>4, <1>5 DEF Wiring, Wired, Plug, IInv, TypeOK
<1>7. kern' = kern
    <2>1. PICK k : k = kern[o.i]
        OBVIOUS
    <2>2. kern' = [kern EXCEPT ![o.i] = [k EXCEPT !.eg = k.eg]]
        BY <1>1, <1>4, <1>6, <2>1 DEF EgressSet
    <2>3. [k EXCEPT !.eg = k.eg] = k
        BY <1>6, <2>1 DEF Link
    <2>. QED  BY <1>4, <2>1, <2>2, <2>3 DEF IInv, TypeOK
<1>8. Blank' /\ Wiring'
    BY <1>1, <1>2, <1>5, <1>7 DEF Matched, Blank, Wiring, Wired, Plug, Recorded
<1>9. RouteKept'
    BY <1>1, <1>4, RecordFacts DEF RouteKept
<1>. QED  BY <1>1, <1>8, <1>9, ReturnRests DEF Rest

(* What ip link and ip addr leave of a link. *)
LEMMA LinkKept ==
    ASSUME TypeOK, NEW i \in Ifaces, NEW k, k = kern[i],
           \/ \E b : kern' = [kern EXCEPT ![i] = [k EXCEPT !.up = b]]
           \/ kern' = [kern EXCEPT ![i] = [k EXCEPT !.extra = TRUE]]
    PROVE  /\ \A j \in Ifaces \ {i} : kern'[j] = kern[j]
           /\ kern'[i].gw = kern[i].gw /\ kern'[i].addr = kern[i].addr
           /\ kern'[i].eg = kern[i].eg /\ kern'[i].in = kern[i].in
<1>1. k \in Link
    BY DEF TypeOK
<1>2. PICK n : n = kern'[i]
    OBVIOUS
<1>3. (\E b : n = [k EXCEPT !.up = b]) \/ n = [k EXCEPT !.extra = TRUE]
    BY <1>2 DEF TypeOK
<1>4. n.gw = k.gw /\ n.addr = k.addr /\ n.eg = k.eg /\ n.in = k.in
    BY <1>1, <1>3 DEF Link
<1>. QED  BY <1>2, <1>4 DEF TypeOK

(* So it leaves the pairs of recorded interfaces plugged as they were. *)
LEMMA WiringKept ==
    ASSUME IInv, Wiring, NEW i \in Recorded, i \in Ifaces,
           UNCHANGED <<order, uplink, ip, egress, ingress>>,
           \A j \in Ifaces \ {i} : kern'[j] = kern[j],
           kern'[i].gw = kern[i].gw, kern'[i].addr = kern[i].addr,
           kern'[i].eg = kern[i].eg, kern'[i].in = kern[i].in
    PROVE  Wiring'
<1> SUFFICES ASSUME NEW j \in Ifaces PROVE Wired(j)'
    BY DEF Wiring
<1>. QED  BY DEF Wiring, Wired, Plug, Recorded

LEMMA LinkDownMatches ==
    ASSUME IInv, MInv, NEW c \in Clients, LinkDown(c) PROVE MInv'
<1> SUFFICES ASSUME Undisturbed' PROVE Matched'
    BY DEF MInv
<1>1. PICK i \in Recorded :
        /\ kern' = [kern EXCEPT ![i].up = FALSE]
        /\ route' = FlushedOf(i)
        /\ lock = Free
        /\ UNCHANGED <<core, lock, call, history>>
    BY DEF LinkDown, Ready
<1>2. /\ i \in Ifaces
      /\ UNCHANGED <<routers, order, uplink, ip, egress, ingress, defaultVia,
                     lost, failed, stale>>
    BY <1>1, RecordFacts DEF core, history
<1>3. Rest
    BY <1>1, <1>2, Rested DEF MInv, Undisturbed
<1>4. PICK k : k = kern[i]
    OBVIOUS
<1>5. k \in Link /\ kern' = [kern EXCEPT ![i] = [k EXCEPT !.up = FALSE]]
    BY <1>1, <1>2, <1>4 DEF IInv, TypeOK
<1>6. ~kern'[i].up
    BY <1>2, <1>5 DEF Link, IInv, TypeOK
<1>7. /\ \A j \in Ifaces \ {i} : kern'[j] = kern[j]
      /\ kern'[i].gw = kern[i].gw /\ kern'[i].addr = kern[i].addr
      /\ kern'[i].eg = kern[i].eg /\ kern'[i].in = kern[i].in
    BY <1>2, <1>4, <1>5, LinkKept DEF IInv
<1>8. Blank' /\ Wiring'
    BY <1>2, <1>3, <1>7, WiringKept DEF Rest, Blank, Recorded
<1>9. RouteKept'
    BY <1>1, <1>2, <1>3, <1>6, <1>7, RecordFacts DEF Rest, RouteKept, FlushedOf
<1>10. Rest'
    BY <1>8, <1>9 DEF Rest
<1>. QED  BY <1>1, <1>10, FreeMatches

LEMMA AddIpMatches ==
    ASSUME IInv, MInv, NEW c \in Clients, AddIp(c) PROVE MInv'
<1> SUFFICES ASSUME Undisturbed' PROVE Matched'
    BY DEF MInv
<1>1. PICK i \in Recorded :
        /\ kern' = [kern EXCEPT ![i].extra = TRUE]
        /\ lock = Free
        /\ UNCHANGED <<core, route, lock, call, history>>
    BY DEF AddIp, Ready
<1>2. /\ i \in Ifaces
      /\ UNCHANGED <<routers, order, uplink, ip, egress, ingress, defaultVia,
                     route, lost, failed, stale>>
    BY <1>1, RecordFacts DEF core, history
<1>3. Rest
    BY <1>1, <1>2, Rested DEF MInv, Undisturbed
<1>4. PICK k : k = kern[i]
    OBVIOUS
<1>5. k \in Link /\ kern' = [kern EXCEPT ![i] = [k EXCEPT !.extra = TRUE]]
    BY <1>1, <1>2, <1>4 DEF IInv, TypeOK
<1>6. kern'[i].up = kern[i].up
    BY <1>2, <1>4, <1>5 DEF Link, IInv, TypeOK
<1>7. /\ \A j \in Ifaces \ {i} : kern'[j] = kern[j]
      /\ kern'[i].gw = kern[i].gw /\ kern'[i].addr = kern[i].addr
      /\ kern'[i].eg = kern[i].eg /\ kern'[i].in = kern[i].in
    BY <1>2, <1>4, <1>5, LinkKept DEF IInv
<1>8. Blank' /\ Wiring'
    BY <1>2, <1>3, <1>7, WiringKept DEF Rest, Blank, Recorded
<1>9. RouteKept'
    BY <1>2, <1>3, <1>6, <1>7, RecordFacts DEF Rest, RouteKept
<1>10. Rest'
    BY <1>8, <1>9 DEF Rest
<1>. QED  BY <1>1, <1>10, FreeMatches

(* link_up with copies that are still what is recorded. *)
LEMMA LinkUpMatches ==
    ASSUME IInv, MInv, NEW c \in Clients, LinkUp(c) PROVE MInv'
<1> SUFFICES ASSUME Undisturbed' PROVE Matched'
    BY DEF MInv
<1> DEFINE o == call[c]
<1>1. /\ o \in Call /\ o.kind = "up" /\ o.i \in Ifaces /\ lock = Free
      /\ UNCHANGED <<routers, order, uplink, ip, egress, ingress, defaultVia,
                     route, lost, failed>>
      /\ (stale => stale')
    BY DEF LinkUp, Waited, IInv, TypeOK, Arguments, core, kernel, history
<1>2. Rest
    BY <1>1, Rested DEF MInv, Undisturbed
<1>3. CASE Return(c) /\ UNCHANGED kern
    <2>1. Rest'
        BY <1>1, <1>2, <1>3
        DEF Rest, Blank, Wiring, Wired, Plug, RouteKept, Recorded
    <2>. QED  BY <1>3, <2>1, ReturnRests
<1>4. CASE /\ kern' = [kern EXCEPT ![o.i].up = TRUE]
           /\ IF o.dflt THEN Enter(c, o) ELSE Return(c)
           /\ o.dflt = (defaultVia = o.i) /\ o.i \in Recorded /\ o.r = uplink[o.i]
    <2>1. PICK k : k = kern[o.i]
        OBVIOUS
    <2>2. k \in Link /\ kern' = [kern EXCEPT ![o.i] = [k EXCEPT !.up = TRUE]]
        BY <1>1, <1>4, <2>1 DEF IInv, TypeOK
    <2>3. /\ \A j \in Ifaces \ {o.i} : kern'[j] = kern[j]
          /\ kern'[o.i].gw = kern[o.i].gw /\ kern'[o.i].addr = kern[o.i].addr
          /\ kern'[o.i].eg = kern[o.i].eg /\ kern'[o.i].in = kern[o.i].in
        BY <1>1, <2>1, <2>2, LinkKept DEF IInv
    <2>4. Blank' /\ Wiring'
        BY <1>1, <1>2, <1>4, <2>3, WiringKept DEF Rest, Blank, Recorded
    <2>5. CASE ~o.dflt
        <3>1. defaultVia # o.i /\ kern'[defaultVia] = kern[defaultVia]
            BY <1>4, <2>3, <2>5, RecordFacts
        <3>2. RouteKept'
            BY <1>1, <1>2, <3>1 DEF Rest, RouteKept
        <3>. QED  BY <1>4, <2>4, <2>5, <3>2, ReturnRests DEF Rest
    <2>6. CASE o.dflt
        <3>1. Holder'.kind = "up" /\ Holder'.i = o.i /\ Holder'.r = o.r
            BY <1>1, <1>4, <2>6, Entered
        <3>2. OthersWired' /\ Copies' /\ Halfway'
            BY <1>1, <1>4, <2>4, <2>6, <3>1
            DEF Wiring, OthersWired, Copies, Halfway, Recorded
        <3>3. RouteInHand'
            BY <1>1, <1>2, <3>1 DEF Rest, RouteKept, RouteInHand, DefaultRouter, Replugging
        <3>. QED  BY <2>4, <3>2, <3>3 DEF Matched
    <2>. QED  BY <1>1, <2>5, <2>6
<1>5. (Return(c) /\ UNCHANGED kern)
      \/ (/\ kern' = [kern EXCEPT ![o.i].up = TRUE]
          /\ IF o.dflt THEN Enter(c, o) ELSE Return(c)
          /\ o.dflt = (defaultVia = o.i) /\ o.i \in Recorded /\ o.r = uplink[o.i])
    BY <1>1 DEF LinkUp, Undisturbed, kernel
<1>. QED  BY <1>3, <1>4, <1>5

LEMMA LinkUpRouteMatches ==
    ASSUME IInv, MInv, NEW c \in Clients, LinkUpRoute(c) PROVE MInv'
<1> SUFFICES ASSUME Undisturbed' PROVE Matched'
    BY DEF MInv
<1> DEFINE o == call[c]
<1>1. /\ lock = c /\ o.kind = "up"
      /\ route' = RouteVia(o.i, o.r)
      /\ Return(c)
      /\ UNCHANGED <<routers, order, uplink, ip, egress, ingress, defaultVia,
                     kern, failed, stale>>
    BY DEF LinkUpRoute, Holds, Replaced, Accepts, Fail, Undisturbed, core
<1>2. Matched
    BY <1>1 DEF MInv, Undisturbed
<1>3. Holder = o
    BY <1>1, Holding
<1>4. o.i \in Ifaces /\ o.r = uplink[o.i] /\ defaultVia = o.i
    BY <1>1, <1>2, <1>3, RecordFacts DEF Matched, Copies
<1>5. Wiring
    BY <1>1, <1>2, <1>3 DEF Matched, OthersWired, Halfway, Wiring
<1>6. Blank' /\ Wiring'
    BY <1>1, <1>2, <1>5 DEF Matched, Blank, Wiring, Wired, Plug, Recorded
<1>7. RouteKept'
    BY <1>1, <1>4, RecordFacts DEF RouteKept
<1>. QED  BY <1>1, <1>6, <1>7, ReturnRests DEF Rest

LEMMA RenewIpMatches ==
    ASSUME IInv, MInv, NEW c \in Clients, RenewIp(c) PROVE MInv'
<1> SUFFICES ASSUME Undisturbed' PROVE Matched'
    BY DEF MInv
<1>1. PICK i \in Recorded :
        /\ Ready(c)
        /\ ip' = [ip EXCEPT ![i] = allocated + 1]
        /\ Enter(c, [Work("renew", i, NoRouter) EXCEPT !.addr = ip[i]])
        /\ UNCHANGED <<routers, order, uplink, egress, ingress, defaultVia, kernel, history>>
    BY DEF RenewIp
<1>2. /\ i \in Ifaces /\ ip[i] \in 0..MaxAddrs /\ lock = Free
      /\ UNCHANGED <<kern, route, lost, failed, stale>>
    BY <1>1, RecordFacts DEF IInv, TypeOK, Ready, kernel, history
<1>3. Rest
    BY <1>2, Rested DEF MInv, Undisturbed
<1>4. PICK w : w = Work("renew", i, NoRouter)
    OBVIOUS
<1>5. PICK o : o = [w EXCEPT !.addr = ip[i]]
    OBVIOUS
<1>6. Begun(o, "renew", i, NoRouter) /\ o.addr = ip[i]
    <2>1. "renew" \in Kinds  BY DEF Kinds
    <2>2. Begun(o, "renew", i, NoRouter) /\ Begun(w, "renew", i, NoRouter)
        BY <1>2, <1>4, <1>5, <2>1, WorkFields
    <2>. QED  BY <1>5, <2>2 DEF Begun, Call
<1>7. Holder'.kind = "renew" /\ Holder'.i = i /\ Holder'.addr = ip[i]
    BY <1>1, <1>4, <1>5, <1>6, Entered DEF Begun
<1>8. Blank' /\ Copies'
    BY <1>1, <1>2, <1>3, <1>7 DEF Rest, Blank, Copies, Recorded
<1>9. \A j \in Ifaces \ {i} : ip'[j] = ip[j]
    BY <1>1, <1>2 DEF IInv, TypeOK
<1>10. OthersWired' /\ Halfway'
    BY <1>1, <1>2, <1>3, <1>7, <1>9
    DEF Rest, Wiring, OthersWired, Halfway, Wired, Plug, Recorded
<1>11. RouteInHand'
    BY <1>1, <1>2, <1>3, <1>7 DEF Rest, RouteKept, RouteInHand, DefaultRouter, Replugging
<1>. QED  BY <1>8, <1>10, <1>11 DEF Matched

LEMMA ReplaceAddrMatches ==
    ASSUME IInv, MInv, NEW c \in Clients, ReplaceAddr(c) PROVE MInv'
<1> SUFFICES ASSUME Undisturbed' PROVE Matched'
    BY DEF MInv
<1> DEFINE o == call[c]
<1>1. /\ lock = c /\ o \in Call /\ o.kind = "renew" /\ o.i \in Ifaces
      /\ kern' = [kern EXCEPT ![o.i] = Readdressed(@, o.addr, ip[o.i])]
      /\ route' \in {route, FlushedOf(o.i)}
      /\ lost' = (lost \/ route' # route)
      /\ Return(c)
      /\ UNCHANGED <<routers, order, uplink, ip, egress, ingress, defaultVia, failed, stale>>
    BY DEF ReplaceAddr, Holds, Fail, Undisturbed, core, IInv, TypeOK, Arguments
<1>2. Matched
    BY <1>1 DEF MInv, Undisturbed
<1>3. Holder = o
    BY <1>1, Holding
<1>4. o.i \in Recorded /\ Plug(o.i, uplink[o.i], o.addr, egress[o.i])
    BY <1>1, <1>2, <1>3 DEF Matched, Copies, Halfway
<1>5. PICK k : k = kern[o.i]
    OBVIOUS
<1>6. PICK n : n = Readdressed(k, o.addr, ip[o.i])
    OBVIOUS
<1>7. /\ k \in Link
      /\ n.gw = k.gw /\ n.up = k.up /\ n.addr = ip[o.i] /\ n.eg = k.eg /\ n.in = k.in
    <2>1. k \in Link  BY <1>1, <1>5 DEF IInv, TypeOK
    <2>. QED  BY <1>6, <2>1 DEF Link, Readdressed
<1>8. kern'[o.i] = n /\ \A j \in Ifaces \ {o.i} : kern'[j] = kern[j]
    BY <1>1, <1>5, <1>6 DEF IInv, TypeOK
<1>9. Wiring'
    <2>1. UNCHANGED <<order, uplink, ip, egress, ingress>>
        BY <1>1
    <2>2. /\ kern'[o.i].gw = uplink[o.i] /\ kern'[o.i].addr = ip[o.i]
          /\ kern'[o.i].eg = egress[o.i] /\ kern'[o.i].in \in {ingress[o.i], NoCond}
        BY <1>4, <1>5, <1>7, <1>8 DEF Plug
    <2>3. ASSUME NEW j \in Ifaces, j # o.i PROVE Wired(j)'
        <3>1. Wired(j)
            BY <1>2, <1>3, <2>3 DEF Matched, OthersWired
        <3>. QED  BY <1>8, <2>1, <2>3, <3>1 DEF Wired, Plug, Recorded
    <2>4. PICK i : i = o.i
        OBVIOUS
    <2>5. Wired(i)'
        BY <1>4, <2>1, <2>2, <2>4 DEF Wired, Plug, Recorded
    <2>. QED  BY <2>3, <2>4, <2>5 DEF Wiring
<1>10. Blank'
    BY <1>1, <1>2 DEF Matched, Blank, Recorded
<1>11. kern'[defaultVia].up = kern[defaultVia].up
    BY <1>5, <1>7, <1>8, RecordFacts
<1>12. RouteKept'
    <2>1. RouteKept
        BY <1>1, <1>2, <1>3 DEF Matched, RouteInHand, RouteKept, DefaultRouter, Replugging
    <2>. QED  BY <1>1, <1>11, <2>1 DEF RouteKept, FlushedOf
<1>. QED  BY <1>1, <1>9, <1>10, <1>12, ReturnRests DEF Rest

(* replug: the old pair is gone, the new one is up with the old condition, *)
(* and then the record follows.                                            *)
LEMMA ReplugMatches ==
    ASSUME IInv, MInv, NEW c \in Clients, Replug(c) PROVE MInv'
<1> SUFFICES ASSUME Undisturbed' PROVE Matched'
    BY DEF MInv
<1>1. PICK i \in Recorded, r \in routers :
        /\ Ready(c) /\ allocated < MaxAddrs
        /\ kern' = [kern EXCEPT ![i] = Absent]
        /\ route' = FlushedOf(i)
        /\ Enter(c, [Work("replug", i, r) EXCEPT !.addr = allocated + 1, !.c = egress[i],
                                                 !.dflt = (defaultVia = i)])
        /\ UNCHANGED <<routers, order, uplink, ip, egress, ingress, defaultVia, history>>
    BY DEF Replug
<1>2. /\ i \in Ifaces /\ r \in Routers /\ egress[i] \in Conds \cup {NoCond}
      /\ lock = Free /\ UNCHANGED <<lost, failed, stale>>
    BY <1>1, RecordFacts DEF IInv, TypeOK, Ready, history
<1>3. Rest
    BY <1>2, Rested DEF MInv, Undisturbed
<1>4. PICK w : w = Work("replug", i, r)
    OBVIOUS
<1>5. PICK a \in 0..MaxAddrs : a = allocated + 1
    BY <1>1, IfaceAssumption DEF IInv, TypeOK
<1>6. PICK b \in BOOLEAN : b = (defaultVia = i)
    OBVIOUS
<1>7. PICK o : o = [w EXCEPT !.addr = a, !.c = egress[i], !.dflt = b]
    OBVIOUS
<1>8. Begun(o, "replug", i, r) /\ o.c = egress[i] /\ o.dflt = b
    <2>1. "replug" \in Kinds  BY DEF Kinds
    <2>2. Begun(o, "replug", i, r) /\ Begun(w, "replug", i, r)
        BY <1>2, <1>4, <1>7, <2>1, WorkFields
    <2>. QED  BY <1>7, <2>2 DEF Begun, Call
<1>9. /\ Holder'.kind = "replug" /\ Holder'.at = "kernel" /\ Holder'.i = i
      /\ Holder'.r = r /\ Holder'.c = egress[i] /\ Holder'.dflt = (defaultVia = i)
    BY <1>1, <1>4, <1>5, <1>6, <1>7, <1>8, Entered DEF Begun
<1>10. kern'[i] = Absent /\ \A j \in Ifaces \ {i} : kern'[j] = kern[j]
    BY <1>1, <1>2 DEF IInv, TypeOK
<1>11. Blank' /\ Copies' /\ Halfway'
    BY <1>1, <1>2, <1>3, <1>9, <1>10 DEF Rest, Blank, Copies, Halfway, Recorded
<1>12. OthersWired'
    BY <1>1, <1>3, <1>9, <1>10 DEF Rest, Wiring, OthersWired, Wired, Plug, Recorded
<1>13. RouteInHand'
    <2>1. route' \in {NoRoute, route} /\ (defaultVia = i => route' = NoRoute)
        BY <1>1, <1>2, <1>3, RecordFacts DEF FlushedOf, Rest, RouteKept
    <2>2. defaultVia # i => route' = route
        BY <1>1, <1>2, <1>3, RecordFacts DEF FlushedOf, Rest, RouteKept
    <2>3. ~Replugging'
        <3>1. Holder'.at = "kernel"
            BY <1>9
        <3>. QED  BY <3>1 DEF Replugging
    <2>4. UNCHANGED <<uplink, defaultVia, lost>> /\ DefaultRouter' = uplink[defaultVia]
        BY <1>1, <1>2, <2>3 DEF DefaultRouter
    <2>5. RouteKept
        BY <1>3 DEF Rest
    <2>6. route' \in {NoRoute, RouteVia(defaultVia, uplink[defaultVia])}
        BY <2>1, <2>5 DEF RouteKept
    <2>7. CASE defaultVia = i
        <3>1. route' = NoRoute /\ ~kern'[defaultVia].up
            BY <1>10, <2>1, <2>7, RecordFacts
        <3>. QED  BY <2>4, <3>1 DEF RouteInHand
    <2>8. CASE defaultVia # i
        <3>1. kern'[defaultVia] = kern[defaultVia]
            BY <1>10, <2>8, RecordFacts
        <3>2. ~Holder'.dflt
            BY <1>9, <2>8
        <3>. QED  BY <2>2, <2>4, <2>5, <2>6, <2>8, <3>1, <3>2 DEF RouteKept, RouteInHand
    <2>. QED  BY <2>7, <2>8
<1>. QED  BY <1>11, <1>12, <1>13 DEF Matched

LEMMA WireReplugMatches ==
    ASSUME IInv, MInv, NEW c \in Clients, WireReplugged(c) PROVE MInv'
<1> SUFFICES ASSUME Undisturbed' PROVE Matched'
    BY DEF MInv
<1> DEFINE o == call[c]
<1>1. /\ lock = c /\ o \in Call /\ o.kind = "replug" /\ o.at = "kernel" /\ o.r \in routers
      /\ kern' = [kern EXCEPT ![o.i] = Plugged(o.r, o.addr, o.c)]
      /\ route' = IF o.dflt /\ route = NoRoute THEN RouteVia(o.i, o.r) ELSE route
      /\ lost' = (lost /\ ~o.dflt)
      /\ call' = [call EXCEPT ![c].at = "commit"]
      /\ UNCHANGED <<core, lock, failed, stale>>
    BY DEF WireReplugged, Holds, Fail, Undisturbed, IInv, TypeOK
<1>2. UNCHANGED <<routers, order, uplink, ip, egress, ingress, defaultVia, failed, stale>>
    BY <1>1 DEF core
<1>3. Matched
    BY <1>1, <1>2 DEF MInv, Undisturbed
<1>4. Holder = o
    BY <1>1, Holding
<1>5. PICK n : n = [o EXCEPT !.at = "commit"]
    OBVIOUS
<1>6. /\ n.kind = "replug" /\ n.at = "commit" /\ n.i = o.i /\ n.r = o.r
      /\ n.c = o.c /\ n.addr = o.addr /\ n.dflt = o.dflt
    BY <1>1, <1>5 DEF Call
<1>7. Holder' = n
    <2>1. call'[c] = n
        BY <1>1, <1>5 DEF IInv, TypeOK
    <2>. QED  BY <1>1, <2>1, IfaceAssumption DEF Holder
<1>8. /\ o.i \in Recorded /\ o.i \in Ifaces /\ o.c = egress[o.i]
      /\ o.dflt = (defaultVia = o.i)
    BY <1>1, <1>3, <1>4, RecordFacts DEF Matched, Copies
<1>9. PICK l : l = Plugged(o.r, o.addr, o.c)
    OBVIOUS
<1>10. l.gw = o.r /\ l.addr = o.addr /\ l.eg = egress[o.i] /\ l.in = NoCond
    BY <1>8, <1>9 DEF Plugged, Absent
<1>11. kern'[o.i] = l /\ \A j \in Ifaces : j # o.i => kern'[j] = kern[j]
    BY <1>1, <1>8, <1>9 DEF IInv, TypeOK
<1>12. Blank' /\ Copies'
    BY <1>1, <1>2, <1>3, <1>4, <1>6, <1>7 DEF Matched, Blank, Copies, Recorded
<1>13. OthersWired'
    BY <1>2, <1>3, <1>4, <1>6, <1>7, <1>11
    DEF Matched, OthersWired, Wired, Plug, Recorded
<1>14. Halfway'
    <2>1. Plug(Holder.i, Holder.r, Holder.addr, egress[Holder.i])'
        BY <1>2, <1>6, <1>7, <1>10, <1>11 DEF Plug
    <2>. QED  BY <1>6, <1>7, <2>1 DEF Halfway
<1>15. RouteInHand'
    <2>1. /\ route \in {NoRoute, RouteVia(defaultVia, uplink[defaultVia])}
          /\ o.dflt => route = NoRoute
          /\ kern[defaultVia].up /\ ~lost => route # NoRoute
        BY <1>1, <1>3, <1>4 DEF Matched, RouteInHand, DefaultRouter, Replugging
    <2>2. CASE o.dflt
        <3>1. DefaultRouter' = o.r /\ route' = RouteVia(o.i, o.r)
            BY <1>1, <1>2, <1>6, <1>7, <1>8, <2>1, <2>2 DEF DefaultRouter, Replugging
        <3>. QED  BY <1>2, <1>6, <1>7, <1>8, <2>2, <3>1, RecordFacts DEF RouteInHand
    <2>3. CASE ~o.dflt
        <3>1. DefaultRouter' = uplink[defaultVia] /\ route' = route /\ lost' = lost
              /\ kern'[defaultVia] = kern[defaultVia]
            BY <1>1, <1>2, <1>6, <1>7, <1>8, <1>11, <2>3, RecordFacts
            DEF DefaultRouter, Replugging, IInv, TypeOK
        <3>. QED  BY <1>2, <1>6, <1>7, <2>1, <3>1 DEF RouteInHand
    <2>. QED  BY <2>2, <2>3
<1>. QED  BY <1>12, <1>13, <1>14, <1>15 DEF Matched

LEMMA FinishReplugMatches ==
    ASSUME IInv, MInv, NEW c \in Clients, FinishReplug(c) PROVE MInv'
<1> SUFFICES ASSUME Undisturbed' PROVE Matched'
    BY DEF MInv
<1> DEFINE o == call[c]
<1>1. /\ lock = c /\ o.kind = "replug" /\ o.at = "commit" /\ o.r \in routers
      /\ uplink' = [uplink EXCEPT ![o.i] = o.r]
      /\ ip' = [ip EXCEPT ![o.i] = o.addr]
      /\ Return(c)
      /\ UNCHANGED <<routers, order, egress, ingress, defaultVia, kernel, history>>
    BY DEF FinishReplug, Holds, Fail, Undisturbed
<1>2. UNCHANGED <<order, egress, ingress, defaultVia, kern, route, lost, failed, stale>>
    BY <1>1 DEF kernel, history
<1>3. Matched
    BY <1>2 DEF MInv, Undisturbed
<1>4. Holder = o
    BY <1>1, Holding
<1>5. /\ o.i \in Recorded /\ o.i \in Ifaces /\ Plug(o.i, o.r, o.addr, egress[o.i])
    BY <1>1, <1>3, <1>4, RecordFacts DEF Matched, Copies, Halfway
<1>6. /\ uplink'[o.i] = o.r /\ ip'[o.i] = o.addr
      /\ \A j \in Ifaces : j # o.i => uplink'[j] = uplink[j] /\ ip'[j] = ip[j]
    BY <1>1, <1>5 DEF IInv, TypeOK
<1>7. Blank'
    BY <1>2, <1>3 DEF Matched, Blank, Recorded
<1>8. Wiring'
    <2>1. ASSUME NEW j \in Ifaces, j # o.i PROVE Wired(j)'
        <3>1. Wired(j)
            BY <1>3, <1>4, <2>1 DEF Matched, OthersWired
        <3>. QED  BY <1>2, <1>6, <2>1, <3>1 DEF Wired, Plug, Recorded
    <2>2. PICK i : i = o.i
        OBVIOUS
    <2>3. Wired(i)'
        BY <1>2, <1>5, <1>6, <2>2 DEF Wired, Plug, Recorded
    <2>. QED  BY <2>1, <2>2, <2>3 DEF Wiring
<1>9. RouteKept'
    <2>1. uplink'[defaultVia] = DefaultRouter
        BY <1>1, <1>4, <1>6, RecordFacts DEF DefaultRouter, Replugging
    <2>. QED  BY <1>1, <1>2, <1>3, <1>4, <2>1 DEF Matched, RouteInHand, RouteKept
<1>. QED  BY <1>1, <1>7, <1>8, <1>9, ReturnRests DEF Rest

(* remove: the record is gone and the pair is not yet; what is left of the *)
(* default route goes with the pair.                                       *)
LEMMA RemoveIfaceMatches ==
    ASSUME IInv, IInv', MInv, NEW c \in Clients, RemoveIface(c) PROVE MInv'
<1> SUFFICES ASSUME Undisturbed' PROVE Matched'
    BY DEF MInv
<1>1. PICK k \in DOMAIN order :
        /\ Ready(c)
        /\ order' = RemoveAt(order, k)
        /\ defaultVia' = IF defaultVia = order[k] THEN order'[1] ELSE defaultVia
        /\ lost' = (lost \/ defaultVia = order[k])
        /\ Enter(c, Work("remove", order[k], NoRouter))
        /\ uplink' = [uplink EXCEPT ![order[k]] = NoRouter]
        /\ ip' = [ip EXCEPT ![order[k]] = 0]
        /\ egress' = [egress EXCEPT ![order[k]] = NoCond]
        /\ ingress' = [ingress EXCEPT ![order[k]] = NoCond]
        /\ UNCHANGED <<routers, kernel, failed, stale>>
    BY DEF RemoveIface
<1>2. PICK i : i = order[k]
    OBVIOUS
<1>3. /\ order \in Seq(Ifaces) /\ IsInjective(order) /\ lock = Free /\ i \in Ifaces
      /\ i \in Recorded
      /\ UNCHANGED <<routers, kern, route, failed, stale>>
    BY <1>1, <1>2 DEF IInv, TypeOK, Ready, kernel, Recorded, Range
<1>4. Recorded' = Recorded \ {i}
    BY <1>1, <1>2, <1>3, RemoveAtFacts DEF Recorded
<1>5. Rest
    BY <1>3, Rested DEF MInv, Undisturbed
<1>6. PICK o : o = Work("remove", i, NoRouter)
    OBVIOUS
<1>7. Begun(o, "remove", i, NoRouter)
    <2>1. "remove" \in Kinds  BY DEF Kinds
    <2>. QED  BY <1>3, <1>6, <2>1, WorkFields
<1>8. Holder'.kind = "remove" /\ Holder'.i = i
    BY <1>1, <1>2, <1>6, <1>7, Entered DEF Begun
<1>9. /\ egress'[i] = NoCond /\ ingress'[i] = NoCond
      /\ \A j \in Ifaces : j # i =>
            /\ uplink'[j] = uplink[j] /\ ip'[j] = ip[j]
            /\ egress'[j] = egress[j] /\ ingress'[j] = ingress[j]
    BY <1>1, <1>2, <1>3 DEF IInv, TypeOK
<1>10. Blank' /\ Copies' /\ Halfway'
    BY <1>3, <1>4, <1>5, <1>8, <1>9 DEF Rest, Blank, Copies, Halfway
<1>11. OthersWired'
    <2> SUFFICES ASSUME NEW j \in Ifaces, j # i PROVE Wired(j)'
        BY <1>8 DEF OthersWired
    <2>1. Wired(j) /\ (j \in Recorded' <=> j \in Recorded)
        BY <1>4, <1>5 DEF Rest, Wiring
    <2>. QED  BY <1>3, <1>9, <2>1 DEF Wired, Plug
<1>12. RouteInHand'
    <2>1. ~Replugging'
        BY <1>8 DEF Replugging
    <2>2. CASE defaultVia = i
        <3>1. lost' = TRUE
            BY <1>1, <1>2, <2>2
        <3>2. route' = NoRoute \/ route'.via = i
            BY <1>3, <1>5, <2>2, RecordFacts DEF Rest, RouteKept
        <3>. QED  BY <1>8, <3>1, <3>2 DEF RouteInHand
    <2>3. CASE defaultVia # i
        <3>1. /\ defaultVia' = defaultVia /\ lost' = lost
              /\ uplink'[defaultVia] = uplink[defaultVia]
            BY <1>1, <1>2, <1>9, <2>3, RecordFacts DEF IInv, TypeOK
        <3>. QED  BY <1>3, <1>5, <1>8, <2>1, <3>1
                  DEF Rest, RouteKept, RouteInHand, DefaultRouter
    <2>. QED  BY <2>2, <2>3
<1>. QED  BY <1>10, <1>11, <1>12 DEF Matched

LEMMA UnplugMatches ==
    ASSUME IInv, MInv, NEW c \in Clients, Unplug(c) PROVE MInv'
<1> SUFFICES ASSUME Undisturbed' PROVE Matched'
    BY DEF MInv
<1>1. PICK i : i = call[c].i
    OBVIOUS
<1>2. /\ i \in Ifaces /\ call[c].kind = "remove" /\ lock = c
      /\ kern' = [kern EXCEPT ![i] = Absent]
      /\ route' = FlushedOf(i)
      /\ Return(c)
      /\ UNCHANGED <<routers, order, uplink, ip, egress, ingress, defaultVia,
                     lost, failed, stale>>
    BY <1>1 DEF Unplug, Holds, IInv, TypeOK, Arguments, core, history
<1>3. Matched
    BY <1>2 DEF MInv, Undisturbed
<1>4. Holder.kind = "remove" /\ Holder.i = i
    BY <1>1, <1>2, Holding
<1>5. i \notin Recorded /\ defaultVia # i
    BY <1>3, <1>4, RecordFacts DEF Matched, Copies
<1>6. kern'[i] = Absent /\ \A j \in Ifaces : j # i => kern'[j] = kern[j]
    BY <1>2 DEF IInv, TypeOK
<1>7. Blank' /\ Wiring'
    BY <1>2, <1>3, <1>4, <1>5, <1>6
    DEF Matched, OthersWired, Blank, Wiring, Wired, Plug, Recorded
<1>8. RouteKept'
    <2>1. DefaultRouter = uplink[defaultVia] /\ kern'[defaultVia] = kern[defaultVia]
        BY <1>4, <1>5, <1>6, RecordFacts DEF DefaultRouter, Replugging
    <2>2. \/ route \in {NoRoute, RouteVia(defaultVia, uplink[defaultVia])}
          \/ route.via = i /\ lost
        BY <1>3, <1>4, <2>1 DEF Matched, RouteInHand
    <2>3. kern[defaultVia].up /\ ~lost => route # NoRoute
        BY <1>3, <1>4 DEF Matched, RouteInHand
    <2>4. CASE route.via = i /\ lost
        BY <1>2, <2>4 DEF FlushedOf, RouteKept
    <2>5. CASE route \in {NoRoute, RouteVia(defaultVia, uplink[defaultVia])}
        <3>1. route' = route
            BY <1>2, <1>5, <2>5, RecordFacts DEF FlushedOf
        <3>. QED  BY <1>2, <2>1, <2>3, <2>5, <3>1 DEF RouteKept
    <2>. QED  BY <2>2, <2>4, <2>5
<1>. QED  BY <1>2, <1>7, <1>8, ReturnRests DEF Rest

(* set_condition: the device's end first, then the gateway's and the record. *)
LEMMA SetEgressMatches ==
    ASSUME IInv, MInv, NEW c \in Clients, SetEgress(c) PROVE MInv'
<1> SUFFICES ASSUME Undisturbed' PROVE Matched'
    BY DEF MInv
<1> DEFINE o == call[c]
<1>1. /\ o \in Call /\ o.kind = "condition" /\ lock = Free
      /\ kern' = IF o.dir # "ingress" THEN EgressSet(o.i, o.c) ELSE kern
      /\ Enter(c, o)
      /\ o.i \in Recorded /\ o.r = uplink[o.i]
      /\ UNCHANGED <<core, route, lost, failed>> /\ ~stale
    BY DEF SetEgress, Waited, Undisturbed, IInv, TypeOK
<1>2. UNCHANGED <<routers, order, uplink, ip, egress, ingress, defaultVia,
                  route, lost, failed>>
    BY <1>1 DEF core
<1>3. Rest
    BY <1>1, <1>2, Rested DEF MInv, Undisturbed
<1>4. o.i \in Ifaces /\ Plug(o.i, uplink[o.i], ip[o.i], egress[o.i]) /\ Exists(o.i)
    BY <1>1, <1>3, RecordFacts DEF Rest, Wiring, Wired, Plug, Exists
<1>5. PICK k : k = kern[o.i]
    OBVIOUS
<1>6. PICK x : x = IF o.dir = "ingress" THEN k.eg ELSE o.c
    OBVIOUS
<1>7. k \in Link
    BY <1>4, <1>5 DEF IInv, TypeOK
<1>8. kern' = [kern EXCEPT ![o.i] = [k EXCEPT !.eg = x]]
    BY <1>1, <1>4, <1>5, <1>6, <1>7 DEF EgressSet, Link, IInv, TypeOK
<1>9. PICK n : n = [k EXCEPT !.eg = x]
    OBVIOUS
<1>10. n.gw = k.gw /\ n.up = k.up /\ n.addr = k.addr /\ n.eg = x /\ n.in = k.in
    BY <1>7, <1>9 DEF Link
<1>11. kern'[o.i] = n /\ \A j \in Ifaces : j # o.i => kern'[j] = kern[j]
    BY <1>4, <1>8, <1>9 DEF IInv, TypeOK
<1>12. /\ Holder'.kind = "condition" /\ Holder'.i = o.i /\ Holder'.r = o.r
       /\ Holder'.c = o.c /\ Holder'.dir = o.dir
    BY <1>1, Entered
<1>13. Blank' /\ Copies'
    BY <1>1, <1>2, <1>3, <1>12 DEF Rest, Blank, Copies, Recorded
<1>14. OthersWired'
    BY <1>2, <1>3, <1>11, <1>12 DEF Rest, Wiring, OthersWired, Wired, Plug, Recorded
<1>15. Halfway'
    <2>1. /\ kern'[o.i].gw = uplink[o.i] /\ kern'[o.i].addr = ip[o.i]
          /\ kern'[o.i].eg = IF o.dir = "ingress" THEN egress[o.i] ELSE o.c
          /\ kern'[o.i].in \in {ingress[o.i], NoCond}
        BY <1>4, <1>5, <1>6, <1>10, <1>11 DEF Plug
    <2>. QED  BY <1>2, <1>12, <2>1 DEF Halfway, Plug
<1>16. RouteInHand'
    <2>1. kern'[defaultVia].up = kern[defaultVia].up
        BY <1>5, <1>10, <1>11, RecordFacts
    <2>. QED  BY <1>2, <1>3, <1>12, <2>1
              DEF Rest, RouteKept, RouteInHand, DefaultRouter, Replugging
<1>. QED  BY <1>13, <1>14, <1>15, <1>16 DEF Matched

LEMMA SetIngressMatches ==
    ASSUME IInv, MInv, NEW c \in Clients, SetIngress(c) PROVE MInv'
<1> SUFFICES ASSUME Undisturbed' PROVE Matched'
    BY DEF MInv
<1> DEFINE o == call[c]
<1>1. /\ o \in Call /\ o.kind = "condition" /\ lock = c /\ Return(c)
      /\ UNCHANGED <<routers, order, uplink, ip, defaultVia, route, lost, failed, stale>>
    BY DEF SetIngress, Holds, history, IInv, TypeOK
<1>2. Matched
    BY <1>1 DEF MInv, Undisturbed
<1>3. Holder = o
    BY <1>1, Holding
<1>4. /\ o.i \in Recorded /\ o.i \in Ifaces /\ o.r = uplink[o.i]
      /\ Plug(o.i, uplink[o.i], ip[o.i], IF o.dir = "ingress" THEN egress[o.i] ELSE o.c)
    BY <1>1, <1>2, <1>3, RecordFacts DEF Matched, Copies, Halfway
<1>5. /\ kern' = IF o.dir # "egress" THEN IngressSet(o.i, o.r, o.c) ELSE kern
      /\ egress' = IF o.dir \in {"egress", "both"} THEN [egress EXCEPT ![o.i] = o.c]
                   ELSE egress
      /\ ingress' = IF o.dir \in {"ingress", "both"} THEN [ingress EXCEPT ![o.i] = o.c]
                    ELSE ingress
    BY <1>4 DEF SetIngress
<1>6. o.dir \in {"egress", "ingress", "both"}
    BY <1>1, IfaceAssumption DEF Call
<1>7. PICK k : k = kern[o.i]
    OBVIOUS
<1>8. PICK x : x = IF o.dir = "egress" THEN k.in ELSE o.c
    OBVIOUS
<1>9. k \in Link /\ k.gw = o.r
    BY <1>4, <1>7 DEF Plug, IInv, TypeOK
<1>10. kern' = [kern EXCEPT ![o.i] = [k EXCEPT !.in = x]]
    BY <1>4, <1>5, <1>7, <1>8, <1>9 DEF IngressSet, Link, IInv, TypeOK
<1>11. PICK n : n = [k EXCEPT !.in = x]
    OBVIOUS
<1>12. n.gw = k.gw /\ n.up = k.up /\ n.addr = k.addr /\ n.eg = k.eg /\ n.in = x
    BY <1>9, <1>11 DEF Link
<1>13. kern'[o.i] = n /\ \A j \in Ifaces : j # o.i => kern'[j] = kern[j]
    BY <1>4, <1>10, <1>11 DEF IInv, TypeOK
<1>14. /\ egress'[o.i] = IF o.dir = "ingress" THEN egress[o.i] ELSE o.c
       /\ ingress'[o.i] = IF o.dir = "egress" THEN ingress[o.i] ELSE o.c
       /\ \A j \in Ifaces : j # o.i => egress'[j] = egress[j] /\ ingress'[j] = ingress[j]
    BY <1>4, <1>5, <1>6 DEF IInv, TypeOK
<1>15. Blank'
    BY <1>1, <1>2, <1>4, <1>14 DEF Matched, Blank, Recorded
<1>16. Wiring'
    <2>1. ASSUME NEW j \in Ifaces, j # o.i PROVE Wired(j)'
        <3>1. Wired(j)
            BY <1>2, <1>3, <2>1 DEF Matched, OthersWired
        <3>. QED  BY <1>1, <1>13, <1>14, <2>1, <3>1 DEF Wired, Plug, Recorded
    <2>2. PICK i : i = o.i
        OBVIOUS
    <2>3. /\ kern'[i].gw = uplink[i] /\ kern'[i].addr = ip[i]
          /\ kern'[i].eg = egress'[i] /\ kern'[i].in \in {ingress'[i], NoCond}
        BY <1>4, <1>7, <1>8, <1>12, <1>13, <1>14, <2>2 DEF Plug
    <2>4. Wired(i)'
        BY <1>1, <1>4, <2>2, <2>3 DEF Wired, Plug, Recorded
    <2>. QED  BY <2>1, <2>2, <2>4 DEF Wiring
<1>17. RouteKept'
    <2>1. kern'[defaultVia].up = kern[defaultVia].up
        BY <1>7, <1>12, <1>13, RecordFacts
    <2>. QED  BY <1>1, <1>2, <1>3, <2>1
              DEF Matched, RouteKept, RouteInHand, DefaultRouter, Replugging
<1>. QED  BY <1>1, <1>15, <1>16, <1>17, ReturnRests DEF Rest

LEMMA AddIfaceMatches ==
    ASSUME IInv, MInv, NEW c \in Clients, AddIface(c) PROVE MInv'
<1> SUFFICES ASSUME Undisturbed' PROVE Matched'
    BY DEF MInv
<1>1. PICK i \in Ifaces \ Recorded, r \in routers :
        /\ Ready(c)
        /\ order' = Append(order, i)
        /\ uplink' = [uplink EXCEPT ![i] = r]
        /\ ip' = [ip EXCEPT ![i] = allocated + 1]
        /\ Enter(c, Work("add", i, r))
        /\ UNCHANGED <<routers, egress, ingress, defaultVia, kernel, history>>
    BY DEF AddIface
<1>2. /\ order \in Seq(Ifaces) /\ IsInjective(order) /\ lock = Free /\ r \in Routers
      /\ UNCHANGED <<egress, ingress, defaultVia, kern, route, lost, failed, stale>>
    BY <1>1 DEF IInv, TypeOK, Ready, kernel, history
<1>3. Recorded' = Recorded \cup {i}
    BY <1>1, <1>2, AppendFacts DEF Recorded
<1>4. Rest
    BY <1>2, Rested DEF MInv, Undisturbed
<1>5. PICK o : o = Work("add", i, r)
    OBVIOUS
<1>6. Begun(o, "add", i, r)
    <2>1. "add" \in Kinds  BY DEF Kinds
    <2>. QED  BY <1>2, <1>5, <2>1, WorkFields
<1>7. Holder'.kind = "add" /\ Holder'.i = i /\ Holder'.r = r
    BY <1>1, <1>5, <1>6, Entered DEF Begun
<1>8. /\ uplink'[i] = r
      /\ \A j \in Ifaces : j # i => uplink'[j] = uplink[j] /\ ip'[j] = ip[j]
    BY <1>1 DEF IInv, TypeOK
<1>9. defaultVia # i /\ defaultVia \in Ifaces
    BY RecordFacts
<1>10. Blank' /\ Copies' /\ Halfway'
    BY <1>2, <1>3, <1>4, <1>7, <1>8, <1>9 DEF Rest, Blank, Copies, Halfway
<1>11. OthersWired'
    <2> SUFFICES ASSUME NEW j \in Ifaces, j # i PROVE Wired(j)'
        BY <1>7 DEF OthersWired
    <2>1. Wired(j) /\ (j \in Recorded' <=> j \in Recorded)
        BY <1>3, <1>4 DEF Rest, Wiring
    <2>. QED  BY <1>2, <1>8, <2>1 DEF Wired, Plug
<1>12. RouteInHand'
    <2>1. ~Replugging'
        BY <1>7 DEF Replugging
    <2>. QED  BY <1>2, <1>4, <1>7, <1>8, <1>9, <2>1
              DEF Rest, RouteKept, RouteInHand, DefaultRouter
<1>. QED  BY <1>10, <1>11, <1>12 DEF Matched

LEMMA WireAddedMatches ==
    ASSUME IInv, MInv, NEW c \in Clients, WireAdded(c) PROVE MInv'
<1> SUFFICES ASSUME Undisturbed' PROVE Matched'
    BY DEF MInv
<1>1. PICK i : i = call[c].i
    OBVIOUS
<1>2. PICK r : r = call[c].r
    OBVIOUS
<1>3. /\ lock = c /\ call[c].kind = "add"
      /\ kern' = [kern EXCEPT ![i] = Plugged(r, ip[i], NoCond)]
      /\ Return(c)
      /\ UNCHANGED <<routers, order, uplink, ip, egress, ingress, defaultVia,
                     route, lost, failed, stale>>
    BY <1>1, <1>2 DEF WireAdded, Holds, core, history
<1>4. Matched
    BY <1>3 DEF MInv, Undisturbed
<1>5. Holder.kind = "add" /\ Holder.i = i /\ Holder.r = r
    BY <1>1, <1>2, <1>3, Holding
<1>6. /\ i \in Recorded /\ i \in Ifaces /\ r = uplink[i]
      /\ defaultVia # i /\ egress[i] = NoCond
    BY <1>4, <1>5, RecordFacts DEF Matched, Copies
<1>7. PICK l : l = Plugged(r, ip[i], NoCond)
    OBVIOUS
<1>8. l.gw = r /\ l.addr = ip[i] /\ l.eg = NoCond /\ l.in = NoCond
    BY <1>7 DEF Plugged, Absent
<1>9. kern'[i] = l /\ \A j \in Ifaces : j # i => kern'[j] = kern[j]
    BY <1>3, <1>6, <1>7 DEF IInv, TypeOK
<1>10. Blank'
    BY <1>3, <1>4 DEF Matched, Blank, Recorded
<1>11. Wiring'
    <2>1. ASSUME NEW j \in Ifaces, j # i PROVE Wired(j)'
        <3>1. Wired(j)
            BY <1>4, <1>5, <2>1 DEF Matched, OthersWired
        <3>. QED  BY <1>3, <1>9, <2>1, <3>1 DEF Wired, Plug, Recorded
    <2>2. Wired(i)'
        BY <1>3, <1>6, <1>8, <1>9 DEF Wired, Plug, Recorded
    <2>. QED  BY <2>1, <2>2 DEF Wiring
<1>12. RouteKept'
    <2>1. kern'[defaultVia] = kern[defaultVia]
        BY <1>6, <1>9, RecordFacts
    <2>. QED  BY <1>3, <1>4, <1>5, <2>1
              DEF Matched, RouteKept, RouteInHand, DefaultRouter, Replugging
<1>. QED  BY <1>3, <1>10, <1>11, <1>12, ReturnRests DEF Rest

(* remove_router takes no mutex, and may come between any two steps: it     *)
(* finds no recorded interface on the router, and so at most the pair that  *)
(* a replug has wired and not yet recorded, or one that remove is deleting. *)
LEMMA RemoveRouterMatches ==
    ASSUME IInv, MInv, NEW r \in Routers, RemoveRouter(r) PROVE MInv'
<1> SUFFICES ASSUME Undisturbed' PROVE Matched'
    BY DEF MInv
<1>1. /\ routers' = routers \ {r} /\ ~Connected(r)
      /\ kern' = [i \in Ifaces |-> IF kern[i].gw = r THEN Absent ELSE kern[i]]
      /\ route' = IF route.gw = r THEN NoRoute ELSE route
      /\ UNCHANGED <<order, uplink, ip, egress, ingress, defaultVia,
                     lock, call, lost, failed, stale>>
    BY DEF RemoveRouter, history
<1>2. Matched
    BY <1>1 DEF MInv, Undisturbed
<1>3. Holder' = Holder
    BY <1>1, SameHolder
<1>4. \A i \in Recorded : uplink[i] # r
    BY <1>1 DEF Connected
<1>5. \A i \in Ifaces :
          /\ kern[i].gw # r => kern'[i] = kern[i]
          /\ kern[i].gw = r => kern'[i] = Absent
    BY <1>1
<1>6. Absent.gw = NoRouter /\ r # NoRouter /\ ~Absent.up
    BY IfaceAssumption, RecordFacts
<1>7. \A i \in Ifaces : Wired(i) => Wired(i)' /\ kern'[i] = kern[i]
    BY <1>1, <1>4, <1>5, <1>6 DEF Wired, Plug, Recorded
<1>8. Blank' /\ Copies'
    BY <1>1, <1>2, <1>3 DEF Matched, Blank, Copies, Recorded
<1>9. OthersWired'
    BY <1>2, <1>3, <1>7 DEF Matched, OthersWired
<1>10. Holder.kind \in {"renew", "condition", "default", "up", "replug"} =>
          Holder.i \in Recorded /\ Holder.i \in Ifaces
    BY <1>2, RecordFacts DEF Matched, Copies
<1>11. Halfway'
    <2>1. PICK i : i = Holder.i
        OBVIOUS
    <2>2. Holder.kind \in {"default", "up"} => Wired(i)'
        BY <1>2, <1>7, <1>10, <2>1 DEF Matched, Halfway
    <2>3. ASSUME i \in Recorded, i \in Ifaces, kern[i].gw = uplink[i]
          PROVE  kern'[i] = kern[i]
        BY <1>4, <1>5, <2>3
    <2>4. Holder.kind = "renew" =>
              Plug(Holder.i, uplink[Holder.i], Holder.addr, egress[Holder.i])'
        BY <1>1, <1>2, <1>3, <1>10, <2>1, <2>3 DEF Matched, Halfway, Plug
    <2>5. Holder.kind = "condition" =>
              Plug(Holder.i, uplink[Holder.i], ip[Holder.i],
                   IF Holder.dir = "ingress" THEN egress[Holder.i] ELSE Holder.c)'
        BY <1>1, <1>2, <1>3, <1>10, <2>1, <2>3 DEF Matched, Halfway, Plug
    <2>6. Holder.kind = "replug" /\ Holder.at = "kernel" => kern'[Holder.i] = Absent
        BY <1>2, <1>5, <1>6, <1>10 DEF Matched, Halfway
    <2>7. ASSUME Holder.kind = "replug", Holder.at = "commit"
          PROVE  \/ Plug(Holder.i, Holder.r, Holder.addr, egress[Holder.i])'
                 \/ kern'[Holder.i] = Absent /\ Holder.r \notin routers'
        <3>1. CASE kern[Holder.i] = Absent /\ Holder.r \notin routers
            BY <1>1, <1>5, <1>6, <1>10, <2>7, <3>1
        <3>2. CASE Plug(Holder.i, Holder.r, Holder.addr, egress[Holder.i]) /\ Holder.r = r
            BY <1>1, <1>5, <1>10, <2>7, <3>2 DEF Plug
        <3>3. CASE Plug(Holder.i, Holder.r, Holder.addr, egress[Holder.i]) /\ Holder.r # r
            BY <1>1, <1>3, <1>5, <1>10, <2>7, <3>3 DEF Plug
        <3>. QED  BY <1>2, <2>7, <3>1, <3>2, <3>3 DEF Matched, Halfway
    <2>8. Holder.kind \in {"default", "up"} => Wired(Holder.i)'
        BY <1>3, <2>1, <2>2 DEF Wired
    <2>. QED  BY <1>3, <2>4, <2>5, <2>6, <2>7, <2>8 DEF Halfway
<1>12. RouteInHand'
    <2>1. DefaultRouter' = DefaultRouter
        BY <1>1, <1>3 DEF DefaultRouter, Replugging
    <2>2. route' \in {NoRoute, route}
        BY <1>1
    <2>3. kern[defaultVia].up /\ kern'[defaultVia].up /\ ~lost /\ Holder.kind # "up"
            => route' = route
        <3> SUFFICES ASSUME kern[defaultVia].up, kern'[defaultVia].up, ~lost,
                            route.gw = r, route # NoRoute
                     PROVE  FALSE
            BY <1>1
        <3>1. route = RouteVia(defaultVia, DefaultRouter)
            BY <1>2 DEF Matched, RouteInHand
        <3>2. DefaultRouter = r /\ defaultVia \in Ifaces
            BY <3>1, RecordFacts
        <3>3. Replugging /\ Holder.r = r
            BY <1>4, <3>2, RecordFacts DEF DefaultRouter
        <3>4. Plug(Holder.i, Holder.r, Holder.addr, egress[Holder.i])
            BY <1>2, <1>6, <3>3 DEF Matched, Halfway, Replugging
        <3>5. kern'[defaultVia] = Absent
            BY <1>5, <3>2, <3>3, <3>4 DEF Plug, Replugging
        <3>. QED  BY <1>6, <3>5
    <2>4. kern'[defaultVia].up => kern[defaultVia].up
        BY <1>5, <1>6, RecordFacts
    <2>. QED  BY <1>1, <1>2, <1>3, <2>1, <2>2, <2>3, <2>4 DEF Matched, RouteInHand
<1>. QED  BY <1>8, <1>9, <1>11, <1>12 DEF Matched

LEMMA BeginLinkUpMatches ==
    ASSUME IInv, MInv, NEW c \in Clients, BeginLinkUp(c) PROVE MInv'
BY BeginMatches DEF BeginLinkUp

LEMMA BeginConditionMatches ==
    ASSUME IInv, MInv, NEW c \in Clients, BeginCondition(c) PROVE MInv'
BY BeginMatches DEF BeginCondition

LEMMA StutterMatches ==
    ASSUME MInv, UNCHANGED vars PROVE MInv'
<1> SUFFICES ASSUME Undisturbed' PROVE Matched'
    BY DEF MInv
<1>1. UNCHANGED <<routers, order, uplink, ip, egress, ingress, defaultVia,
                  kern, route, lock, call, lost, failed, stale>>
    BY DEF vars, core, kernel, history
<1>2. Matched /\ Holder' = Holder
    BY <1>1, SameHolder DEF MInv, Undisturbed
<1>3. Blank' /\ Copies'
    BY <1>1, <1>2 DEF Matched, Blank, Copies, Recorded
<1>4. OthersWired' /\ Halfway'
    BY <1>1, <1>2 DEF Matched, OthersWired, Halfway, Wired, Plug, Recorded
<1>5. RouteInHand'
    BY <1>1, <1>2 DEF Matched, RouteInHand, DefaultRouter, Replugging
<1>. QED  BY <1>3, <1>4, <1>5 DEF Matched

LEMMA StartMatches == Init => MInv
<1> SUFFICES ASSUME Init PROVE Matched
    BY DEF MInv
<1>1. IInv
    BY Initially
<1>2. lock = Free /\ Recorded = {FirstIface} /\ defaultVia = FirstIface
    BY IfaceAssumption DEF Init, Recorded, Range
<1>3. PICK l : l = Plugged(FirstRouter, 1, NoCond)
    OBVIOUS
<1>4. l.gw = FirstRouter /\ l.addr = 1 /\ l.eg = NoCond /\ l.in = NoCond
    BY <1>3 DEF Plugged, Absent
<1>5. Blank /\ Wiring
    BY <1>2, <1>3, <1>4, IfaceAssumption DEF Init, Blank, Wiring, Wired, Plug
<1>6. RouteKept
    BY <1>1, <1>2, RecordFacts, IfaceAssumption DEF Init, RouteKept
<1>7. Holder.kind = "idle" /\ Holder.i = NoIface
    BY <1>2 DEF Holder, Idle, Work
<1>8. OthersWired /\ Copies /\ Halfway
    BY <1>5, <1>7 DEF Wiring, OthersWired, Copies, Halfway
<1>9. RouteInHand
    <2>1. DefaultRouter = uplink[defaultVia]
        BY <1>7 DEF DefaultRouter, Replugging
    <2>. QED  BY <1>6, <1>7, <2>1 DEF RouteInHand, RouteKept
<1>. QED  BY <1>5, <1>8, <1>9 DEF Matched

LEMMA StepMatches ==
    ASSUME IInv, IInv', MInv, [Next]_vars PROVE MInv'
<1>1. ASSUME NEW c \in Clients,
             \/ SetDefaultLookup(c) \/ SetDefaultRoute(c)
             \/ LinkDown(c) \/ BeginLinkUp(c) \/ LinkUp(c) \/ LinkUpRoute(c) \/ AddIp(c)
             \/ RenewIp(c) \/ ReplaceAddr(c)
      PROVE  MInv'
    BY <1>1, SetDefaultLookupMatches, SetDefaultRouteMatches, LinkDownMatches,
       BeginLinkUpMatches, LinkUpMatches, LinkUpRouteMatches, AddIpMatches,
       RenewIpMatches, ReplaceAddrMatches
<1>2. ASSUME NEW c \in Clients,
             \/ Replug(c) \/ WireReplugged(c) \/ FinishReplug(c)
             \/ RemoveIface(c) \/ Unplug(c)
             \/ BeginCondition(c) \/ SetEgress(c) \/ SetIngress(c)
             \/ AddIface(c) \/ WireAdded(c)
      PROVE  MInv'
    BY <1>2, ReplugMatches, WireReplugMatches, FinishReplugMatches, RemoveIfaceMatches,
       UnplugMatches, BeginConditionMatches, SetEgressMatches, SetIngressMatches,
       AddIfaceMatches, WireAddedMatches
<1>3. ASSUME NEW r \in Routers, RemoveRouter(r) PROVE MInv'
    BY <1>3, RemoveRouterMatches
<1>4. CASE UNCHANGED vars
    BY <1>4, StutterMatches
<1>. QED  BY <1>1, <1>2, <1>3, <1>4 DEF Next

(* The kernel and the record differ, while nothing has gone wrong, only in *)
(* what the holder of the mutex has yet to do.                             *)
THEOREM Matching == Spec => []MInv
<1>1. IInv /\ IInv' /\ MInv /\ [Next]_vars => MInv'
    BY StepMatches
<1>. QED  BY StartMatches, Inductive, <1>1, PTL DEF Spec

(* Between operations none of which failed half way or worked from a stale *)
(* copy, the namespace is wired as the record says, whatever the           *)
(* operations were and wherever remove_router came between their steps.    *)
THEOREM KernelFollowsRecord == Spec => []KernelMatches
<1>1. MInv => KernelMatches
    <2> SUFFICES ASSUME MInv, Settled, NEW i \in Ifaces
                 PROVE  IF i \in Recorded
                        THEN /\ kern[i].gw = uplink[i] /\ kern[i].addr = ip[i]
                             /\ kern[i].eg = egress[i] /\ kern[i].in \in {ingress[i], NoCond}
                        ELSE kern[i] = Absent
        BY DEF KernelMatches
    <2>1. Rest
        BY Rested DEF MInv, Undisturbed, Settled
    <2>. QED  BY <2>1 DEF Rest, Wiring, Wired, Plug
<1>. QED  BY Matching, <1>1, PTL

(* And its default route is through the recorded default interface and     *)
(* that interface's router, and is there while the interface is up unless  *)
(* renew_ip or remove dropped it.                                          *)
THEOREM RouteAtDefault == Spec => []RouteFollowsDefault
<1>1. MInv => RouteFollowsDefault
    <2> SUFFICES ASSUME MInv, Settled
                 PROVE  /\ route \in {NoRoute, RouteVia(defaultVia, uplink[defaultVia])}
                        /\ kern[defaultVia].up /\ ~lost => route # NoRoute
        BY DEF RouteFollowsDefault
    <2>1. Rest
        BY Rested DEF MInv, Undisturbed, Settled
    <2>. QED  BY <2>1 DEF Rest, RouteKept
<1>. QED  BY Matching, <1>1, PTL
============================================================================
