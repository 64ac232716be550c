-------------------------- MODULE RouterOpsProofs --------------------------
(***************************************************************************)
(* What a change of the rules of a router never does to traffic, for every *)
(* set of modes and any number of operations and failing commands: it cuts *)
(* no tracked flow, and it opens no NAT on the way.  Between operations    *)
(* the rules are those of the recorded modes, and the IPv6 default routes  *)
(* are those that the RA settings ask for.                                 *)
(***************************************************************************)
EXTENDS RouterOps, SequenceTheorems, WellFoundedInduction, TLAPS

Rules == {"est", "wandrop", "frag", "web", "tcpdrop", "dns", "udpdrop"}

-----------------------------------------------------------------------------
(* Chains in which a rule that drops replies comes after "est".             *)

EstFirst(chain) ==
    /\ chain \in Seq(Rules)
    /\ \A i \in 1..Len(chain) : chain[i] \in {"wandrop", "udpdrop"} =>
           \E j \in 1..i - 1 : chain[j] = "est"

\* Such a chain that is not empty may begin with "est".
Headed(chain) == chain \in Seq(Rules) /\ Len(chain) > 0 /\ chain[1] = "est"

LEMMA HeadedIsEstFirst == \A chain : Headed(chain) => EstFirst(chain)
  BY DEF Headed, EstFirst, Rules

LEMMA HeadedConcat ==
  ASSUME NEW s, Headed(s), NEW t \in Seq(Rules) PROVE Headed(s \o t)
  BY DEF Headed

LEMMA EmptyEstFirst == EstFirst(<<>>)
  BY DEF EstFirst

LEMMA EstFirstConcat ==
  ASSUME NEW s, EstFirst(s), NEW t, EstFirst(t) PROVE EstFirst(s \o t)
<1>1. s \o t \in Seq(Rules) /\ Len(s \o t) = Len(s) + Len(t)
  BY DEF EstFirst
<1>2. \A i \in 1..Len(s) : (s \o t)[i] = s[i]
  BY DEF EstFirst
<1>3. \A i \in 1..Len(t) : (s \o t)[Len(s) + i] = t[i]
  BY DEF EstFirst
<1>4. ASSUME NEW i \in 1..Len(s \o t), (s \o t)[i] \in {"wandrop", "udpdrop"}
      PROVE  \E j \in 1..i - 1 : (s \o t)[j] = "est"
  <2>1. CASE i <= Len(s)
    BY <1>1, <1>2, <1>4, <2>1 DEF EstFirst
  <2>2. CASE i > Len(s)
    <3> DEFINE k == i - Len(s)
    <3>1. k \in 1..Len(t) /\ i = Len(s) + k
      BY <1>1, <2>2 DEF EstFirst
    <3>2. t[k] \in {"wandrop", "udpdrop"}
      BY <1>3, <1>4, <3>1
    <3>3. PICK j \in 1..k - 1 : t[j] = "est"
      BY <3>1, <3>2 DEF EstFirst
    <3>4. Len(s) + j \in 1..i - 1 /\ (s \o t)[Len(s) + j] = "est"
      BY <1>3, <3>1, <3>3 DEF EstFirst
    <3> QED BY <3>4
  <2> QED BY <1>1, <2>1, <2>2 DEF EstFirst
<1> QED BY <1>1, <1>4 DEF EstFirst

LEMMA EstFirstFrag ==
  ASSUME NEW s, EstFirst(s) PROVE EstFirst(Append(s, "frag"))
  BY DEF EstFirst, Rules

\* What the code generates is such a chain, for every mode and preset.
LEMMA FilterOfEstFirst == \A m : EstFirst(FilterOf(m))
<1>1. Headed(<<"est", "wandrop">>)
  BY DEF Headed, Rules
<1> QED BY <1>1, HeadedIsEstFirst, EmptyEstFirst DEF FilterOf

LEMMA FwRulesOfEstFirst == \A f : EstFirst(FwRulesOf(f))
<1> SUFFICES ASSUME NEW f, f # "None" PROVE EstFirst(FwRulesOf(f))
  BY EmptyEstFirst DEF FwRulesOf
<1> DEFINE c == FwConfig[f]
           If(b, s) == IF b THEN s ELSE <<>>
           t1 == If(c.block, <<"wandrop">>)
           t2 == If(c.tcp = "some", <<"web">>)
           t3 == If(c.tcp # "all", <<"tcpdrop">>)
           t4 == If(c.udp = "some", <<"dns">>)
           t5 == If(c.udp # "all", <<"udpdrop">>)
<1>1. FwRulesOf(f) = <<"est">> \o t1 \o t2 \o t3 \o t4 \o t5
  BY DEF FwRulesOf
<1>2. <<>> \in Seq(Rules) /\ \A r \in Rules : <<r>> \in Seq(Rules)
  OBVIOUS
<1>3. t1 \in Seq(Rules) /\ t2 \in Seq(Rules) /\ t3 \in Seq(Rules)
      /\ t4 \in Seq(Rules) /\ t5 \in Seq(Rules)
  <2>1. {"wandrop", "web", "tcpdrop", "dns", "udpdrop"} \subseteq Rules
    BY DEF Rules
  <2>2. t1 = <<>> \/ t1 = <<"wandrop">>
    OBVIOUS
  <2>3. t2 = <<>> \/ t2 = <<"web">>
    OBVIOUS
  <2>4. t3 = <<>> \/ t3 = <<"tcpdrop">>
    OBVIOUS
  <2>5. t4 = <<>> \/ t4 = <<"dns">>
    OBVIOUS
  <2>6. t5 = <<>> \/ t5 = <<"udpdrop">>
    OBVIOUS
  <2> HIDE DEF t1, t2, t3, t4, t5, Rules
  <2> QED BY <1>2, <2>1, <2>2, <2>3, <2>4, <2>5, <2>6
<1> HIDE DEF t1, t2, t3, t4, t5
<1>4. Headed(<<"est">>)
  BY DEF Headed, Rules
<1>5. Headed(<<"est">> \o t1)
  BY <1>3, <1>4, HeadedConcat
<1>6. Headed(<<"est">> \o t1 \o t2)
  BY <1>3, <1>5, HeadedConcat
<1>7. Headed(<<"est">> \o t1 \o t2 \o t3)
  BY <1>3, <1>6, HeadedConcat
<1>8. Headed(<<"est">> \o t1 \o t2 \o t3 \o t4)
  BY <1>3, <1>7, HeadedConcat
<1>9. Headed(<<"est">> \o t1 \o t2 \o t3 \o t4 \o t5)
  BY <1>3, <1>8, HeadedConcat
<1> QED BY <1>1, <1>9, HeadedIsEstFirst

\* It accepts replies: the first rule that matches one cannot be a drop.
LEMMA EstFirstAccepts ==
  ASSUME NEW chain, EstFirst(chain) PROVE Accepts(chain, "reply")
<1> DEFINE hits == {i \in DOMAIN chain : "reply" \in Matched[chain[i]]}
<1> SUFFICES ASSUME NEW i \in hits, \A j \in hits : i <= j
             PROVE  chain[i] \in AcceptRules
  BY DEF Accepts
<1>1. i \in 1..Len(chain) /\ chain[i] \in Rules
  BY DEF EstFirst
<1>2. chain[i] \in {"est", "wandrop", "udpdrop"}
  BY <1>1 DEF Matched, Rules
<1>3. ASSUME chain[i] \in {"wandrop", "udpdrop"} PROVE FALSE
  <2>1. PICK j \in 1..i - 1 : chain[j] = "est"
    BY <1>1, <1>3 DEF EstFirst
  <2>2. j \in hits /\ j < i
    BY <1>1, <2>1 DEF EstFirst, Matched
  <2> QED BY <1>1, <2>2
<1> QED BY <1>2, <1>3 DEF AcceptRules

-----------------------------------------------------------------------------
(* Every operation keeps both forward chains that way.                      *)

ChainInv == EstFirst(filter) /\ EstFirst(fwall)
chains == <<filter, fwall>>

LEMMA ChainInit == Init => ChainInv
  BY EmptyEstFirst DEF Init, RulesInit, ChainInv

LEMMA ChainApplyNat ==
  ASSUME ChainInv, NEW next, ApplyNat(next) PROVE ChainInv'
<1>1. filter' = filter \/ filter' = filter \o FilterOf(op.arg)
  BY DEF ApplyNat
<1>2. fwall' = fwall
  BY DEF ApplyNat
<1> QED BY <1>1, <1>2, FilterOfEstFirst, EstFirstConcat DEF ChainInv

LEMMA ChainApplyFw ==
  ASSUME ChainInv, NEW f, NEW next, ApplyFw(f, next) PROVE ChainInv'
  BY FwRulesOfEstFirst, EstFirstConcat DEF ChainInv, ApplyFw

LEMMA ChainStep == ChainInv /\ [Next]_vars => ChainInv'
<1> SUFFICES ASSUME ChainInv, [Next]_vars PROVE ChainInv'
  OBVIOUS
<1>1. ASSUME UNCHANGED chains PROVE ChainInv'
  BY <1>1 DEF ChainInv, chains
<1>2. ASSUME Abort PROVE ChainInv'
  BY <1>1, <1>2 DEF Abort, chains
<1>3. CASE RulesStart
  BY <1>1, <1>3 DEF RulesStart, SetNatStart, SetV6Start, SetFwStart, FlushStart, SetDownStart, chains
<1>4. CASE BuildNat \/ SetNatApply
  BY <1>2, <1>4, ChainApplyNat DEF BuildNat, SetNatApply
<1>5. CASE BuildTimeouts \/ SetNatTimeouts
  BY <1>1, <1>2, <1>5 DEF BuildTimeouts, SetNatTimeouts, ApplyTimeouts, chains
<1>6. CASE BuildV6 \/ SetV6Apply
  BY <1>1, <1>2, <1>6 DEF BuildV6, SetV6Apply, ApplyV6, chains
<1>7. CASE BuildFrag
  <2>1. CASE Abort
    BY <1>2, <2>1
  <2>2. CASE fwall' = fwall /\ filter' = IF frag THEN Append(filter, "frag") ELSE filter
    BY <2>2, EstFirstFrag DEF ChainInv
  <2> QED BY <1>7, <2>1, <2>2 DEF BuildFrag
<1>8. CASE BuildFw \/ SetFwApply
  BY <1>2, <1>8, ChainApplyFw DEF BuildFw, SetFwApply
<1>9. CASE BuildNat64
  BY <1>1, <1>2, <1>9 DEF BuildNat64, chains
<1>10. CASE SetNatFlushFilter
  BY <1>10, EmptyEstFirst DEF SetNatFlushFilter, ChainInv
<1>11. CASE SetFwDelete
  BY <1>11, EmptyEstFirst DEF SetFwDelete, ChainInv
<1>12. CASE SetNatFlushNat \/ SetNatEmit \/ SetV6Flush \/ SetV6Emit \/ SetFwEmit
  BY <1>1, <1>12 DEF SetNatFlushNat, SetNatEmit, SetV6Flush, SetV6Emit, SetFwEmit, chains
<1>13. CASE FlushConntrack
  BY <1>1, <1>2, <1>13 DEF FlushConntrack, chains
<1>14. CASE SetDownClear \/ SetDownNetem \/ SetDownTbf \/ SetDownEmit
  BY <1>1, <1>14 DEF SetDownClear, SetDownNetem, SetDownTbf, SetDownEmit, chains
<1>15. CASE Traffic
  BY <1>1, <1>15 DEF Traffic, Outbound, FlowExpires, ConeExpires, KeepRules, chains
<1>16. CASE UNCHANGED rulesVars
  BY <1>1, <1>16 DEF rulesVars, chains
<1> QED
  BY <1>3, <1>4, <1>5, <1>6, <1>7, <1>8, <1>9, <1>10, <1>11, <1>12, <1>13, <1>14, <1>15, <1>16
     DEF Next, RuleOp, RulesStep, Build, RaOp, RaWorker, vars

\* A change of the rules cuts no tracked flow, whatever modes follow each
\* other, whatever fails, and whatever a failed flush leaves behind
\* (router.rs:428-431).
THEOREM RepliesAlwaysPass == Spec => []RepliesPass
<1>1. ChainInv => RepliesPass
  BY EstFirstAccepts DEF ChainInv, RepliesPass, Delivered, Forwards
<1> QED BY <1>1, ChainInit, ChainStep, PTL DEF Spec

-----------------------------------------------------------------------------
(* The mode that the NAT table in the kernel was made for, and the filter   *)
(* table that goes with it.                                                 *)

Ruling == IF op.kind = "nat" /\ op.pc = "flushNat" THEN op.from ELSE rec.nat
Guarded == \E i \in 1..Len(filter) : filter[i] = "wandrop"

IsOp(o) == o = [kind |-> o.kind, pc |-> o.pc, arg |-> o.arg, from |-> o.from]

\* Between the flush of the NAT table and the rules of the next mode there is
\* no mapping; the filter table is emptied only then.
OpenInv ==
    /\ EstFirst(filter)
    /\ rec = [nat |-> rec.nat, v6 |-> rec.v6, fw |-> rec.fw]
    /\ IsOp(op)
    /\ op.kind \in {"build", "nat"} => op.arg = rec.nat
    /\ ~swallowed =>
         /\ At("build", "nat") \/ At("nat", "flushFilter") \/ At("nat", "apply") => nat = <<>>
         /\ nat # <<>> => Eif(Ruling) \/ Guarded

OpType(o) ==
    /\ IsOp(o)
    /\ o.kind \in {"build", "nat"} => o.arg = rec.nat
AtNat(o) == o.kind = "nat" \/ (o.kind = "build" /\ o.pc = "nat")
natState == <<rec, nat, filter, swallowed>>

LEMMA OpenInit == Init => OpenInv
<1> SUFFICES ASSUME Init PROVE OpenInv
  OBVIOUS
<1>1. rec = [nat |-> rec.nat, v6 |-> rec.v6, fw |-> rec.fw]
  BY DEF Init, RulesInit
<1>2. op = [kind |-> "build", pc |-> "nat", arg |-> rec.nat, from |-> rec.nat]
  BY DEF Init, RulesInit
<1>3. filter = <<>> /\ nat = <<>>
  BY DEF Init, RulesInit
<1> QED BY <1>1, <1>2, <1>3, EmptyEstFirst DEF OpenInv, IsOp

\* A step elsewhere in the code.
LEMMA OpenElsewhere ==
  ASSUME OpenInv, UNCHANGED natState, OpType(op'), ~AtNat(op), ~AtNat(op') PROVE OpenInv'
  BY DEF OpenInv, natState, OpType, AtNat, At, Ruling, Guarded

\* The operation returns or fails: what holds at its last point stays true.
LEMMA OpenAbort ==
  ASSUME OpenInv, Abort, ~At("nat", "flushNat") PROVE OpenInv'
<1>1. UNCHANGED natState
  BY DEF Abort, natState
<1>2. op' = [op EXCEPT !.kind = "failed"] \/ op' = Idle
  BY DEF Abort
<1>3. op'.kind \in {"failed", "none"} /\ IsOp(op')
  BY <1>2 DEF OpenInv, Idle, IsOp
<1>4. Ruling' = Ruling
  BY <1>1, <1>3 DEF Ruling, natState, At
<1> QED BY <1>1, <1>3, <1>4 DEF OpenInv, natState, At, Guarded

LEMMA OpenApplyNat ==
  ASSUME OpenInv, NEW next \in {"v6", "emit"}, ApplyNat(next),
         At("build", "nat") \/ At("nat", "apply")
  PROVE  OpenInv'
<1>1. rec' = rec /\ swallowed' = swallowed /\ op.arg = rec.nat
  BY DEF ApplyNat, OpenInv, At
<1>2. EstFirst(filter')
  <2>1. filter' = filter \/ filter' = filter \o FilterOf(op.arg)
    BY DEF ApplyNat
  <2>2. EstFirst(filter)
    BY DEF OpenInv
  <2> QED BY <2>1, <2>2, FilterOfEstFirst, EstFirstConcat
<1>3. /\ IsOp(op')
      /\ op'.kind = op.kind /\ op'.arg = op.arg
      /\ op'.pc \in {"v6", "emit", "timeouts"}
  BY DEF ApplyNat, OpenInv, Goto, IsOp
<1>4. Ruling' = rec.nat
  BY <1>1, <1>3 DEF Ruling
<1>5. ASSUME ~swallowed, nat' # <<>> PROVE Eif(rec.nat) \/ Guarded'
  <2>1. op.arg # "None" /\ filter' = filter \o FilterOf(op.arg)
    BY <1>5 DEF ApplyNat, OpenInv
  <2>2. CASE ~Eif(op.arg)
    <3>1. filter' = filter \o <<"est", "wandrop">>
      BY <2>1, <2>2 DEF FilterOf
    <3>2. filter'[Len(filter) + 2] = "wandrop" /\ Len(filter) + 2 \in 1..Len(filter')
      BY <3>1 DEF OpenInv, EstFirst
    <3> QED BY <3>2 DEF Guarded
  <2> QED BY <1>1, <2>2
<1> QED BY <1>1, <1>2, <1>3, <1>4, <1>5 DEF OpenInv, At

LEMMA OpenStart == ASSUME OpenInv, RulesStart PROVE OpenInv'
<1>1. ASSUME NEW m \in Nats, SetNatStart(m) PROVE OpenInv'
  <2>1. /\ op = Idle
        /\ op' = [kind |-> "nat", pc |-> "flushNat", arg |-> m, from |-> rec.nat]
        /\ rec' = [rec EXCEPT !.nat = m]
        /\ UNCHANGED <<nat, filter, swallowed>>
    BY <1>1 DEF SetNatStart, Begin
  <2>2. Ruling' = rec.nat /\ Ruling = rec.nat
    BY <2>1 DEF Ruling, Idle
  <2>3. rec' = [nat |-> m, v6 |-> rec.v6, fw |-> rec.fw]
    BY <2>1 DEF OpenInv
  <2> QED BY <2>1, <2>2, <2>3 DEF OpenInv, At, Guarded, IsOp
<1>2. ASSUME NEW f \in Firewalls, SetFwStart(f) PROVE OpenInv'
  <2>1. /\ op = Idle
        /\ op' = [kind |-> "fw", pc |-> "delete", arg |-> f, from |-> rec.nat]
        /\ rec' = [rec EXCEPT !.fw = f]
        /\ UNCHANGED <<nat, filter, swallowed>>
    BY <1>2 DEF SetFwStart, Begin
  <2>2. rec' = [nat |-> rec.nat, v6 |-> rec.v6, fw |-> f]
    BY <2>1 DEF OpenInv
  <2>3. Ruling' = rec.nat /\ Ruling = rec.nat
    BY <2>1, <2>2 DEF Ruling, Idle
  <2> QED BY <2>1, <2>2, <2>3 DEF OpenInv, At, Guarded, IsOp
<1>3. ASSUME NEW kind \in {"v6", "flush", "down"}, NEW pc, NEW arg,
             Begin(kind, pc, arg), UNCHANGED natState
      PROVE  OpenInv'
  <2>1. OpType(op')
    BY <1>3 DEF Begin, OpType, IsOp
  <2>2. ~AtNat(op) /\ ~AtNat(op')
    BY <1>3 DEF Begin, AtNat, Idle
  <2> QED BY <1>3, <2>1, <2>2, OpenElsewhere
<1>4. ASSUME NEW m \in NatsV6, SetV6Start(m) PROVE OpenInv'
  BY <1>3, <1>4 DEF SetV6Start, natState
<1>5. ASSUME FlushStart PROVE OpenInv'
  BY <1>3, <1>5 DEF FlushStart, natState, KeepTraffic
<1>6. ASSUME NEW c \in Conditions, SetDownStart(c) PROVE OpenInv'
  BY <1>3, <1>6 DEF SetDownStart, natState
<1> QED BY <1>1, <1>2, <1>4, <1>5, <1>6 DEF RulesStart

\* A step inside set_nat_mode or the build that touches neither table.
LEMMA OpenGoto ==
  ASSUME OpenInv, UNCHANGED natState, NEW pc \in {"emit", "v6"}, Goto(pc),
         ~At("nat", "flushNat")
  PROVE  OpenInv'
  BY DEF OpenInv, natState, Goto, IsOp, At, Ruling, Guarded

LEMMA OpenFlushNat == ASSUME OpenInv, SetNatFlushNat PROVE OpenInv'
<1>1. /\ op' = [op EXCEPT !.pc = "flushFilter"] /\ rec' = rec /\ filter' = filter
      /\ \/ nat' = <<>> /\ swallowed' = swallowed
         \/ swallowed' = TRUE
  BY DEF SetNatFlushNat, Goto, Swallow
<1>2. IsOp(op') /\ op'.kind = op.kind /\ op'.arg = op.arg
  BY <1>1 DEF OpenInv, IsOp
<1> QED BY <1>1, <1>2 DEF OpenInv

LEMMA OpenFlushFilter == ASSUME OpenInv, SetNatFlushFilter PROVE OpenInv'
<1>1. /\ op' = [op EXCEPT !.pc = "apply"] /\ rec' = rec /\ nat' = nat
      /\ op.kind = "nat" /\ op.pc = "flushFilter"
      /\ \/ filter' = <<>> /\ swallowed' = swallowed
         \/ filter' = filter /\ swallowed' = TRUE
  BY DEF SetNatFlushFilter, Goto, Swallow, At
<1>2. IsOp(op') /\ op'.kind = op.kind /\ op'.arg = op.arg
  BY <1>1 DEF OpenInv, IsOp
<1>3. EstFirst(filter')
  BY <1>1, EmptyEstFirst DEF OpenInv
<1> QED BY <1>1, <1>2, <1>3 DEF OpenInv, At

LEMMA OpenFrag == ASSUME OpenInv, BuildFrag PROVE OpenInv'
<1>1. CASE Abort
  BY <1>1, OpenAbort DEF BuildFrag, At
<1>2. CASE ~Abort
  <2>1. /\ op' = [op EXCEPT !.pc = "fw"] /\ rec' = rec /\ nat' = nat
        /\ op.kind = "build" /\ swallowed' = swallowed
        /\ filter' = filter \/ filter' = Append(filter, "frag")
    BY <1>2 DEF BuildFrag, Goto, At
  <2>2. IsOp(op') /\ op'.kind = op.kind /\ op'.arg = op.arg /\ op'.pc = "fw"
    BY <2>1 DEF OpenInv, IsOp
  <2>3. EstFirst(filter')
    BY <2>1, EstFirstFrag DEF OpenInv
  <2>4. Guarded => Guarded'
    BY <2>1 DEF Guarded, OpenInv, EstFirst
  <2>5. Ruling' = Ruling
    BY <2>1, <2>2 DEF Ruling
  <2> QED BY <2>1, <2>2, <2>3, <2>4, <2>5 DEF OpenInv, At
<1> QED BY <1>1, <1>2

LEMMA OpenNatEmit == ASSUME OpenInv, SetNatEmit PROVE OpenInv'
<1>1. op' = Idle /\ UNCHANGED natState /\ op.pc = "emit"
  BY DEF SetNatEmit, natState, At, Done
<1> QED BY <1>1 DEF OpenInv, natState, Idle, IsOp, At, Ruling, Guarded

LEMMA OpenV6Emit == ASSUME OpenInv, SetV6Emit PROVE OpenInv'
<1>1. /\ op' = Idle /\ UNCHANGED <<nat, filter, swallowed>>
      /\ rec' = [rec EXCEPT !.v6 = op.arg] /\ op.kind = "v6"
  BY DEF SetV6Emit, At, Done
<1>2. rec' = [nat |-> rec.nat, v6 |-> op.arg, fw |-> rec.fw]
  BY <1>1 DEF OpenInv
<1> QED BY <1>1, <1>2 DEF OpenInv, Idle, IsOp, At, Ruling, Guarded

\* The steps of other operations, and of the build past its NAT rules.
LEMMA OpenOther ==
  ASSUME OpenInv, NEW kind, NEW pc, At(kind, pc),
         kind \in {"build", "v6", "fw", "flush", "down"}, kind = "build" => pc # "nat",
         rec' = rec, filter' = filter, nat' = nat,
         swallowed' = swallowed \/ swallowed' = TRUE,
         op' = Idle \/ \E next : next # "nat" /\ op' = [op EXCEPT !.pc = next]
  PROVE  OpenInv'
<1>1. CASE op' = Idle
  BY <1>1 DEF OpenInv, Idle, IsOp, At, Ruling, Guarded
<1>2. ASSUME NEW next, next # "nat", op' = [op EXCEPT !.pc = next] PROVE OpenInv'
  <2>1. IsOp(op') /\ op'.kind = op.kind /\ op'.arg = op.arg /\ op'.pc = next
    BY <1>2 DEF OpenInv, IsOp
  <2>2. Ruling' = Ruling /\ (Guarded <=> Guarded')
    BY <2>1 DEF Ruling, Guarded, At
  <2> QED BY <1>2, <2>1, <2>2 DEF OpenInv, At
<1> QED BY <1>1, <1>2

LEMMA OpenBuild == ASSUME OpenInv, Build PROVE OpenInv'
<1>1. CASE BuildNat
  BY <1>1, OpenApplyNat, OpenAbort DEF BuildNat, At
<1>2. CASE Abort /\ op.kind = "build"
  BY <1>2, OpenAbort DEF At
<1>3. CASE BuildTimeouts /\ ~Abort
  <2>1. At("build", "timeouts") /\ Goto("v6") /\ UNCHANGED natState
    BY <1>3 DEF BuildTimeouts, ApplyTimeouts, natState
  <2> QED BY <2>1, OpenGoto DEF At
<1>4. CASE BuildV6 /\ ~Abort
  <2>1. At("build", "v6") /\ Goto("frag") /\ UNCHANGED natState
    BY <1>4 DEF BuildV6, ApplyV6, natState
  <2> QED BY <2>1, OpenOther DEF Goto, natState
<1>5. CASE BuildFrag
  BY <1>5, OpenFrag
<1>6. CASE BuildFw /\ ~Abort
  <2>1. At("build", "fw") /\ Goto("nat64") /\ UNCHANGED natState
    BY <1>6 DEF BuildFw, ApplyFw, natState
  <2> QED BY <2>1, OpenOther DEF Goto, natState
<1>7. CASE BuildNat64 /\ ~Abort
  <2>1. At("build", "nat64") /\ op' = Idle /\ UNCHANGED natState
    BY <1>7 DEF BuildNat64, Done, natState
  <2> QED BY <2>1, OpenOther DEF natState
<1> QED
  BY <1>1, <1>2, <1>3, <1>4, <1>5, <1>6, <1>7
     DEF Build, BuildTimeouts, BuildV6, BuildFw, BuildNat64, At

LEMMA OpenStep == OpenInv /\ [Next]_vars => OpenInv'
<1> SUFFICES ASSUME OpenInv, [Next]_vars PROVE OpenInv'
  OBVIOUS
<1>1. CASE RulesStart
  BY <1>1, OpenStart
<1>2. CASE Build
  BY <1>2, OpenBuild
<1>3. CASE SetNatFlushNat \/ SetNatFlushFilter \/ SetNatEmit \/ SetV6Emit
  BY <1>3, OpenFlushNat, OpenFlushFilter, OpenNatEmit, OpenV6Emit
<1>4. CASE SetNatApply
  BY <1>4, OpenApplyNat, OpenAbort DEF SetNatApply, At
<1>5. CASE SetNatTimeouts
  <2>1. At("nat", "timeouts") /\ (Abort \/ (Goto("emit") /\ UNCHANGED natState))
    BY <1>5 DEF SetNatTimeouts, ApplyTimeouts, natState
  <2> QED BY <2>1, OpenGoto, OpenAbort DEF At
<1>6. CASE SetV6Flush
  BY <1>6, OpenOther DEF SetV6Flush, Goto, Swallow
<1>7. CASE SetV6Apply
  <2>1. At("v6", "apply6") /\ (Abort \/ (Goto("emit") /\ UNCHANGED natState))
    BY <1>7 DEF SetV6Apply, ApplyV6, natState
  <2> QED BY <2>1, OpenOther, OpenAbort DEF At, Goto, natState
<1>8. CASE SetFwDelete
  BY <1>8, OpenOther DEF SetFwDelete, Goto, Swallow
<1>9. CASE SetFwApply
  <2>1. At("fw", "applyFw") /\ (Abort \/ (Goto("emit") /\ UNCHANGED natState))
    BY <1>9 DEF SetFwApply, ApplyFw, natState
  <2> QED BY <2>1, OpenOther, OpenAbort DEF At, Goto, natState
<1>10. CASE SetFwEmit
  BY <1>10, OpenOther DEF SetFwEmit, Done
<1>11. CASE FlushConntrack
  <2>1. At("flush", "conntrack") /\ (Abort \/ (op' = Idle /\ UNCHANGED natState))
    BY <1>11 DEF FlushConntrack, Done, natState
  <2> QED BY <2>1, OpenOther, OpenAbort DEF At, natState
<1>12. CASE SetDownClear
  <2>1. PICK next \in {"emit", "netem"} : op' = [op EXCEPT !.pc = next]
    BY <1>12 DEF SetDownClear, Goto
  <2> QED BY <1>12, <2>1, OpenOther DEF SetDownClear, Swallow
<1>13. CASE SetDownNetem
  <2>1. PICK next \in {"emit", "tbf"} : op' = [op EXCEPT !.pc = next]
    BY <1>13 DEF SetDownNetem, Goto
  <2> QED BY <1>13, <2>1, OpenOther DEF SetDownNetem, Swallow
<1>14. CASE SetDownTbf
  BY <1>14, OpenOther DEF SetDownTbf, Goto, Swallow
<1>15. CASE SetDownEmit
  BY <1>15, OpenOther DEF SetDownEmit, Done
<1>16. ASSUME UNCHANGED <<natState, op>> PROVE OpenInv'
  BY <1>16 DEF OpenInv, natState, IsOp, At, Ruling, Guarded
<1>17. CASE Traffic
  BY <1>16, <1>17 DEF Traffic, Outbound, FlowExpires, ConeExpires, KeepRules, natState
<1>18. CASE UNCHANGED rulesVars
  BY <1>16, <1>18 DEF rulesVars, natState
<1> QED
  BY <1>1, <1>2, <1>3, <1>4, <1>5, <1>6, <1>7, <1>8, <1>9, <1>10, <1>11, <1>12, <1>13,
     <1>14, <1>15, <1>17, <1>18
     DEF Next, RuleOp, RulesStep, RaOp, RaWorker, vars

\* A filter table that drops what comes from the WAN drops the probe: no
\* rule that accepts it is before.
LEMMA GuardedDropsProbe ==
  ASSUME EstFirst(filter), Guarded PROVE ~Accepts(filter, "probe")
<1> DEFINE hits == {i \in 1..Len(filter) : "probe" \in Matched[filter[i]]}
<1>1. DOMAIN filter = 1..Len(filter) /\ \A i \in 1..Len(filter) : filter[i] \in Rules
  BY DEF EstFirst
<1>2. PICK n \in 1..Len(filter) : filter[n] = "wandrop"
  BY DEF Guarded
<1>3. n \in hits
  BY <1>2 DEF Matched
<1>4. hits \subseteq Nat
  OBVIOUS
<1> HIDE DEF hits
<1>5. PICK m \in hits : \A k \in hits : m <= k
  <2>1. PICK m \in hits : ~ \E k \in hits : <<k, m>> \in OpToRel(<, Nat)
    BY <1>3, <1>4, NatLessThanWellFounded, WFMin
  <2>2. \A k \in hits : ~(k < m)
    BY <1>4, <2>1 DEF OpToRel
  <2> QED BY <1>4, <2>2
<1> USE DEF hits
<1>6. filter[m] \notin AcceptRules
  BY <1>1, <1>5 DEF Matched, Rules, AcceptRules
<1> QED BY <1>1, <1>5, <1>6 DEF Accepts

\* No operation opens the NAT on the way from one mode to another
\* (router.rs:451-464).
THEOREM NeverOpened == Spec => []NoOpening
<1>1. OpenInv => NoOpening
  <2> SUFFICES ASSUME OpenInv, Delivered("probe"), ~swallowed
               PROVE  Eif(rec.nat) \/ (op.kind = "nat" /\ Eif(op.from))
    BY DEF NoOpening
  <2>1. nat # <<>> /\ Accepts(filter, "probe")
    BY DEF Delivered, Forwards
  <2>2. Eif(Ruling)
    BY <2>1, GuardedDropsProbe DEF OpenInv
  <2> QED BY <2>2 DEF Ruling
<1> QED BY <1>1, OpenInit, OpenStep, PTL DEF Spec
-----------------------------------------------------------------------------
(* How far an operation has come with the rules of its feature, while no    *)
(* error was ignored.  Each feature is on its own: its rules are those of   *)
(* its recorded mode, or they are on the way from nothing to those.         *)

Modes ==
    /\ rec = [nat |-> rec.nat, v6 |-> rec.v6, fw |-> rec.fw]
    /\ seen = [nat |-> seen.nat, v6 |-> seen.v6, fw |-> seen.fw, down |-> seen.down]
    /\ IsOp(op)
    /\ op.kind \in {"none", "failed", "build", "nat", "v6", "fw", "flush", "down"}
    /\ op.kind = "build" =>
         op.pc \in {"nat", "timeouts", "v6", "frag", "fw", "nat64"}
    /\ op.kind \in {"build", "nat"} => op.arg = rec.nat
    /\ op.kind = "fw" => op.arg = rec.fw
    /\ op.kind = "down" => op.arg \in Limits
    /\ op.kind = "build" =>
         seen = [nat |-> rec.nat, v6 |-> rec.v6, fw |-> rec.fw, down |-> "None"]

\* The operation that holds the mutex does not work on the feature.
Rests(kind) == op.kind \notin {kind, "build", "failed"}
InBuild(pcs) == op.kind = "build" /\ op.pc \in pcs

NatOnTheWay ==
    /\ Rests("nat") /\ "nat" \in settled => NatAsRecorded
    /\ At("nat", "flushFilter") => nat = <<>>
    /\ At("nat", "apply") \/ InBuild({"nat"}) => nat = <<>> /\ filter = <<>>
    /\ At("nat", "timeouts") \/ InBuild({"timeouts"}) =>
         rec.nat # "None" /\ NatRules /\ filter = FilterOf(rec.nat)
    /\ At("nat", "emit") \/ InBuild({"v6", "frag"}) =>
         NatRules /\ Timeouts /\ filter = FilterOf(rec.nat)
    /\ InBuild({"fw", "nat64"}) => NatAsRecorded

V6OnTheWay ==
    /\ Rests("v6") /\ "v6" \in settled => V6AsRecorded
    /\ At("v6", "apply6") \/ InBuild({"nat", "timeouts", "v6"}) => nat6 = <<>>
    /\ At("v6", "emit") => nat6 = V6RulesOf(op.arg)
    /\ InBuild({"frag", "fw", "nat64"}) => V6AsRecorded

FwOnTheWay ==
    /\ Rests("fw") /\ "fw" \in settled => FwAsRecorded
    /\ At("fw", "applyFw") \/ InBuild({"nat", "timeouts", "v6", "frag", "fw"}) => fwall = <<>>
    /\ At("fw", "emit") => fwall = FwRulesOf(rec.fw)
    /\ InBuild({"nat64"}) => FwAsRecorded

DownOnTheWay ==
    /\ Rests("down") /\ "down" \in settled => qdisc = QdiscOf(seen.down)
    /\ op.kind = "build" => qdisc = <<>>
    /\ At("down", "netem") => qdisc = <<>> /\ op.arg # "None"
    /\ At("down", "tbf") => qdisc = <<"netem">> /\ op.arg = "Rate"
    /\ At("down", "emit") => qdisc = QdiscOf(op.arg)

\* A feature whose operation ended early is not settled.
Unsettled == op.kind \in {"nat", "v6", "fw", "down"} => op.kind \notin settled

RunInv ==
    /\ Modes /\ Unsettled
    /\ ~swallowed => NatOnTheWay /\ V6OnTheWay /\ FwOnTheWay /\ DownOnTheWay

LEMMA RunInit == Init => RunInv
<1> SUFFICES ASSUME Init PROVE RunInv
  OBVIOUS
<1>1. rec = [nat |-> rec.nat, v6 |-> rec.v6, fw |-> rec.fw]
  BY DEF Init, RulesInit
<1>2. op = [kind |-> "build", pc |-> "nat", arg |-> rec.nat, from |-> rec.nat]
  BY DEF Init, RulesInit
<1>3. seen = [nat |-> rec.nat, v6 |-> rec.v6, fw |-> rec.fw, down |-> "None"]
  BY DEF Init, RulesInit
<1>4. nat = <<>> /\ filter = <<>> /\ nat6 = <<>> /\ fwall = <<>> /\ qdisc = <<>>
  BY DEF Init, RulesInit
<1>5. Modes /\ Unsettled
  BY <1>1, <1>2, <1>3 DEF Modes, IsOp, Unsettled
<1>6. NatOnTheWay /\ V6OnTheWay /\ FwOnTheWay /\ DownOnTheWay
  BY <1>2, <1>4 DEF NatOnTheWay, V6OnTheWay, FwOnTheWay, DownOnTheWay, Rests,
     InBuild, At
<1> QED BY <1>5, <1>6 DEF RunInv

LEMMA RunGoto ==
  ASSUME Modes, NEW pc, Goto(pc)
  PROVE  /\ IsOp(op') /\ op'.kind = op.kind /\ op'.arg = op.arg /\ op'.pc = pc
  BY DEF Modes, IsOp, Goto

LEMMA RunFlushNat == ASSUME RunInv, SetNatFlushNat PROVE RunInv'
<1>1. /\ Modes /\ Goto("flushFilter") /\ At("nat", "flushNat")
      /\ UNCHANGED <<rec, seen, filter, nat6, fwall, stream, qdisc, settled>>
      /\ ~swallowed' => nat' = <<>> /\ ~swallowed
  BY DEF RunInv, SetNatFlushNat, Swallow
<1>2. IsOp(op') /\ op'.kind = op.kind /\ op'.arg = op.arg /\ op'.pc = "flushFilter"
  BY <1>1, RunGoto
<1>3. Modes' /\ Unsettled'
  BY <1>1, <1>2 DEF Modes, RunInv, Unsettled, At
<1>4. ~swallowed' => NatOnTheWay' /\ V6OnTheWay' /\ FwOnTheWay' /\ DownOnTheWay'
  BY <1>1, <1>2 DEF RunInv, NatOnTheWay, V6OnTheWay, FwOnTheWay, DownOnTheWay,
     Rests, InBuild, At, NatAsRecorded, V6AsRecorded, FwAsRecorded, NatRules,
     Timeouts
<1> QED BY <1>3, <1>4 DEF RunInv

LEMMA RunApplyNat ==
  ASSUME RunInv, \/ ApplyNat("v6") /\ At("build", "nat")
                 \/ ApplyNat("emit") /\ At("nat", "apply")
  PROVE  RunInv'
<1>1. /\ Modes
      /\ UNCHANGED <<rec, seen, nat6, fwall, stream, qdisc, settled, swallowed>>
      /\ op.arg = "None" => nat' = nat /\ filter' = filter
      /\ op.arg # "None" =>
           nat' = Append(nat, NatConfig[op.arg]) /\ filter' = filter \o FilterOf(op.arg)
  BY DEF RunInv, ApplyNat
<1>2. PICK pc : /\ Goto(pc)
                /\ pc = IF op.arg # "None" THEN "timeouts"
                        ELSE IF op.kind = "build" THEN "v6" ELSE "emit"
  BY DEF ApplyNat, At
<1>3. IsOp(op') /\ op'.kind = op.kind /\ op'.arg = op.arg /\ op'.pc = pc
  BY <1>1, <1>2, RunGoto
<1>4. op.kind \in {"build", "nat"}
  BY DEF At
<1>5. Modes' /\ Unsettled'
  BY <1>1, <1>2, <1>3, <1>4 DEF Modes, RunInv, Unsettled, At
<1>6. ASSUME ~swallowed' PROVE NatOnTheWay' 
  <2>1. nat = <<>> /\ filter = <<>> /\ op.arg = rec.nat
    BY <1>1, <1>6 DEF RunInv, NatOnTheWay, InBuild, At, Modes
  <2>2. nat' = IF rec.nat = "None" THEN <<>> ELSE <<NatConfig[rec.nat]>>
    BY <1>1, <2>1
  <2>3. filter' = FilterOf(rec.nat)
    BY <1>1, <2>1 DEF FilterOf
  <2> QED
    BY <1>1, <1>2, <1>3, <1>4, <2>1, <2>2, <2>3 DEF NatOnTheWay, NatRules,
       Timeouts, At, InBuild, Rests
<1>7. ASSUME ~swallowed' PROVE V6OnTheWay' /\ FwOnTheWay' /\ DownOnTheWay'
  BY <1>1, <1>2, <1>3, <1>4, <1>7 DEF RunInv, V6OnTheWay, FwOnTheWay,
     DownOnTheWay, Rests, InBuild, At, V6AsRecorded, FwAsRecorded
<1> QED BY <1>5, <1>6, <1>7 DEF RunInv

LEMMA RunAbort == ASSUME RunInv, Abort, op.kind # "none", op.kind # "failed" PROVE RunInv'
<1>1. /\ Modes
      /\ UNCHANGED <<rec, seen, nat, filter, nat6, fwall, stream, qdisc, settled, swallowed>>
      /\ op' = IF op.kind = "build" THEN [op EXCEPT !.kind = "failed"] ELSE Idle
  BY DEF RunInv, Abort
<1>2. IsOp(op') /\ op'.kind = IF op.kind = "build" THEN "failed" ELSE "none"
  BY <1>1 DEF Modes, IsOp, Idle
<1>3. Modes' /\ Unsettled'
  BY <1>1, <1>2 DEF Modes, Unsettled
<1>4. ~swallowed' => NatOnTheWay' /\ V6OnTheWay' /\ FwOnTheWay' /\ DownOnTheWay'
  BY <1>1, <1>2 DEF RunInv, Unsettled, NatOnTheWay, V6OnTheWay, FwOnTheWay,
     DownOnTheWay,
     Rests, InBuild, At, NatAsRecorded, V6AsRecorded, FwAsRecorded, NatRules, Timeouts
<1> QED BY <1>3, <1>4 DEF RunInv

\* The operation returns Ok, and its last point has established its feature.
LEMMA RunDone ==
  ASSUME RunInv, NEW fs, Done(fs),
         UNCHANGED <<nat, filter, nat6, fwall, stream, qdisc, swallowed>>,
         \/ fs = {} /\ op.kind = "flush" /\ UNCHANGED <<rec, seen>>
         \/ /\ fs = {"nat"} /\ At("nat", "emit") /\ rec' = rec
            /\ seen' = [seen EXCEPT !.nat = op.arg]
         \/ /\ fs = {"v6"} /\ At("v6", "emit")
            /\ rec' = [rec EXCEPT !.v6 = op.arg] /\ seen' = [seen EXCEPT !.v6 = op.arg]
         \/ /\ fs = {"fw"} /\ At("fw", "emit") /\ rec' = rec
            /\ seen' = [seen EXCEPT !.fw = op.arg]
         \/ /\ fs = {"down"} /\ At("down", "emit") /\ rec' = rec
            /\ seen' = [seen EXCEPT !.down = op.arg]
         \/ fs = {"nat", "v6", "fw", "down"} /\ At("build", "nat64") /\ UNCHANGED <<rec, seen>>
  PROVE  RunInv'
<1>1. op' = Idle /\ IsOp(op') /\ op'.kind = "none" /\ settled' = settled \cup fs
  BY DEF Done, Idle, IsOp
<1>2. /\ rec' = [nat |-> rec.nat, v6 |-> rec'.v6, fw |-> rec.fw]
      /\ rec'.v6 = IF fs = {"v6"} THEN op.arg ELSE rec.v6
      /\ seen' = [nat |-> seen'.nat, v6 |-> seen'.v6, fw |-> seen'.fw, down |-> seen'.down]
      /\ seen'.nat = IF fs = {"nat"} THEN op.arg ELSE seen.nat
      /\ seen'.v6 = IF fs = {"v6"} THEN op.arg ELSE seen.v6
      /\ seen'.fw = IF fs = {"fw"} THEN op.arg ELSE seen.fw
      /\ seen'.down = IF fs = {"down"} THEN op.arg ELSE seen.down
  BY DEF RunInv, Modes
<1>3. Modes' /\ Unsettled'
  BY <1>1, <1>2 DEF Modes, Unsettled
<1>4. ASSUME ~swallowed' PROVE NatOnTheWay'
  BY <1>1, <1>2, <1>4 DEF RunInv, Modes, NatOnTheWay, Rests, InBuild, At,
     NatAsRecorded, NatRules, Timeouts
<1>5. ASSUME ~swallowed' PROVE V6OnTheWay'
  BY <1>1, <1>2, <1>5 DEF RunInv, Modes, V6OnTheWay, Rests, InBuild, At,
     V6AsRecorded
<1>6. ASSUME ~swallowed' PROVE FwOnTheWay'
  BY <1>1, <1>2, <1>6 DEF RunInv, Modes, FwOnTheWay, Rests, InBuild, At,
     FwAsRecorded
<1>7. ASSUME ~swallowed' PROVE DownOnTheWay'
  <2>1. op.kind = "build" => qdisc = QdiscOf(seen.down)
    BY <1>7 DEF RunInv, Modes, DownOnTheWay, QdiscOf
  <2> QED
    BY <1>1, <1>2, <1>7, <2>1 DEF RunInv, Modes, DownOnTheWay, Rests, InBuild, At
<1> QED BY <1>3, <1>4, <1>5, <1>6, <1>7 DEF RunInv

LEMMA RunStart == ASSUME RunInv, RulesStart PROVE RunInv'
<1>0. op = Idle /\ op.kind = "none"
  BY DEF RulesStart, SetNatStart, SetV6Start, SetFwStart, FlushStart,
     SetDownStart, Begin, Idle
<1>1. ASSUME NEW kind \in {"nat", "v6", "fw", "flush", "down"}, NEW pc, NEW arg,
             Begin(kind, pc, arg),
             settled' = IF kind = "flush" THEN settled ELSE settled \ {kind},
             UNCHANGED <<seen, nat, filter, nat6, fwall, stream, qdisc, swallowed>>,
             <<kind, pc>> \in {<<"nat", "flushNat">>, <<"v6", "flush6">>, <<"fw", "delete">>,
                               <<"flush", "conntrack">>, <<"down", "clear">>},
             kind = "down" => arg \in Limits,
             rec' = CASE kind = "nat" -> [rec EXCEPT !.nat = arg]
                      [] kind = "fw" -> [rec EXCEPT !.fw = arg]
                      [] OTHER -> rec
      PROVE  RunInv'
  <2>1. IsOp(op') /\ op'.kind = kind /\ op'.pc = pc /\ op'.arg = arg
    BY <1>1 DEF Begin, IsOp
  <2>2. /\ rec' = [nat |-> rec'.nat, v6 |-> rec.v6, fw |-> rec'.fw]
        /\ rec'.nat = IF kind = "nat" THEN arg ELSE rec.nat
        /\ rec'.fw = IF kind = "fw" THEN arg ELSE rec.fw
    BY <1>1 DEF RunInv, Modes
  <2>3. Modes' /\ Unsettled'
    BY <1>1, <2>1, <2>2 DEF RunInv, Modes, Unsettled
  <2>4. ~swallowed' => NatOnTheWay' /\ V6OnTheWay' /\ FwOnTheWay' /\ DownOnTheWay'
    BY <1>0, <1>1, <2>1, <2>2 DEF RunInv, NatOnTheWay, V6OnTheWay, FwOnTheWay,
       DownOnTheWay,
     Rests, InBuild, At, NatAsRecorded, V6AsRecorded, FwAsRecorded, NatRules, Timeouts
  <2> QED BY <2>3, <2>4 DEF RunInv
<1>2. ASSUME NEW m \in Nats, SetNatStart(m) PROVE RunInv'
  BY <1>1, <1>2 DEF SetNatStart
<1>3. ASSUME NEW m \in NatsV6, SetV6Start(m) PROVE RunInv'
  BY <1>1, <1>3 DEF SetV6Start
<1>4. ASSUME NEW f \in Firewalls, SetFwStart(f) PROVE RunInv'
  BY <1>1, <1>4 DEF SetFwStart
<1>5. CASE FlushStart
  BY <1>1, <1>5 DEF FlushStart
<1>6. ASSUME NEW c \in Conditions, SetDownStart(c) PROVE RunInv'
  BY <1>1, <1>6, RulesAssumption DEF SetDownStart
<1> QED BY <1>2, <1>3, <1>4, <1>5, <1>6 DEF RulesStart

\* A step inside an operation: it moves on to next, and the recorded and
\* the published modes stay.
Inside(next) == Modes /\ Goto(next) /\ UNCHANGED <<rec, seen, settled>>

LEMMA RunInside ==
  ASSUME RunInv, NEW next, Inside(next),
         op.kind = "build" => next \in {"nat", "timeouts", "v6", "frag", "fw", "nat64"}
  PROVE  /\ Modes' /\ Unsettled'
         /\ op'.kind = op.kind /\ op'.arg = op.arg /\ op'.pc = next
<1>1. IsOp(op') /\ op'.kind = op.kind /\ op'.arg = op.arg /\ op'.pc = next
  BY RunGoto DEF Inside
<1> QED BY <1>1 DEF Inside, Modes, RunInv, Unsettled

LEMMA RunTimeouts ==
  ASSUME RunInv, \/ ApplyTimeouts("v6") /\ At("build", "timeouts")
                 \/ ApplyTimeouts("emit") /\ At("nat", "timeouts")
  PROVE  RunInv'
<1>0. Modes /\ op.arg = rec.nat
  BY DEF RunInv, Modes, At
<1>1. PICK next \in {"v6", "emit"} :
        /\ Inside(next)
        /\ \/ At("build", "timeouts") /\ next = "v6"
           \/ At("nat", "timeouts") /\ next = "emit"
        /\ UNCHANGED <<nat, filter, nat6, fwall, qdisc, swallowed>>
        /\ stream' = NatConfig[op.arg].stream /\ op.arg = rec.nat
  BY <1>0 DEF ApplyTimeouts, Inside
<1>2. Modes' /\ Unsettled' /\ op'.kind = op.kind /\ op'.arg = op.arg /\ op'.pc = next
  BY <1>1, RunInside DEF At
<1>3. ~swallowed' => NatOnTheWay' /\ V6OnTheWay' /\ FwOnTheWay' /\ DownOnTheWay'
  BY <1>1, <1>2 DEF RunInv, Inside, NatOnTheWay, V6OnTheWay, FwOnTheWay,
     DownOnTheWay,
     Rests, InBuild, At, NatAsRecorded, V6AsRecorded, FwAsRecorded, NatRules, Timeouts
<1> QED BY <1>2, <1>3 DEF RunInv

LEMMA RunFlushFilter == ASSUME RunInv, SetNatFlushFilter PROVE RunInv'
<1>1. /\ Inside("apply") /\ At("nat", "flushFilter")
      /\ UNCHANGED <<nat, nat6, fwall, stream, qdisc>>
      /\ ~swallowed' => filter' = <<>> /\ ~swallowed
  BY DEF SetNatFlushFilter, Swallow, Inside, RunInv
<1>2. Modes' /\ Unsettled' /\ op'.kind = op.kind /\ op'.arg = op.arg /\ op'.pc = "apply"
  BY <1>1, RunInside DEF At
<1>3. ~swallowed' => NatOnTheWay' /\ V6OnTheWay' /\ FwOnTheWay' /\ DownOnTheWay'
  BY <1>1, <1>2 DEF RunInv, Inside, NatOnTheWay, V6OnTheWay, FwOnTheWay,
     DownOnTheWay,
     Rests, InBuild, At, NatAsRecorded, V6AsRecorded, FwAsRecorded, NatRules, Timeouts
<1> QED BY <1>2, <1>3 DEF RunInv

LEMMA RunFrag == ASSUME RunInv, BuildFrag, ~Abort PROVE RunInv'
<1>1. /\ Inside("fw") /\ At("build", "frag")
      /\ UNCHANGED <<nat, nat6, fwall, stream, qdisc, swallowed>>
      /\ filter' = filter \/ filter' = Append(filter, "frag")
  BY DEF BuildFrag, Inside, RunInv
<1>2. Modes' /\ Unsettled' /\ op'.kind = op.kind /\ op'.arg = op.arg /\ op'.pc = "fw"
  BY <1>1, RunInside DEF At
<1>3. ASSUME ~swallowed' PROVE NatOnTheWay'
  <2>1. NatRules /\ Timeouts /\ filter = FilterOf(rec.nat) /\ seen.nat = rec.nat
    BY <1>1, <1>3 DEF RunInv, NatOnTheWay, InBuild, At, Modes
  <2>2. NatAsRecorded'
    BY <1>1, <2>1 DEF NatAsRecorded, NatRules, Timeouts, Inside
  <2> QED BY <1>1, <1>2, <2>2 DEF NatOnTheWay, Rests, InBuild, At
<1>4. ~swallowed' => V6OnTheWay' /\ FwOnTheWay' /\ DownOnTheWay'
  BY <1>1, <1>2 DEF RunInv, Inside, NatOnTheWay, V6OnTheWay, FwOnTheWay,
     DownOnTheWay,
     Rests, InBuild, At, NatAsRecorded, V6AsRecorded, FwAsRecorded, NatRules, Timeouts
<1> QED BY <1>2, <1>3, <1>4 DEF RunInv

LEMMA RunV6 ==
  ASSUME RunInv, \/ ApplyV6(rec.v6, "frag") /\ At("build", "v6")
                 \/ ApplyV6(op.arg, "emit") /\ At("v6", "apply6")
  PROVE  RunInv'
<1>1. PICK next, m :
        /\ Inside(next)
        /\ \/ At("build", "v6") /\ next = "frag" /\ m = rec.v6
           \/ At("v6", "apply6") /\ next = "emit" /\ m = op.arg
        /\ UNCHANGED <<nat, filter, fwall, stream, qdisc, swallowed>>
        /\ nat6' = IF m \in {"Nptv6", "Masquerade"} THEN Append(nat6, m) ELSE nat6
  BY DEF ApplyV6, Inside, RunInv
<1>2. Modes' /\ Unsettled' /\ op'.kind = op.kind /\ op'.arg = op.arg /\ op'.pc = next
  BY <1>1, RunInside DEF At
<1>3. ASSUME ~swallowed' PROVE V6OnTheWay'
  <2>1. nat6 = <<>>
    BY <1>1, <1>3 DEF RunInv, V6OnTheWay, InBuild, At
  <2>2. nat6' = V6RulesOf(m)
    BY <1>1, <2>1 DEF V6RulesOf
  <2>3. op.kind = "build" => seen'.v6 = rec'.v6
    BY <1>1 DEF Inside, Modes
  <2> QED
    BY <1>1, <1>2, <2>2, <2>3 DEF V6OnTheWay, Rests, InBuild, At, V6AsRecorded,
       Inside
<1>4. ~swallowed' => NatOnTheWay' /\ FwOnTheWay' /\ DownOnTheWay'
  BY <1>1, <1>2 DEF RunInv, Inside, NatOnTheWay, V6OnTheWay, FwOnTheWay,
     DownOnTheWay,
     Rests, InBuild, At, NatAsRecorded, V6AsRecorded, FwAsRecorded, NatRules, Timeouts
<1> QED BY <1>2, <1>3, <1>4 DEF RunInv

LEMMA RunV6Flush == ASSUME RunInv, SetV6Flush PROVE RunInv'
<1>1. /\ Inside("apply6") /\ At("v6", "flush6")
      /\ UNCHANGED <<nat, filter, fwall, stream, qdisc>>
      /\ ~swallowed' => nat6' = <<>> /\ ~swallowed
  BY DEF SetV6Flush, Swallow, Inside, RunInv
<1>2. Modes' /\ Unsettled' /\ op'.kind = op.kind /\ op'.arg = op.arg /\ op'.pc = "apply6"
  BY <1>1, RunInside DEF At
<1>3. ~swallowed' => NatOnTheWay' /\ V6OnTheWay' /\ FwOnTheWay' /\ DownOnTheWay'
  BY <1>1, <1>2 DEF RunInv, Inside, NatOnTheWay, V6OnTheWay, FwOnTheWay,
     DownOnTheWay,
     Rests, InBuild, At, NatAsRecorded, V6AsRecorded, FwAsRecorded, NatRules, Timeouts
<1> QED BY <1>2, <1>3 DEF RunInv

LEMMA RunFw ==
  ASSUME RunInv, \/ ApplyFw(rec.fw, "nat64") /\ At("build", "fw")
                 \/ ApplyFw(op.arg, "emit") /\ At("fw", "applyFw")
  PROVE  RunInv'
<1>1. PICK next \in {"nat64", "emit"} :
        /\ Inside(next)
        /\ \/ At("build", "fw") /\ next = "nat64"
           \/ At("fw", "applyFw") /\ next = "emit"
        /\ UNCHANGED <<nat, filter, nat6, stream, qdisc, swallowed>>
        /\ fwall' = fwall \o FwRulesOf(rec.fw)
  BY DEF ApplyFw, Inside, RunInv, Modes, At
<1>2. Modes' /\ Unsettled' /\ op'.kind = op.kind /\ op'.arg = op.arg /\ op'.pc = next
  BY <1>1, RunInside DEF At
<1>3. ASSUME ~swallowed' PROVE FwOnTheWay'
  <2>1. fwall = <<>>
    BY <1>1, <1>3 DEF RunInv, FwOnTheWay, InBuild, At
  <2>2. fwall' = FwRulesOf(rec.fw)
    BY <1>1, <2>1, FwRulesOfEstFirst DEF EstFirst
  <2> QED
    BY <1>1, <1>2, <2>2 DEF FwOnTheWay, Rests, InBuild, At, FwAsRecorded, Inside,
       Modes
<1>4. ~swallowed' => NatOnTheWay' /\ V6OnTheWay' /\ DownOnTheWay'
  BY <1>1, <1>2 DEF RunInv, Inside, NatOnTheWay, V6OnTheWay, FwOnTheWay,
     DownOnTheWay,
     Rests, InBuild, At, NatAsRecorded, V6AsRecorded, FwAsRecorded, NatRules, Timeouts
<1> QED BY <1>2, <1>3, <1>4 DEF RunInv

LEMMA RunFwDelete == ASSUME RunInv, SetFwDelete PROVE RunInv'
<1>1. /\ Inside("applyFw") /\ At("fw", "delete")
      /\ UNCHANGED <<nat, filter, nat6, stream, qdisc>>
      /\ ~swallowed' => fwall' = <<>> /\ ~swallowed
  BY DEF SetFwDelete, Swallow, Inside, RunInv
<1>2. Modes' /\ Unsettled' /\ op'.kind = op.kind /\ op'.arg = op.arg /\ op'.pc = "applyFw"
  BY <1>1, RunInside DEF At
<1>3. ~swallowed' => NatOnTheWay' /\ V6OnTheWay' /\ FwOnTheWay' /\ DownOnTheWay'
  BY <1>1, <1>2 DEF RunInv, Inside, NatOnTheWay, V6OnTheWay, FwOnTheWay,
     DownOnTheWay,
     Rests, InBuild, At, NatAsRecorded, V6AsRecorded, FwAsRecorded, NatRules, Timeouts
<1> QED BY <1>2, <1>3 DEF RunInv

LEMMA NetemThenTbf == Append(<<"netem">>, "tbf") = <<"netem", "tbf">>
<1> DEFINE S == {"netem", "tbf"}
           s == Append(<<"netem">>, "tbf")
           t == <<"netem", "tbf">>
<1>1. s \in Seq(S) /\ t \in Seq(S) /\ Len(s) = 2 /\ Len(t) = 2
  OBVIOUS
<1>2. \A i \in 1..2 : s[i] = t[i]
  OBVIOUS
<1> HIDE DEF S, s, t
<1>3. s = t
  BY <1>1, <1>2, SeqEqual
<1> QED BY <1>3 DEF s, t

LEMMA RunDown == ASSUME RunInv, SetDownClear \/ SetDownNetem \/ SetDownTbf PROVE RunInv'
<1>1. PICK next \in {"emit", "netem", "tbf"} :
        /\ Inside(next) /\ op.kind = "down"
        /\ UNCHANGED <<nat, filter, nat6, fwall, stream>>
        /\ ~swallowed' =>
             /\ ~swallowed
             /\ \/ /\ op.pc = "clear" /\ qdisc' = <<>>
                   /\ next = IF op.arg = "None" THEN "emit" ELSE "netem"
                \/ /\ op.pc = "netem" /\ qdisc = <<>> /\ qdisc' = <<"netem">>
                   /\ next = IF op.arg = "Rate" THEN "tbf" ELSE "emit"
                \/ /\ op.pc = "netem" /\ qdisc # <<>>
                \/ op.pc = "tbf" /\ qdisc' = Append(qdisc, "tbf") /\ next = "emit"
  BY DEF SetDownClear, SetDownNetem, SetDownTbf, At, Swallow, Inside, RunInv
<1>2. Modes' /\ Unsettled' /\ op'.kind = op.kind /\ op'.arg = op.arg /\ op'.pc = next
  BY <1>1, RunInside
<1>3. ASSUME ~swallowed' PROVE DownOnTheWay'
  <2>1. op.arg \in Limits
    BY <1>1 DEF Inside, Modes
  <2>2. op.pc = "netem" => qdisc = <<>> /\ op.arg # "None"
    BY <1>1, <1>3 DEF RunInv, DownOnTheWay, At
  <2>3. op.pc = "tbf" => qdisc = <<"netem">> /\ op.arg = "Rate"
    BY <1>1, <1>3 DEF RunInv, DownOnTheWay, At
  <2>4. /\ next = "emit" => qdisc' = QdiscOf(op.arg)
        /\ next = "netem" => qdisc' = <<>> /\ op.arg # "None"
        /\ next = "tbf" => qdisc' = <<"netem">> /\ op.arg = "Rate"
    <3>1. CASE op.pc = "clear"
      BY <1>1, <1>3, <2>1, <3>1 DEF QdiscOf, Limits
    <3>2. CASE op.pc = "netem"
      BY <1>1, <1>3, <2>1, <2>2, <3>2 DEF QdiscOf, Limits
    <3>3. CASE op.pc = "tbf"
      <4>1. op.arg = "Rate" /\ qdisc = <<"netem">>
        BY <2>3, <3>3
      <4>2. qdisc' = Append(qdisc, "tbf") /\ next = "emit"
        BY <1>1, <1>3, <3>3
      <4>3. qdisc' = <<"netem", "tbf">>
        BY <4>1, <4>2, NetemThenTbf
      <4> QED BY <4>1, <4>2, <4>3 DEF QdiscOf
    <3> QED BY <1>1, <1>3, <3>1, <3>2, <3>3
  <2> QED BY <1>1, <1>2, <2>4 DEF DownOnTheWay, Rests, At
<1>4. ~swallowed' => NatOnTheWay' /\ V6OnTheWay' /\ FwOnTheWay'
  BY <1>1, <1>2 DEF RunInv, Inside, NatOnTheWay, V6OnTheWay, FwOnTheWay,
     DownOnTheWay,
     Rests, InBuild, At, NatAsRecorded, V6AsRecorded, FwAsRecorded, NatRules, Timeouts
<1> QED BY <1>2, <1>3, <1>4 DEF RunInv

LEMMA RunStep == RunInv /\ [Next]_vars => RunInv'
<1> SUFFICES ASSUME RunInv, [Next]_vars PROVE RunInv'
  OBVIOUS
<1>0. ASSUME Abort, op.kind \in {"build", "nat", "v6", "fw", "flush"} PROVE RunInv'
  BY <1>0, RunAbort
<1>1. CASE RulesStart
  BY <1>1, RunStart
<1>2. CASE BuildNat \/ SetNatApply
  <2>1. \/ Abort /\ op.kind \in {"build", "nat"}
        \/ ApplyNat("v6") /\ At("build", "nat")
        \/ ApplyNat("emit") /\ At("nat", "apply")
    BY <1>2 DEF BuildNat, SetNatApply, At
  <2> QED BY <1>0, <2>1, RunApplyNat
<1>3. CASE BuildTimeouts \/ SetNatTimeouts
  BY <1>0, <1>3, RunTimeouts DEF BuildTimeouts, SetNatTimeouts, At
<1>4. CASE BuildV6 \/ SetV6Apply
  BY <1>0, <1>4, RunV6 DEF BuildV6, SetV6Apply, At
<1>5. CASE BuildFrag
  BY <1>0, <1>5, RunFrag DEF BuildFrag, At
<1>6. CASE BuildFw \/ SetFwApply
  BY <1>0, <1>6, RunFw DEF BuildFw, SetFwApply, At
<1>7. CASE BuildNat64
  <2>1. CASE Abort
    BY <1>0, <1>7, <2>1 DEF BuildNat64, At
  <2>2. CASE ~Abort
    BY <1>7, <2>2, RunDone DEF BuildNat64
  <2> QED BY <2>1, <2>2
<1>8. CASE SetNatFlushNat \/ SetNatFlushFilter \/ SetV6Flush \/ SetFwDelete
  BY <1>8, RunFlushNat, RunFlushFilter, RunV6Flush, RunFwDelete
<1>9. CASE SetNatEmit \/ SetV6Emit \/ SetFwEmit \/ SetDownEmit
  BY <1>9, RunDone DEF SetNatEmit, SetV6Emit, SetFwEmit, SetDownEmit
<1>10. CASE FlushConntrack
  BY <1>0, <1>10, RunDone DEF FlushConntrack, At
<1>11. CASE SetDownClear \/ SetDownNetem \/ SetDownTbf
  BY <1>11, RunDown
<1>12. ASSUME UNCHANGED <<rec, seen, nat, filter, nat6, fwall, stream, qdisc, op, settled,
                          swallowed>>
       PROVE  RunInv'
  BY <1>12 DEF RunInv, Modes, IsOp, Unsettled,
     NatOnTheWay, V6OnTheWay, FwOnTheWay, DownOnTheWay,
     Rests, InBuild, At, NatAsRecorded, V6AsRecorded, FwAsRecorded, NatRules, Timeouts
<1>13. CASE Traffic
  BY <1>12, <1>13 DEF Traffic, Outbound, FlowExpires, ConeExpires, KeepRules
<1>14. CASE UNCHANGED rulesVars
  BY <1>12, <1>14 DEF rulesVars
<1> QED
  BY <1>1, <1>2, <1>3, <1>4, <1>5, <1>6, <1>7, <1>8, <1>9, <1>10, <1>11, <1>13,
     <1>14
     DEF Next, RuleOp, RulesStep, Build, RaOp, RaWorker, vars

\* Between operations the kernel and the published events have exactly the
\* rules of the recorded modes, whatever modes followed each other and
\* wherever operations on other features failed (router.rs:438-681).
THEOREM RulesFollowRecord == Spec => []RulesAsRecorded
<1>1. RunInv => RulesAsRecorded
  BY DEF RunInv, RulesAsRecorded, NatOnTheWay, V6OnTheWay, FwOnTheWay, DownOnTheWay,
         Rests, Idle
<1> QED BY <1>1, RunInit, RunStep, PTL DEF Spec
-----------------------------------------------------------------------------
(* The default routes of devices follow the RA settings.  A router's        *)
(* operation is due on the devices of the router until it has come to them; *)
(* a device's own operation has read what is still in force when it writes, *)
(* for no RA operation began beside it.                                     *)

\* The route that the device's provisioning mode asks for.
Wanted(d) == Route(via[d], Gateway(d, uplink[d][via[d]]))

\* The RA operation of the device's router still has to come to it.
Due(d) ==
    /\ mode[d] = "ra"
    /\ LET r == uplink[d][via[d]]
       IN rop[r].pc = "targets" \/ (rop[r].pc = "loop" /\ d \in rop[r].todo)

Right(d) ==
    (link[d][via[d]] = "up" /\ uplink[d][via[d]] \notin broken /\ ~Due(d)) =>
        route[d] = Wanted(d)

\* No operation of the device has touched its default route yet.
OldStands(d) ==
    \/ dop[d].kind = "idle"
    \/ dop[d].kind = "default" /\ dop[d].pc = "route"
    \/ dop[d].kind = "replug" /\ (dop[d].pc = "delete" \/ dop[d].iface # via[d])

\* Where an operation of a device has got to with its default route.
Underway(d) ==
    LET o == dop[d] IN
    /\ OldStands(d) => Right(d)
    /\ o.kind = "default" => o.gw = Gateway(d, uplink[d][o.iface])
    /\ (o.kind = "default" /\ o.pc = "commit") => route[d] = Route(o.iface, o.gw)
    /\ o.kind = "up" => o.iface = via[d] /\ o.to = uplink[d][o.iface]
    /\ (o.kind = "up" /\ o.pc = "route") => o.gw = Gateway(d, o.to)
    /\ o.kind = "replug" => o.gw = IF o.iface = via[d] THEN Gateway(d, o.to) ELSE NoRoute
    /\ (o.kind = "replug" /\ o.iface = via[d]) =>
         /\ o.pc = "wire" => route[d] = NoRoute
         /\ o.pc = "commit" => route[d] = Route(o.iface, o.gw)

DopRecs == [kind : {"idle", "default", "up", "replug"},
            pc : {"idle", "route", "commit", "read", "delete", "wire"},
            iface : Ifaces \cup {NoRoute}, to : Routers \cup {NoRoute},
            gw : Routers \cup {NoRoute}]
RopRecs == [pc : {"idle", "targets", "loop"}, install : BOOLEAN, todo : SUBSET Devices]

RaTypes ==
    /\ mode \in [Devices -> IF lab_ra THEN {"ra", "static"} ELSE {"static"}]
    /\ ra \in [Routers -> [on : BOOLEAN, alive : BOOLEAN]]
    /\ via \in [Devices -> Ifaces]
    /\ uplink \in [Devices -> [Ifaces -> Routers]]
    /\ link \in [Devices -> [Ifaces -> {"up", "down", "gone"}]]
    /\ DOMAIN route = Devices
    /\ rop \in [Routers -> RopRecs]
    /\ dop \in [Devices -> DopRecs]
    /\ \A d \in Devices :
         /\ dop[d].kind = "idle" => dop[d] = DopIdle
         /\ dop[d].kind # "idle" => dop[d].iface \in Ifaces
         /\ dop[d].kind \in {"up", "replug"} => dop[d].to \in Routers

\* An RA operation works for the settings that are in force, and on the
\* devices that are on its router, unless they have moved meanwhile.
RopOk(r) ==
    /\ rop[r].pc = "idle" => rop[r] = RopIdle
    /\ rop[r].pc # "idle" => lab_ra /\ rop[r].install = RaDefault(r)
    /\ rop[r].pc = "loop" => \A d \in rop[r].todo :
         mode[d] = "ra" /\ (d \in overlap \/ uplink[d][via[d]] = r)

DevOk(d) ==
    /\ RaBusy => dop[d] = DopIdle
    /\ \/ dop[d].kind = "default" /\ dop[d].pc = "commit"
       \/ route[d] = NoRoute \/ route[d].iface = via[d]
    /\ Underway(d)

FollowInv ==
    /\ RaTypes
    /\ \A r \in Routers : RopOk(r)
    /\ \A d \in Devices \ overlap : DevOk(d)

LEMMA FollowInit == Init => FollowInv
<1> SUFFICES ASSUME Init PROVE FollowInv
  OBVIOUS
<1> USE DEF Init, RaInit
<1>1. \A d \in Devices : dop[d] = DopIdle /\ DopIdle.kind = "idle"
  BY DEF DopIdle
<1>2. \A r \in Routers : rop[r] = RopIdle /\ RopIdle.pc = "idle"
  BY DEF RopIdle
<1>3. \A d \in Devices : via[d] \in Ifaces /\ link[d][via[d]] = "up"
  BY RaAssumption
<1>4. RaTypes
  <2>1. dop \in [Devices -> DopRecs]
    BY DEF DopIdle, DopRecs
  <2>2. rop \in [Routers -> RopRecs]
    BY DEF RopIdle, RopRecs
  <2>3. uplink \in [Devices -> [Ifaces -> Routers]]
    OBVIOUS
  <2>4. via \in [Devices -> Ifaces]
    BY RaAssumption
  <2>5. /\ mode \in [Devices -> IF lab_ra THEN {"ra", "static"} ELSE {"static"}]
        /\ DOMAIN route = Devices
    OBVIOUS
  <2>6. ra \in [Routers -> [on : BOOLEAN, alive : BOOLEAN]]
    OBVIOUS
  <2>7. link \in [Devices -> [Ifaces -> {"up", "down", "gone"}]]
    OBVIOUS
  <2> QED BY <1>1, <2>1, <2>2, <2>3, <2>4, <2>5, <2>6, <2>7 DEF RaTypes
<1>5. \A r \in Routers : RopOk(r)
  BY <1>2 DEF RopOk
<1>6. ASSUME NEW d \in Devices PROVE DevOk(d)
  <2>1. route[d] = Wanted(d)
    BY DEF Wanted
  <2>2. route[d] = NoRoute \/ route[d].iface = via[d]
    BY <2>1 DEF Wanted, Route
  <2>3. Underway(d)
    BY <1>1, <2>1 DEF Underway, Right
  <2> QED BY <1>1, <2>2, <2>3 DEF DevOk
<1> QED BY <1>4, <1>5, <1>6 DEF FollowInv

\* What the state of a device's default route depends on.
About(d) == <<mode[d], via[d], uplink[d], link[d], route[d], dop[d]>>

\* A device stays as it is while another one, or nobody, takes a step.
LEMMA Beside ==
  ASSUME NEW d \in Devices, DevOk(d), UNCHANGED About(d), UNCHANGED <<ra, rop>>,
         broken \subseteq broken'
  PROVE  DevOk(d)'
<1>1. UNCHANGED <<mode[d], via[d], uplink[d], link[d], route[d], dop[d]>>
  BY DEF About
<1>2. (\A r \in Routers : Gateway(d, r)' = Gateway(d, r)) /\ RaBusy' = RaBusy /\ Due(d)' = Due(d)
  BY <1>1 DEF Gateway, RaDefault, RaBusy, Due
<1> QED BY <1>1, <1>2 DEF DevOk, Underway, OldStands, Right, Wanted, Gateway, RaDefault

LEMMA RopOkKept ==
  ASSUME NEW r, RopOk(r), rop'[r] = rop[r], UNCHANGED <<lab_ra, mode>>, ra'[r] = ra[r],
         overlap \subseteq overlap', rop[r].todo \subseteq Devices,
         \A d \in Devices : d \in overlap' \/ uplink'[d][via'[d]] = uplink[d][via[d]]
  PROVE  RopOk(r)'
  BY DEF RopOk, RaDefault

Moves(d) ==
    /\ KeepRouters
    /\ \A e \in Devices \ {d} : UNCHANGED <<via[e], uplink[e], link[e], route[e], dop[e]>>

\* A step of a device's own operation concerns only that device.
LEMMA OwnStep ==
  ASSUME FollowInv, NEW d \in Devices, Moves(d), RaTypes',
         overlap \subseteq overlap',
         d \in overlap' \/ DevOk(d)',
         d \in overlap \/ dop[d].kind # "idle" \/ (via'[d] = via[d] /\ uplink'[d] = uplink[d])
  PROVE  FollowInv'
<1>1. UNCHANGED <<lab_ra, mode, ra, rop, broken>>
  BY DEF Moves, KeepRouters
<1>2. ASSUME NEW r \in Routers PROVE RopOk(r)'
  <2>1. RopOk(r) /\ rop[r].todo \subseteq Devices
    BY DEF FollowInv, RaTypes, RopRecs
  <2>2. CASE d \in overlap \/ (via'[d] = via[d] /\ uplink'[d] = uplink[d])
    <3>1. \A e \in Devices : e \in overlap' \/ uplink'[e][via'[e]] = uplink[e][via[e]]
      BY <2>2 DEF Moves
    <3> QED BY <1>1, <2>1, <3>1, RopOkKept
  <2>3. CASE d \notin overlap /\ dop[d].kind # "idle"
    <3>1. rop[r] = RopIdle
      BY <2>3 DEF FollowInv, DevOk, RaBusy, DopIdle
    <3> QED BY <1>1, <3>1 DEF RopOk, RopIdle
  <2> QED BY <2>2, <2>3
<1>3. ASSUME NEW e \in Devices \ overlap' PROVE DevOk(e)'
  <2>1. CASE e = d
    BY <2>1, <1>3
  <2>2. CASE e # d
    <3>1. DevOk(e)
      BY <1>3 DEF FollowInv
    <3>2. UNCHANGED About(e)
      BY <1>1, <2>2 DEF About, Moves
    <3> QED BY <1>1, <3>1, <3>2, Beside
  <2> QED BY <2>1, <2>2
<1> QED BY <1>2, <1>3 DEF FollowInv

\* What an operation of a device starts with.
LEMMA OverlapGrows ==
  ASSUME NEW d, Overlapping(d)
  PROVE  /\ overlap \subseteq overlap'
         /\ d \notin overlap' => ~RaBusy /\ d \notin overlap
  BY DEF Overlapping

\* An operation in hand, with the interface and the router it is about.
DopOk(o) ==
    /\ o \in DopRecs
    /\ o.kind = "idle" => o = DopIdle
    /\ o.kind # "idle" => o.iface \in Ifaces
    /\ o.kind \in {"up", "replug"} => o.to \in Routers

LEMMA DopTypes ==
  ASSUME RaTypes, NEW d \in Devices, NEW o, DopOk(o), dop' = [dop EXCEPT ![d] = o]
  PROVE  /\ dop' \in [Devices -> DopRecs]
         /\ dop'[d] = o
         /\ \A e \in Devices \ {d} : dop'[e] = dop[e]
         /\ \A e \in Devices : DopOk(dop'[e])
  BY DEF RaTypes, DopOk, DopRecs

LEMMA GatewayType ==
  ASSUME NEW d, NEW r \in Routers PROVE Gateway(d, r) \in Routers \cup {NoRoute}
  BY DEF Gateway

LEMMA FollowStart ==
  ASSUME FollowInv, NEW d \in Devices, NEW i \in Ifaces,
         SetDefaultStart(d, i) \/ \E r \in Routers : ReplugStart(d, i, r)
  PROVE  FollowInv'
<1>1. PICK o : /\ dop[d] = DopIdle /\ dop' = [dop EXCEPT ![d] = o] /\ Overlapping(d)
               /\ KeepRouters /\ UNCHANGED <<via, uplink, link, wired, route>>
               /\ o.kind \in {"default", "replug"} /\ DopOk(o)
               /\ o.kind = "default" => o.pc = "route" /\ o.gw = Gateway(d, uplink[d][o.iface])
               /\ o.kind = "replug" => /\ o.pc = "delete"
                                       /\ o.gw = IF via[d] = o.iface THEN Gateway(d, o.to)
                                                 ELSE NoRoute
  <2>1. CASE SetDefaultStart(d, i)
    <3> DEFINE o == [kind |-> "default", pc |-> "route", iface |-> i, to |-> NoRoute,
                     gw |-> Gateway(d, uplink[d][i])]
    <3>1. uplink[d][i] \in Routers
      BY DEF FollowInv, RaTypes
    <3>2. DopOk(o) /\ o.kind = "default" /\ o.pc = "route" /\ o.gw = Gateway(d, uplink[d][o.iface])
      BY <3>1, GatewayType DEF DopOk, DopRecs
    <3>3. dop' = [dop EXCEPT ![d] = o]
      BY <2>1 DEF SetDefaultStart, Begin6
    <3> HIDE DEF o
    <3> QED BY <2>1, <3>2, <3>3 DEF SetDefaultStart, Begin6
  <2>2. ASSUME NEW r \in Routers, ReplugStart(d, i, r)
        PROVE  \E o : /\ dop[d] = DopIdle /\ dop' = [dop EXCEPT ![d] = o] /\ Overlapping(d)
                      /\ KeepRouters /\ UNCHANGED <<via, uplink, link, wired, route>>
                      /\ o.kind \in {"default", "replug"} /\ DopOk(o)
                      /\ o.kind = "default" =>
                           o.pc = "route" /\ o.gw = Gateway(d, uplink[d][o.iface])
                      /\ o.kind = "replug" =>
                           /\ o.pc = "delete"
                           /\ o.gw = IF via[d] = o.iface THEN Gateway(d, o.to) ELSE NoRoute
    <3> DEFINE o == [kind |-> "replug", pc |-> "delete", iface |-> i, to |-> r,
                     gw |-> IF via[d] = i THEN Gateway(d, r) ELSE NoRoute]
    <3>1. /\ DopOk(o) /\ o.kind = "replug" /\ o.pc = "delete"
          /\ o.gw = IF via[d] = o.iface THEN Gateway(d, o.to) ELSE NoRoute
      BY GatewayType DEF DopOk, DopRecs
    <3>2. dop' = [dop EXCEPT ![d] = o]
      BY <2>2 DEF ReplugStart, Begin6
    <3> HIDE DEF o
    <3> QED BY <2>2, <3>1, <3>2 DEF ReplugStart, Begin6
  <2> QED BY <2>1, <2>2
<1>2. /\ UNCHANGED <<lab_ra, mode, ra, rop, broken, via, uplink, link, route>>
      /\ overlap \subseteq overlap'
      /\ d \notin overlap' => ~RaBusy /\ d \notin overlap
  BY <1>1, OverlapGrows DEF KeepRouters
<1>3. /\ dop' \in [Devices -> DopRecs] /\ dop'[d] = o
      /\ \A e \in Devices \ {d} : dop'[e] = dop[e]
      /\ \A e \in Devices : DopOk(dop'[e])
  BY <1>1, DopTypes DEF FollowInv
<1>4. RaTypes'
  BY <1>2, <1>3 DEF FollowInv, RaTypes, DopOk, DopRecs
<1>5. Moves(d)
  BY <1>1, <1>2, <1>3 DEF Moves
<1>6. ASSUME d \notin overlap' PROVE DevOk(d)'
  <2>1. DevOk(d) /\ ~RaBusy /\ ~RaBusy' /\ dop[d].kind = "idle"
    BY <1>1, <1>2, <1>6 DEF FollowInv, RaBusy, DopIdle
  <2>2. Right(d)
    BY <2>1 DEF DevOk, Underway, OldStands
  <2>3. Right(d)' /\ \A r \in Routers : Gateway(d, r)' = Gateway(d, r)
    BY <1>2, <2>2 DEF Right, Wanted, Due, Gateway, RaDefault
  <2>4. route[d] = NoRoute \/ route[d].iface = via[d]
    BY <2>1 DEF DevOk
  <2>5. Underway(d)'
    BY <1>1, <1>2, <1>3, <2>3 DEF Underway, Gateway, RaDefault
  <2> QED BY <1>2, <2>1, <2>4, <2>5 DEF DevOk
<1> QED BY <1>2, <1>4, <1>5, <1>6, OwnStep

\* A step of an operation in hand, which becomes o.
LEMMA OwnMove ==
  ASSUME FollowInv, NEW d \in Devices, NEW o, DopOk(o), dop' = [dop EXCEPT ![d] = o],
         KeepRouters, overlap \subseteq overlap',
         via' \in [Devices -> Ifaces], uplink' \in [Devices -> [Ifaces -> Routers]],
         link' \in [Devices -> [Ifaces -> {"up", "down", "gone"}]], DOMAIN route' = Devices,
         \A e \in Devices \ {d} : UNCHANGED <<via[e], uplink[e], link[e], route[e]>>,
         d \in overlap \/ dop[d].kind # "idle" \/ (via'[d] = via[d] /\ uplink'[d] = uplink[d]),
         d \notin overlap' =>
            /\ ~RaBusy
            /\ \/ o.kind = "default" /\ o.pc = "commit"
               \/ route'[d] = NoRoute \/ route'[d].iface = via'[d]
            /\ Underway(d)'
  PROVE  FollowInv'
<1>1. /\ dop' \in [Devices -> DopRecs] /\ dop'[d] = o
      /\ \A e \in Devices \ {d} : dop'[e] = dop[e]
      /\ \A e \in Devices : DopOk(dop'[e])
  BY DopTypes DEF FollowInv
<1>2. UNCHANGED <<lab_ra, mode, ra, rop, broken>>
  BY DEF KeepRouters
<1>3. RaTypes'
  BY <1>1, <1>2 DEF FollowInv, RaTypes, DopOk, DopRecs
<1>4. Moves(d)
  BY <1>1 DEF Moves
<1>5. d \in overlap' \/ DevOk(d)'
  BY <1>1, <1>2 DEF DevOk, RaBusy
<1> QED BY <1>3, <1>4, <1>5, OwnStep

\* What is known of a device whose operation is not beside an RA operation.
LEMMA InHand ==
  ASSUME FollowInv, NEW d \in Devices, dop[d].kind # "idle"
  PROVE  /\ DopOk(dop[d]) /\ dop[d].iface \in Ifaces
         /\ via[d] \in Ifaces
         /\ d \notin overlap => ~RaBusy /\ DevOk(d)
<1>1. DopOk(dop[d]) /\ dop[d].iface \in Ifaces /\ via[d] \in Ifaces
  BY DEF FollowInv, RaTypes, DopOk, DopRecs
<1>2. d \notin overlap => ~RaBusy /\ DevOk(d)
  BY DEF FollowInv, DevOk, DopIdle
<1> QED BY <1>1, <1>2

LEMMA IdleOk == DopOk(DopIdle) /\ DopIdle.kind = "idle"
  BY DEF DopOk, DopRecs, DopIdle

LEMMA FollowDefaultRoute ==
  ASSUME FollowInv, NEW d \in Devices, SetDefaultRoute(d) PROVE FollowInv'
<1>1. /\ dop[d].kind = "default" /\ dop[d].pc = "route" /\ dop[d].kind # "idle"
      /\ KeepRouters /\ UNCHANGED <<via, uplink, link, overlap>>
      /\ UNCHANGED <<lab_ra, mode, ra, rop, broken>>
  BY DEF SetDefaultRoute, KeepRouters
<1>2. /\ DopOk(dop[d]) /\ dop[d].iface \in Ifaces
      /\ d \notin overlap => ~RaBusy /\ DevOk(d)
  BY <1>1, InHand
<1>3. /\ via \in [Devices -> Ifaces] /\ uplink \in [Devices -> [Ifaces -> Routers]]
      /\ link \in [Devices -> [Ifaces -> {"up", "down", "gone"}]] /\ DOMAIN route = Devices
      /\ dop \in [Devices -> DopRecs]
  BY DEF FollowInv, RaTypes, DopRecs
<1>4. CASE link[d][dop[d].iface] = "up"
  <2> DEFINE o == [dop[d] EXCEPT !.pc = "commit"]
  <2>1. /\ DopOk(o) /\ o.kind = "default" /\ o.pc = "commit"
        /\ o.iface = dop[d].iface /\ o.gw = dop[d].gw
    BY <1>1, <1>2 DEF DopOk, DopRecs
  <2>2. dop' = [dop EXCEPT ![d] = o]
    BY <1>4 DEF SetDefaultRoute, DopGoto
  <2> HIDE DEF o
  <2>3. dop'[d] = o
    BY <1>3, <2>2
  <2>4. /\ DOMAIN route' = Devices /\ route'[d] = Route(dop[d].iface, dop[d].gw)
        /\ \A e \in Devices \ {d} : route'[e] = route[e]
    BY <1>3, <1>4 DEF SetDefaultRoute
  <2>5. ASSUME d \notin overlap PROVE Underway(d)'
    <3>1. dop[d].gw = Gateway(d, uplink[d][dop[d].iface])
      BY <1>1, <1>2, <2>5 DEF DevOk, Underway
    <3> QED
      BY <1>1, <2>1, <2>3, <2>4, <3>1 DEF Underway, OldStands, Gateway, RaDefault
  <2> QED BY <1>1, <1>2, <1>3, <2>1, <2>2, <2>4, <2>5, OwnMove
<1>5. CASE link[d][dop[d].iface] # "up"
  <2>1. dop' = [dop EXCEPT ![d] = DopIdle] /\ route' = route
    BY <1>5 DEF SetDefaultRoute, End
  <2>2. dop'[d] = DopIdle
    BY <1>3, <2>1
  <2>3. ASSUME d \notin overlap
        PROVE  Underway(d)' /\ (route[d] = NoRoute \/ route[d].iface = via[d])
    <3>1. Right(d) /\ (route[d] = NoRoute \/ route[d].iface = via[d])
      BY <1>1, <1>2, <2>3 DEF DevOk, Underway, OldStands
    <3>2. Right(d)'
      BY <1>1, <2>1, <3>1 DEF Right, Due, Wanted, Gateway, RaDefault
    <3> QED BY <2>2, <3>1, <3>2, IdleOk DEF Underway
  <2> QED BY <1>1, <1>2, <1>3, <2>1, <2>3, IdleOk, OwnMove
<1> QED BY <1>4, <1>5

LEMMA FollowDefaultCommit ==
  ASSUME FollowInv, NEW d \in Devices, SetDefaultCommit(d) PROVE FollowInv'
<1>1. /\ dop[d].kind = "default" /\ dop[d].pc = "commit" /\ dop[d].kind # "idle"
      /\ KeepRouters /\ UNCHANGED <<uplink, link, route, overlap>>
      /\ UNCHANGED <<lab_ra, mode, ra, rop, broken>>
      /\ via' = [via EXCEPT ![d] = dop[d].iface]
      /\ dop' = [dop EXCEPT ![d] = DopIdle]
  BY DEF SetDefaultCommit, KeepRouters, End
<1>2. /\ DopOk(dop[d]) /\ dop[d].iface \in Ifaces
      /\ d \notin overlap => ~RaBusy /\ DevOk(d)
  BY <1>1, InHand
<1>3. /\ via \in [Devices -> Ifaces] /\ uplink \in [Devices -> [Ifaces -> Routers]]
      /\ link \in [Devices -> [Ifaces -> {"up", "down", "gone"}]] /\ DOMAIN route = Devices
      /\ dop \in [Devices -> DopRecs]
  BY DEF FollowInv, RaTypes, DopRecs
<1>4. /\ via' \in [Devices -> Ifaces] /\ via'[d] = dop[d].iface /\ dop'[d] = DopIdle
      /\ \A e \in Devices \ {d} : via'[e] = via[e]
  BY <1>1, <1>2, <1>3
<1>5. ASSUME d \notin overlap
      PROVE  Underway(d)' /\ (route[d] = NoRoute \/ route[d].iface = via'[d])
  <2>1. route[d] = Route(dop[d].iface, Gateway(d, uplink[d][dop[d].iface]))
    BY <1>1, <1>2, <1>5 DEF DevOk, Underway
  <2>2. Right(d)'
    BY <1>1, <1>4, <2>1 DEF Right, Wanted, Gateway, RaDefault
  <2>3. route[d] = NoRoute \/ route[d].iface = via'[d]
    BY <1>4, <2>1 DEF Route
  <2> QED BY <1>4, <2>2, <2>3, IdleOk DEF Underway
<1> QED BY <1>1, <1>2, <1>3, <1>4, <1>5, IdleOk, OwnMove

LEMMA FollowLinkDown ==
  ASSUME FollowInv, NEW d \in Devices, NEW i \in Ifaces, LinkDown(d, i) PROVE FollowInv'
<1>1. /\ dop[d] = DopIdle /\ dop' = dop /\ KeepRouters /\ UNCHANGED <<via, uplink>>
      /\ UNCHANGED <<lab_ra, mode, ra, rop, broken>>
      /\ link' = [link EXCEPT ![d][i] = "down"] /\ route' = Dropped(d, i)
      /\ overlap \subseteq overlap'
      /\ d \notin overlap' => ~RaBusy /\ d \notin overlap
  BY OverlapGrows DEF LinkDown, KeepRouters
<1>2. /\ via \in [Devices -> Ifaces] /\ uplink \in [Devices -> [Ifaces -> Routers]]
      /\ link \in [Devices -> [Ifaces -> {"up", "down", "gone"}]] /\ DOMAIN route = Devices
      /\ dop \in [Devices -> DopRecs]
  BY DEF FollowInv, RaTypes, DopRecs
<1>3. /\ link' \in [Devices -> [Ifaces -> {"up", "down", "gone"}]]
      /\ \A e \in Devices \ {d} : link'[e] = link[e]
      /\ \A j \in Ifaces : link'[d][j] = IF j = i THEN "down" ELSE link[d][j]
  BY <1>1, <1>2
<1>4. /\ DOMAIN route' = Devices /\ \A e \in Devices \ {d} : route'[e] = route[e]
      /\ route'[d] = IF route[d] # NoRoute /\ route[d].iface = i THEN NoRoute ELSE route[d]
  BY <1>1, <1>2 DEF Dropped
<1>5. dop' = [dop EXCEPT ![d] = DopIdle]
  BY <1>1, <1>2
<1>6. ASSUME d \notin overlap'
      PROVE  Underway(d)' /\ (route'[d] = NoRoute \/ route'[d].iface = via'[d])
  <2>1. Right(d) /\ (route[d] = NoRoute \/ route[d].iface = via[d])
    BY <1>1, <1>6, IdleOk DEF FollowInv, DevOk, Underway, OldStands
  <2>2. CASE via[d] = i
    <3>1. link'[d][via'[d]] = "down"
      BY <1>1, <1>2, <1>3, <2>2
    <3> QED BY <1>1, <1>4, <2>1, <3>1, IdleOk DEF Underway, Right
  <2>3. CASE via[d] # i
    <3>1. route'[d] = route[d] /\ link'[d][via'[d]] = link[d][via[d]]
      BY <1>1, <1>2, <1>3, <1>4, <2>1, <2>3
    <3>2. Right(d)'
      BY <1>1, <2>1, <3>1 DEF Right, Due, Wanted, Gateway, RaDefault
    <3> QED BY <1>1, <2>1, <3>1, <3>2, IdleOk DEF Underway
  <2> QED BY <2>2, <2>3
<1> QED BY ZenonT(40), <1>1, <1>2, <1>3, <1>4, <1>5, <1>6, IdleOk, OwnMove

LEMMA FollowLinkUp ==
  ASSUME FollowInv, NEW d \in Devices, NEW i \in Ifaces, LinkUp(d, i) PROVE FollowInv'
<1>1. /\ dop[d] = DopIdle /\ KeepRouters /\ UNCHANGED <<via, uplink, route>>
      /\ UNCHANGED <<lab_ra, mode, ra, rop, broken>>
      /\ link' = [link EXCEPT ![d][i] = "up"]
      /\ overlap \subseteq overlap'
      /\ d \notin overlap' => ~RaBusy /\ d \notin overlap
  BY OverlapGrows DEF LinkUp, KeepRouters
<1>2. /\ via \in [Devices -> Ifaces] /\ uplink \in [Devices -> [Ifaces -> Routers]]
      /\ link \in [Devices -> [Ifaces -> {"up", "down", "gone"}]] /\ DOMAIN route = Devices
      /\ dop \in [Devices -> DopRecs]
  BY DEF FollowInv, RaTypes, DopRecs
<1>3. /\ link' \in [Devices -> [Ifaces -> {"up", "down", "gone"}]]
      /\ \A e \in Devices \ {d} : link'[e] = link[e]
      /\ \A j \in Ifaces : link'[d][j] = IF j = i THEN "up" ELSE link[d][j]
  BY <1>1, <1>2
<1>4. ASSUME d \notin overlap' PROVE Right(d) /\ (route[d] = NoRoute \/ route[d].iface = via[d])
  BY <1>1, <1>4, IdleOk DEF FollowInv, DevOk, Underway, OldStands
<1>5. CASE via[d] = i
  <2> DEFINE o == [kind |-> "up", pc |-> "read", iface |-> i, to |-> uplink[d][i],
                   gw |-> NoRoute]
  <2>1. /\ DopOk(o) /\ o.kind = "up" /\ o.pc = "read"
        /\ o.iface = i /\ o.to = uplink[d][i]
    BY <1>2 DEF DopOk, DopRecs
  <2>2. dop' = [dop EXCEPT ![d] = o]
    BY <1>5 DEF LinkUp
  <2> HIDE DEF o
  <2>3. dop'[d] = o
    BY <1>2, <2>2
  <2>4. Underway(d)'
    BY <1>1, <1>5, <2>1, <2>3 DEF Underway, OldStands
  <2> QED BY <1>1, <1>2, <1>3, <1>4, <2>1, <2>2, <2>4, OwnMove
<1>6. CASE via[d] # i
  <2>1. dop' = [dop EXCEPT ![d] = DopIdle]
    BY <1>6 DEF LinkUp
  <2>2. dop'[d] = DopIdle
    BY <1>2, <2>1
  <2>3. ASSUME d \notin overlap' PROVE Underway(d)'
    <3>1. link'[d][via'[d]] = link[d][via[d]]
      BY <1>1, <1>2, <1>3, <1>6
    <3>2. Right(d)'
      BY <1>1, <1>4, <2>3, <3>1 DEF Right, Due, Wanted, Gateway, RaDefault
    <3> QED BY <2>2, <3>2, IdleOk DEF Underway
  <2> QED BY <1>1, <1>2, <1>3, <1>4, <2>1, <2>3, IdleOk, OwnMove
<1> QED BY <1>5, <1>6

LEMMA FollowLinkUpRead ==
  ASSUME FollowInv, NEW d \in Devices, LinkUpRead(d) PROVE FollowInv'
<1>1. /\ dop[d].kind = "up" /\ dop[d].pc = "read" /\ dop[d].kind # "idle"
      /\ KeepRouters /\ UNCHANGED <<via, uplink, link, route, overlap>>
      /\ UNCHANGED <<lab_ra, mode, ra, rop, broken>>
  BY DEF LinkUpRead, KeepRouters
<1>2. /\ DopOk(dop[d]) /\ dop[d].to \in Routers
      /\ d \notin overlap => ~RaBusy /\ DevOk(d)
  BY <1>1, InHand DEF DopOk
<1>3. /\ via \in [Devices -> Ifaces] /\ uplink \in [Devices -> [Ifaces -> Routers]]
      /\ link \in [Devices -> [Ifaces -> {"up", "down", "gone"}]] /\ DOMAIN route = Devices
      /\ dop \in [Devices -> DopRecs]
  BY DEF FollowInv, RaTypes, DopRecs
<1> DEFINE o == [dop[d] EXCEPT !.pc = "route", !.gw = Gateway(d, dop[d].to)]
<1>4. /\ DopOk(o) /\ o.kind = "up" /\ o.pc = "route" /\ o.to = dop[d].to
      /\ o.iface = dop[d].iface /\ o.gw = Gateway(d, dop[d].to)
  BY <1>1, <1>2, GatewayType DEF DopOk, DopRecs
<1>5. dop' = [dop EXCEPT ![d] = o]
  BY <1>3 DEF LinkUpRead
<1> HIDE DEF o
<1>6. dop'[d] = o
  BY <1>3, <1>5
<1>7. ASSUME d \notin overlap
      PROVE  Underway(d)' /\ (route[d] = NoRoute \/ route[d].iface = via[d])
  BY <1>1, <1>2, <1>4, <1>6, <1>7 DEF DevOk, Underway, OldStands, Gateway, RaDefault
<1> QED BY <1>1, <1>2, <1>3, <1>4, <1>5, <1>7, OwnMove

LEMMA FollowLinkUpRoute ==
  ASSUME FollowInv, NEW d \in Devices, LinkUpRoute(d) PROVE FollowInv'
<1>1. /\ dop[d].kind = "up" /\ dop[d].pc = "route" /\ dop[d].kind # "idle"
      /\ KeepRouters /\ UNCHANGED <<via, uplink, link, overlap>>
      /\ UNCHANGED <<lab_ra, mode, ra, rop, broken>>
      /\ route' = [route EXCEPT ![d] = Route(dop[d].iface, dop[d].gw)]
      /\ dop' = [dop EXCEPT ![d] = DopIdle]
  BY DEF LinkUpRoute, KeepRouters, End
<1>2. d \notin overlap => ~RaBusy /\ DevOk(d)
  BY <1>1, InHand
<1>3. /\ via \in [Devices -> Ifaces] /\ uplink \in [Devices -> [Ifaces -> Routers]]
      /\ link \in [Devices -> [Ifaces -> {"up", "down", "gone"}]] /\ DOMAIN route = Devices
      /\ dop \in [Devices -> DopRecs]
  BY DEF FollowInv, RaTypes, DopRecs
<1>4. /\ DOMAIN route' = Devices /\ route'[d] = Route(dop[d].iface, dop[d].gw)
      /\ \A e \in Devices \ {d} : route'[e] = route[e]
      /\ dop'[d] = DopIdle
  BY <1>1, <1>3
<1>5. ASSUME d \notin overlap
      PROVE  Underway(d)' /\ (route'[d] = NoRoute \/ route'[d].iface = via'[d])
  <2>1. /\ dop[d].iface = via[d] /\ dop[d].to = uplink[d][via[d]]
        /\ dop[d].gw = Gateway(d, uplink[d][via[d]])
    BY <1>1, <1>2, <1>5 DEF DevOk, Underway
  <2>2. Right(d)'
    BY <1>1, <1>4, <2>1 DEF Right, Wanted, Gateway, RaDefault
  <2>3. route'[d] = NoRoute \/ route'[d].iface = via'[d]
    BY <1>1, <1>4, <2>1 DEF Route
  <2> QED BY <1>4, <2>2, <2>3, IdleOk DEF Underway
<1> QED BY <1>1, <1>2, <1>3, <1>4, <1>5, IdleOk, OwnMove

LEMMA FollowReplugDelete ==
  ASSUME FollowInv, NEW d \in Devices, ReplugDelete(d) PROVE FollowInv'
<1> DEFINE i == dop[d].iface
           o == [dop[d] EXCEPT !.pc = "wire"]
<1>1. /\ dop[d].kind = "replug" /\ dop[d].pc = "delete" /\ dop[d].kind # "idle"
      /\ KeepRouters /\ UNCHANGED <<via, uplink, overlap>>
      /\ UNCHANGED <<lab_ra, mode, ra, rop, broken>>
      /\ link' = [link EXCEPT ![d][i] = "gone"] /\ route' = Dropped(d, i)
      /\ dop' = [dop EXCEPT ![d] = o]
  BY DEF ReplugDelete, KeepRouters, DopGoto
<1>2. /\ DopOk(dop[d]) /\ i \in Ifaces
      /\ d \notin overlap => ~RaBusy /\ DevOk(d)
  BY <1>1, InHand
<1>3. /\ via \in [Devices -> Ifaces] /\ uplink \in [Devices -> [Ifaces -> Routers]]
      /\ link \in [Devices -> [Ifaces -> {"up", "down", "gone"}]] /\ DOMAIN route = Devices
      /\ dop \in [Devices -> DopRecs]
  BY DEF FollowInv, RaTypes, DopRecs
<1>4. /\ DopOk(o) /\ o.kind = "replug" /\ o.pc = "wire" /\ o.to = dop[d].to
      /\ o.iface = i /\ o.gw = dop[d].gw
  BY <1>1, <1>2 DEF DopOk, DopRecs
<1> HIDE DEF o, i
<1>5. /\ link' \in [Devices -> [Ifaces -> {"up", "down", "gone"}]]
      /\ \A e \in Devices \ {d} : link'[e] = link[e]
      /\ \A j \in Ifaces : link'[d][j] = IF j = i THEN "gone" ELSE link[d][j]
  BY <1>1, <1>2, <1>3
<1>6. /\ DOMAIN route' = Devices /\ \A e \in Devices \ {d} : route'[e] = route[e]
      /\ route'[d] = IF route[d] # NoRoute /\ route[d].iface = i THEN NoRoute ELSE route[d]
      /\ dop'[d] = o
  BY <1>1, <1>3 DEF Dropped
<1>7. ASSUME d \notin overlap
      PROVE  Underway(d)' /\ (route'[d] = NoRoute \/ route'[d].iface = via'[d])
  <2>1. /\ Right(d) /\ (route[d] = NoRoute \/ route[d].iface = via[d])
        /\ dop[d].gw = IF i = via[d] THEN Gateway(d, dop[d].to) ELSE NoRoute
    BY <1>1, <1>2, <1>7 DEF DevOk, Underway, OldStands, i
  <2>2. CASE via[d] = i
    <3>1. route'[d] = NoRoute
      BY <1>6, <2>1, <2>2
    <3> QED BY <1>1, <1>4, <1>6, <2>1, <2>2, <3>1 DEF Underway, OldStands, Gateway, RaDefault
  <2>3. CASE via[d] # i
    <3>1. route'[d] = route[d] /\ link'[d][via'[d]] = link[d][via[d]]
      BY <1>1, <1>3, <1>5, <1>6, <2>1, <2>3
    <3>2. Right(d)'
      BY <1>1, <2>1, <3>1 DEF Right, Due, Wanted, Gateway, RaDefault
    <3> QED BY <1>1, <1>4, <1>6, <2>1, <2>3, <3>1, <3>2 DEF Underway
  <2> QED BY <2>2, <2>3
<1>8. /\ via' \in [Devices -> Ifaces] /\ uplink' \in [Devices -> [Ifaces -> Routers]]
      /\ overlap \subseteq overlap' /\ dop[d].kind # "idle" /\ KeepRouters
      /\ \A e \in Devices \ {d} : UNCHANGED <<via[e], uplink[e], link[e], route[e]>>
  BY <1>1, <1>3, <1>5, <1>6
<1>9. d \notin overlap' =>
        /\ ~RaBusy /\ (route'[d] = NoRoute \/ route'[d].iface = via'[d]) /\ Underway(d)'
  BY <1>1, <1>2, <1>7
<1> QED BY ZenonT(40), <1>1, <1>4, <1>5, <1>6, <1>8, <1>9, OwnMove

LEMMA FollowReplugWire ==
  ASSUME FollowInv, NEW d \in Devices, ReplugWire(d) PROVE FollowInv'
<1> DEFINE i == dop[d].iface
           o == [dop[d] EXCEPT !.pc = "commit"]
<1>1. /\ dop[d].kind = "replug" /\ dop[d].pc = "wire" /\ dop[d].kind # "idle"
      /\ KeepRouters /\ UNCHANGED <<via, uplink, overlap>>
      /\ UNCHANGED <<lab_ra, mode, ra, rop, broken>>
      /\ link' = [link EXCEPT ![d][i] = "up"]
      /\ route' = [route EXCEPT ![d] =
                     IF route[d] = NoRoute THEN Route(i, dop[d].gw) ELSE route[d]]
      /\ dop' = [dop EXCEPT ![d] = o]
  BY DEF ReplugWire, KeepRouters, DopGoto
<1>2. /\ DopOk(dop[d]) /\ i \in Ifaces
      /\ d \notin overlap => ~RaBusy /\ DevOk(d)
  BY <1>1, InHand
<1>3. /\ via \in [Devices -> Ifaces] /\ uplink \in [Devices -> [Ifaces -> Routers]]
      /\ link \in [Devices -> [Ifaces -> {"up", "down", "gone"}]] /\ DOMAIN route = Devices
      /\ dop \in [Devices -> DopRecs]
  BY DEF FollowInv, RaTypes, DopRecs
<1>4. /\ DopOk(o) /\ o.kind = "replug" /\ o.pc = "commit" /\ o.to = dop[d].to
      /\ o.iface = i /\ o.gw = dop[d].gw
  BY <1>1, <1>2 DEF DopOk, DopRecs
<1> HIDE DEF o, i
<1>5. /\ link' \in [Devices -> [Ifaces -> {"up", "down", "gone"}]]
      /\ \A e \in Devices \ {d} : link'[e] = link[e]
      /\ \A j \in Ifaces : link'[d][j] = IF j = i THEN "up" ELSE link[d][j]
  BY <1>1, <1>2, <1>3
<1>6. /\ DOMAIN route' = Devices /\ \A e \in Devices \ {d} : route'[e] = route[e]
      /\ route'[d] = IF route[d] = NoRoute THEN Route(i, dop[d].gw) ELSE route[d]
      /\ dop'[d] = o
  BY <1>1, <1>3
<1>7. ASSUME d \notin overlap
      PROVE  Underway(d)' /\ (route'[d] = NoRoute \/ route'[d].iface = via'[d])
  <2>1. /\ route[d] = NoRoute \/ route[d].iface = via[d]
        /\ dop[d].gw = IF i = via[d] THEN Gateway(d, dop[d].to) ELSE NoRoute
        /\ i = via[d] => route[d] = NoRoute
        /\ i # via[d] => Right(d)
    BY <1>1, <1>2, <1>7 DEF DevOk, Underway, OldStands, i
  <2>2. CASE via[d] = i
    <3>1. route'[d] = Route(i, dop[d].gw)
      BY <1>6, <2>1, <2>2
    <3>2. route'[d] = NoRoute \/ route'[d].iface = via'[d]
      BY <1>1, <2>2, <3>1 DEF Route
    <3>3. ~OldStands(d)' /\ \A u : Gateway(d, u)' = Gateway(d, u)
      BY <1>1, <1>4, <1>6, <2>2 DEF OldStands, Gateway, RaDefault
    <3> QED BY <1>1, <1>4, <1>6, <2>1, <2>2, <3>1, <3>2, <3>3 DEF Underway
  <2>3. CASE via[d] # i
    <3>1. route'[d] = route[d] /\ link'[d][via'[d]] = link[d][via[d]]
      BY <1>1, <1>3, <1>5, <1>6, <2>1, <2>3 DEF Route
    <3>2. Right(d)'
      BY <1>1, <2>1, <2>3, <3>1 DEF Right, Due, Wanted, Gateway, RaDefault
    <3> QED BY <1>1, <1>4, <1>6, <2>1, <2>3, <3>1, <3>2 DEF Underway
  <2> QED BY <2>2, <2>3
<1> QED BY <1>1, <1>2, <1>3, <1>4, <1>5, <1>6, <1>7, OwnMove

LEMMA FollowReplugCommit ==
  ASSUME FollowInv, NEW d \in Devices, ReplugCommit(d) PROVE FollowInv'
<1> DEFINE i == dop[d].iface
<1>1. /\ dop[d].kind = "replug" /\ dop[d].pc = "commit" /\ dop[d].kind # "idle"
      /\ KeepRouters /\ UNCHANGED <<via, link, route, overlap>>
      /\ UNCHANGED <<lab_ra, mode, ra, rop, broken>>
      /\ uplink' = [uplink EXCEPT ![d][i] = dop[d].to]
      /\ dop' = [dop EXCEPT ![d] = DopIdle]
  BY DEF ReplugCommit, KeepRouters, End
<1>2. /\ dop[d].to \in Routers /\ i \in Ifaces
      /\ d \notin overlap => ~RaBusy /\ DevOk(d)
  BY <1>1, InHand DEF DopOk
<1>3. /\ via \in [Devices -> Ifaces] /\ uplink \in [Devices -> [Ifaces -> Routers]]
      /\ link \in [Devices -> [Ifaces -> {"up", "down", "gone"}]] /\ DOMAIN route = Devices
      /\ dop \in [Devices -> DopRecs]
  BY DEF FollowInv, RaTypes, DopRecs
<1> HIDE DEF i
<1>4. /\ uplink' \in [Devices -> [Ifaces -> Routers]]
      /\ \A e \in Devices \ {d} : uplink'[e] = uplink[e]
      /\ \A j \in Ifaces : uplink'[d][j] = IF j = i THEN dop[d].to ELSE uplink[d][j]
      /\ dop'[d] = DopIdle
  BY <1>1, <1>2, <1>3
<1>5. ASSUME d \notin overlap
      PROVE  Underway(d)' /\ (route[d] = NoRoute \/ route[d].iface = via[d])
  <2>1. /\ route[d] = NoRoute \/ route[d].iface = via[d]
        /\ i = via[d] => route[d] = Route(i, Gateway(d, dop[d].to))
        /\ i # via[d] => Right(d)
    BY <1>1, <1>2, <1>5 DEF DevOk, Underway, OldStands, i
  <2>2. CASE via[d] = i
    <3>1. route'[d] = Wanted(d)'
      BY <1>1, <1>2, <1>4, <2>1, <2>2 DEF Wanted, Gateway, RaDefault
    <3> QED BY <1>4, <2>1, <3>1, IdleOk DEF Underway, Right
  <2>3. CASE via[d] # i
    <3>1. uplink'[d][via'[d]] = uplink[d][via[d]]
      BY <1>1, <1>3, <1>4, <2>3
    <3>2. Right(d)'
      BY <1>1, <2>1, <2>3, <3>1 DEF Right, Due, Wanted, Gateway, RaDefault
    <3> QED BY <1>4, <2>1, <3>2, IdleOk DEF Underway
  <2> QED BY <2>2, <2>3
<1> QED BY <1>1, <1>2, <1>3, <1>4, <1>5, IdleOk, OwnMove

-----------------------------------------------------------------------------
(* The operations on the RA settings.                                       *)

\* While an RA operation runs a device that is not beside it is idle.
LEMMA RouterStep ==
  ASSUME FollowInv, NEW r \in Routers, NEW o \in RopRecs, rop' = [rop EXCEPT ![r] = o],
         UNCHANGED core, UNCHANGED <<link, dop>>, DOMAIN route' = Devices,
         ra' \in [Routers -> [on : BOOLEAN, alive : BOOLEAN]],
         \A q \in Routers \ {r} : ra'[q] = ra[q],
         overlap \subseteq overlap', broken \subseteq broken',
         RopOk(r)',
         \A d \in Devices \ overlap' :
            /\ dop[d] = DopIdle
            /\ route'[d] = NoRoute \/ route'[d].iface = via[d]
            /\ Right(d)'
  PROVE  FollowInv'
<1>1. UNCHANGED <<lab_ra, mode, via, uplink, link, dop>>
  BY DEF core
<1>2. rop' \in [Routers -> RopRecs] /\ rop'[r] = o /\ \A q \in Routers \ {r} : rop'[q] = rop[q]
  BY DEF FollowInv, RaTypes, RopRecs
<1>3. RaTypes'
  BY <1>1, <1>2 DEF FollowInv, RaTypes, RopRecs
<1>4. ASSUME NEW q \in Routers PROVE RopOk(q)'
  <2>1. CASE q # r
    <3>1. RopOk(q) /\ rop[q].todo \subseteq Devices
      BY DEF FollowInv, RaTypes, RopRecs
    <3> QED BY <1>1, <1>2, <2>1, <3>1, RopOkKept
  <2> QED BY <2>1
<1>5. ASSUME NEW d \in Devices \ overlap' PROVE DevOk(d)'
  BY <1>1, <1>5, IdleOk DEF DevOk, Underway
<1> QED BY <1>3, <1>4, <1>5 DEF FollowInv

LEMMA FollowSetRa ==
  ASSUME FollowInv, NEW r \in Routers, NEW s \in [on : BOOLEAN, alive : BOOLEAN], SetRa(r, s)
  PROVE  FollowInv'
<1>1. /\ rop[r] = RopIdle /\ ra' = [ra EXCEPT ![r] = s]
      /\ UNCHANGED <<lab_ra, mode, via, uplink, link, route, dop, broken>>
      /\ UNCHANGED core
  BY DEF SetRa, core
<1>2. /\ ra' \in [Routers -> [on : BOOLEAN, alive : BOOLEAN]] /\ ra'[r] = s
      /\ \A q \in Routers \ {r} : ra'[q] = ra[q]
      /\ uplink \in [Devices -> [Ifaces -> Routers]] /\ via \in [Devices -> Ifaces]
      /\ DOMAIN route = Devices
      /\ rop \in [Routers -> RopRecs]
      /\ \A q \in Routers : RopOk(q)
  BY <1>1 DEF FollowInv, RaTypes, RopRecs
<1>3. CASE lab_ra
  <2> DEFINE o == [pc |-> "targets", install |-> s.on /\ s.alive, todo |-> {}]
  <2>1. /\ o \in RopRecs /\ o.pc = "targets" /\ o.install = (s.on /\ s.alive)
    BY DEF RopRecs
  <2>2. /\ rop' = [rop EXCEPT ![r] = o]
        /\ overlap' = overlap \cup {d \in Devices : dop[d] # DopIdle}
    BY <1>3 DEF SetRa
  <2> HIDE DEF o
  <2>3. rop'[r] = o /\ \A q \in Routers \ {r} : rop'[q] = rop[q]
    BY <1>2, <2>2
  <2>4. RopOk(r)'
    BY <1>1, <1>2, <1>3, <2>1, <2>3 DEF RopOk, RaDefault
  <2>5. ASSUME NEW d \in Devices \ overlap'
        PROVE  dop[d] = DopIdle /\ (route'[d] = NoRoute \/ route'[d].iface = via[d]) /\ Right(d)'
    <3>1. d \notin overlap /\ dop[d] = DopIdle /\ DevOk(d)
      BY <2>2, <2>5 DEF FollowInv
    <3>2. Right(d) /\ (route[d] = NoRoute \/ route[d].iface = via[d])
      BY <3>1, IdleOk DEF DevOk, Underway, OldStands
    <3>3. uplink[d][via[d]] \in Routers
      BY <1>2
    <3>4. CASE mode[d] = "ra" /\ uplink[d][via[d]] = r
      <4>1. Due(d)'
        BY <1>1, <2>1, <2>3, <3>4 DEF Due
      <4> QED BY <1>1, <3>1, <3>2, <4>1 DEF Right
    <3>5. CASE mode[d] # "ra" \/ uplink[d][via[d]] # r
      <4>1. Due(d)' = Due(d) /\ Wanted(d)' = Wanted(d)
        BY <1>1, <1>2, <2>3, <3>3, <3>5 DEF Due, Wanted, Gateway, RaDefault
      <4> QED BY <1>1, <3>1, <3>2, <4>1 DEF Right
    <3> QED BY <3>4, <3>5
  <2> QED BY <1>1, <1>2, <2>1, <2>2, <2>4, <2>5, RouterStep
<1>4. CASE ~lab_ra
  <2>1. UNCHANGED <<rop, overlap>>
    BY <1>4 DEF SetRa
  <2>2. \A d \in Devices : mode[d] # "ra"
    BY <1>4 DEF FollowInv, RaTypes
  <2>3. RaTypes'
    BY <1>1, <1>2, <2>1 DEF FollowInv, RaTypes
  <2>4. ASSUME NEW q \in Routers PROVE RopOk(q)'
    BY <1>1, <1>2, <1>4, <2>1 DEF RopOk
  <2>5. ASSUME NEW d \in Devices \ overlap' PROVE DevOk(d)'
    <3>1. DevOk(d) /\ mode[d] # "ra"
      BY <2>1, <2>2 DEF FollowInv
    <3>2. (\A q : Gateway(d, q)' = Gateway(d, q)) /\ ~Due(d) /\ ~Due(d)'
      BY <1>1, <3>1 DEF Gateway, Due
    <3>3. Wanted(d)' = Wanted(d) /\ RaBusy' = RaBusy
      BY <1>1, <2>1, <3>1 DEF Wanted, Gateway, RaBusy
    <3>4. Right(d)' = Right(d) /\ OldStands(d)' = OldStands(d)
      BY <1>1, <3>2, <3>3 DEF Right, OldStands
    <3> QED BY <1>1, <3>1, <3>2, <3>3, <3>4 DEF DevOk, Underway
  <2> QED BY <2>3, <2>4, <2>5 DEF FollowInv
<1> QED BY <1>3, <1>4

LEMMA FollowTargets ==
  ASSUME FollowInv, NEW r \in Routers, ReconcileTargets(r) PROVE FollowInv'
<1>1. /\ rop[r].pc = "targets"
      /\ UNCHANGED <<lab_ra, mode, via, uplink, ra, link, route, dop, overlap, broken>>
      /\ UNCHANGED core
  BY DEF ReconcileTargets, core
<1>2. /\ uplink \in [Devices -> [Ifaces -> Routers]] /\ via \in [Devices -> Ifaces]
      /\ ra \in [Routers -> [on : BOOLEAN, alive : BOOLEAN]]
      /\ DOMAIN route = Devices
      /\ rop \in [Routers -> RopRecs]
      /\ RopOk(r)
  BY DEF FollowInv, RaTypes, RopRecs
<1> DEFINE o == IF Targets(r) = {} THEN RopIdle
                ELSE [rop[r] EXCEPT !.pc = "loop", !.todo = Targets(r)]
<1>3. /\ o \in RopRecs
      /\ Targets(r) = {} => o = RopIdle /\ o.pc = "idle"
      /\ Targets(r) # {} => o.pc = "loop" /\ o.todo = Targets(r) /\ o.install = rop[r].install
  <2>1. Targets(r) \subseteq Devices
    BY DEF Targets
  <2> QED BY <1>2, <2>1 DEF RopRecs, RopIdle
<1>4. rop' = [rop EXCEPT ![r] = o]
  BY DEF ReconcileTargets
<1> HIDE DEF o
<1>5. rop'[r] = o /\ \A q \in Routers \ {r} : rop'[q] = rop[q]
  BY <1>2, <1>4
<1>6. RopOk(r)'
  <2>1. lab_ra /\ rop[r].install = RaDefault(r)
    BY <1>1, <1>2 DEF RopOk
  <2>2. \A d \in Targets(r) : mode[d] = "ra" /\ uplink[d][via[d]] = r
    BY DEF Targets
  <2> QED BY <1>1, <1>3, <1>5, <2>1, <2>2 DEF RopOk, RaDefault
<1>7. ASSUME NEW d \in Devices \ overlap'
      PROVE  dop[d] = DopIdle /\ (route'[d] = NoRoute \/ route'[d].iface = via[d]) /\ Right(d)'
  <2>1. DevOk(d) /\ RaBusy
    <3>1. rop[r] # RopIdle
      BY <1>1 DEF RopIdle
    <3> QED BY <1>1, <1>7, <3>1 DEF FollowInv, RaBusy
  <2>2. dop[d] = DopIdle
    BY <2>1 DEF DevOk
  <2>3. Right(d) /\ (route[d] = NoRoute \/ route[d].iface = via[d])
    BY <2>1, <2>2, IdleOk DEF DevOk, Underway, OldStands
  <2>4. Wanted(d)' = Wanted(d)
    BY <1>1 DEF Wanted, Gateway, RaDefault
  <2>5. Due(d) => Due(d)'
    <3>1. CASE uplink[d][via[d]] = r /\ mode[d] = "ra"
      <4>1. d \in Targets(r)
        BY <3>1 DEF Targets
      <4> QED BY <1>1, <1>3, <1>5, <3>1, <4>1 DEF Due
    <3>2. CASE uplink[d][via[d]] # r \/ mode[d] # "ra"
      BY <1>1, <1>2, <1>5, <3>2 DEF Due
    <3> QED BY <3>1, <3>2
  <2> QED BY <1>1, <2>2, <2>3, <2>4, <2>5 DEF Right
<1> QED BY <1>1, <1>2, <1>3, <1>4, <1>6, <1>7, RouterStep

LEMMA FollowOne ==
  ASSUME FollowInv, NEW r \in Routers, NEW t \in Devices, ReconcileOne(r, t) PROVE FollowInv'
<1>1. /\ rop[r].pc = "loop" /\ t \in rop[r].todo
      /\ UNCHANGED <<lab_ra, mode, via, uplink, ra, link, dop, overlap>>
      /\ UNCHANGED core
  BY DEF ReconcileOne, core
<1>2. /\ uplink \in [Devices -> [Ifaces -> Routers]] /\ via \in [Devices -> Ifaces]
      /\ link \in [Devices -> [Ifaces -> {"up", "down", "gone"}]]
      /\ ra \in [Routers -> [on : BOOLEAN, alive : BOOLEAN]]
      /\ DOMAIN route = Devices
      /\ rop \in [Routers -> RopRecs]
      /\ RopOk(r)
  BY DEF FollowInv, RaTypes, RopRecs
<1> DEFINE ok == ~rop[r].install \/ link[t][via[t]] = "up"
           rest == rop[r].todo \ {t}
           o == IF ~ok \/ rest = {} THEN RopIdle ELSE [rop[r] EXCEPT !.todo = rest]
<1>3. /\ o \in RopRecs
      /\ ~ok \/ rest = {} => o = RopIdle /\ o.pc = "idle"
      /\ ok /\ rest # {} => o.pc = "loop" /\ o.todo = rest /\ o.install = rop[r].install
  BY <1>1, <1>2 DEF RopRecs, RopIdle
<1>4. /\ rop' = [rop EXCEPT ![r] = o]
      /\ broken' = IF ok THEN broken ELSE broken \cup {r}
      /\ route' = [route EXCEPT ![t] =
                     IF ~rop[r].install THEN NoRoute
                     ELSE CASE link[t][via[t]] = "up" -> Route(via[t], r)
                            [] link[t][via[t]] = "down" -> NoRoute
                            [] OTHER -> route[t]]
  BY DEF ReconcileOne
<1>5. lab_ra /\ rop[r].install = RaDefault(r)
  BY <1>1, <1>2 DEF RopOk
<1> HIDE DEF o
<1>6. rop'[r] = o /\ \A q \in Routers \ {r} : rop'[q] = rop[q]
  BY <1>2, <1>4
<1>7. RopOk(r)'
  BY <1>1, <1>2, <1>3, <1>5, <1>6 DEF RopOk, RaDefault
<1>8. /\ DOMAIN route' = Devices /\ \A d \in Devices \ {t} : route'[d] = route[d]
      /\ ~rop[r].install => route'[t] = NoRoute
      /\ rop[r].install /\ link[t][via[t]] = "up" => route'[t] = Route(via[t], r)
      /\ route'[t] \in {NoRoute, Route(via[t], r), route[t]}
  BY <1>2, <1>4
<1>9. ASSUME NEW d \in Devices \ overlap'
      PROVE  dop[d] = DopIdle /\ (route'[d] = NoRoute \/ route'[d].iface = via[d]) /\ Right(d)'
  <2>1. DevOk(d) /\ RaBusy
    <3>1. rop[r] # RopIdle
      BY <1>1 DEF RopIdle
    <3> QED BY <1>1, <1>9, <3>1 DEF FollowInv, RaBusy
  <2>2. dop[d] = DopIdle
    BY <2>1 DEF DevOk
  <2>3. Right(d) /\ (route[d] = NoRoute \/ route[d].iface = via[d])
    BY <2>1, <2>2, IdleOk DEF DevOk, Underway, OldStands
  <2>4. Wanted(d)' = Wanted(d)
    BY <1>1 DEF Wanted, Gateway, RaDefault
  <2>5. CASE d = t
    <3>1. mode[d] = "ra" /\ uplink[d][via[d]] = r
      BY <1>1, <1>2, <1>9, <2>5 DEF RopOk
    <3>2. link[d][via[d]] = "up" => route'[d] = Wanted(d)
      BY <1>5, <1>8, <2>5, <3>1 DEF Wanted, Gateway, Route
    <3>3. route'[d] = NoRoute \/ route'[d].iface = via[d]
      BY <1>8, <2>3, <2>5 DEF Route
    <3> QED BY <1>1, <2>2, <2>4, <3>2, <3>3 DEF Right
  <2>6. CASE d # t
    <3>1. route'[d] = route[d]
      BY <1>8, <2>6
    <3>2. (uplink[d][via[d]] \notin broken' /\ Due(d)) => Due(d)'
      <4>1. CASE uplink[d][via[d]] = r /\ mode[d] = "ra"
        <5>1. Due(d) => d \in rest
          BY <1>1, <2>6, <4>1 DEF Due
        <5>2. r \notin broken' => ok
          BY <1>4
        <5> QED BY <1>1, <1>3, <1>6, <4>1, <5>1, <5>2 DEF Due
      <4>2. CASE uplink[d][via[d]] # r \/ mode[d] # "ra"
        BY <1>1, <1>2, <1>6, <4>2 DEF Due
      <4> QED BY <4>1, <4>2
    <3>3. Right(d)'
      BY <1>1, <1>4, <2>3, <2>4, <3>1, <3>2 DEF Right
    <3> QED BY <2>2, <2>3, <3>1, <3>3
  <2> QED BY <2>5, <2>6
<1> QED BY <1>1, <1>2, <1>3, <1>4, <1>7, <1>8, <1>9, RouterStep

LEMMA FollowStep == FollowInv /\ [Next]_vars => FollowInv'
<1> SUFFICES ASSUME FollowInv, [Next]_vars PROVE FollowInv'
  OBVIOUS
<1>1. ASSUME NEW r \in Routers, NEW b \in BOOLEAN, SetRaEnabled(r, b) \/ SetRaLifetime(r, b)
      PROVE  FollowInv'
  <2>1. ra[r] \in [on : BOOLEAN, alive : BOOLEAN]
    BY DEF FollowInv, RaTypes
  <2>2. /\ [ra[r] EXCEPT !.on = b] \in [on : BOOLEAN, alive : BOOLEAN]
        /\ [ra[r] EXCEPT !.alive = b] \in [on : BOOLEAN, alive : BOOLEAN]
    BY <2>1
  <2> QED BY <1>1, <2>2, FollowSetRa DEF SetRaEnabled, SetRaLifetime
<1>2. ASSUME UNCHANGED <<core, ra, link, route, rop, dop, overlap, broken>> PROVE FollowInv'
  <2>1. UNCHANGED <<lab_ra, mode, via, uplink, ra, link, route, rop, dop, overlap, broken>>
    BY <1>2 DEF core
  <2>2. RaTypes' /\ \A r \in Routers : RopOk(r)'
    BY <2>1 DEF FollowInv, RaTypes, RopOk, RaDefault
  <2>3. ASSUME NEW d \in Devices \ overlap' PROVE DevOk(d)'
    <3>1. DevOk(d)
      BY <2>1, <2>3 DEF FollowInv
    <3> QED BY <2>1, <3>1, Beside DEF About
  <2> QED BY <2>2, <2>3 DEF FollowInv
<1>3. ASSUME NEW r \in Routers, SetRaInterval(r) \/ Worker(r) PROVE FollowInv'
  BY <1>2, <1>3 DEF SetRaInterval, Worker, WorkerFirst, WorkerWait, WorkerChanged,
     WorkerTick, KeepAllButWorker
<1>4. ASSUME NEW d \in Devices, NEW i \in Ifaces,
             \/ SetDefaultStart(d, i) \/ LinkDown(d, i) \/ LinkUp(d, i)
             \/ \E r \in Routers : ReplugStart(d, i, r)
      PROVE  FollowInv'
  BY <1>4, FollowStart, FollowLinkDown, FollowLinkUp
<1>5. ASSUME NEW r \in Routers, ReconcileTargets(r) \/ \E d \in Devices : ReconcileOne(r, d)
      PROVE  FollowInv'
  BY <1>5, FollowTargets, FollowOne
<1>6. ASSUME NEW d \in Devices,
             \/ SetDefaultRoute(d) \/ SetDefaultCommit(d) \/ LinkUpRead(d) \/ LinkUpRoute(d)
             \/ ReplugDelete(d) \/ ReplugWire(d) \/ ReplugCommit(d)
      PROVE  FollowInv'
  BY <1>6, FollowDefaultRoute, FollowDefaultCommit, FollowLinkUpRead,
     FollowLinkUpRoute,
     FollowReplugDelete, FollowReplugWire, FollowReplugCommit
<1>7. CASE RaOp
  BY <1>1, <1>3, <1>4, <1>5, <1>6, <1>7 DEF RaOp, RaStart, DeviceStart, RaStep
<1>8. CASE UNCHANGED raVars
  BY <1>2, <1>8 DEF raVars, core
<1> QED
  BY <1>3, <1>7, <1>8 DEF Next, RuleOp, RaWorker, vars

\* Between operations the IPv6 default route of a device is the one that its
\* provisioning mode and the settings of its router ask for, if no operation
\* of it overlapped an RA operation (device.rs:39-54, router.rs:33-52).
THEOREM RoutesFollowRa == Spec => []RouteFollowsRa
<1>1. FollowInv => RouteFollowsRa
  <2> SUFFICES ASSUME FollowInv, Quiet, NEW d \in Devices, link[d][via[d]] = "up",
                      d \notin overlap, uplink[d][via[d]] \notin broken
               PROVE  route[d] = Wanted(d)
    BY DEF RouteFollowsRa, Wanted
  <2>1. DevOk(d) /\ dop[d] = DopIdle /\ uplink[d][via[d]] \in Routers
    BY DEF FollowInv, RaTypes, Quiet
  <2>2. ~Due(d)
    BY <2>1 DEF Due, Quiet, RaBusy, RopIdle
  <2> QED BY <2>1, <2>2, IdleOk DEF DevOk, Underway, OldStands, Right
<1> QED BY <1>1, FollowInit, FollowStep, PTL DEF Spec
============================================================================
