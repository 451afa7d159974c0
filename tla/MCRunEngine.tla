----------------------------- MODULE MCRunEngine -----------------------------
(* Small instances of RunEngine.                                            *)
EXTENDS RunEngine, TLC

CONSTANTS alice, bob, carol, demo, gated, guarded, flaky

TwoPolicies == {{alice, bob}, {bob, carol}}
Kinds == [r \in Runs |->
            CASE r = demo -> "demo" [] r = gated -> "approval"
              [] r = guarded -> "costguard" [] OTHER -> "retry"]
Symmetry == Permutations(Keys) \cup Permutations(Clients) \cup Permutations(Releases)
            \cup Permutations(Checklists)

\* The run explores sides of one instance and not their product: the engine's
\* runs, any two of them at once, under a latch that goes round under settled
\* sources; a latch that goes round under changing policies, with a second
\* request in flight until there are two bindings or two events after the
\* anchor; changing releases while the latch stays armed, with a second request
\* in flight until the first authorization; and changing policies, checklists
\* and autonomy, while one request after the other is served.
InFlight == Cardinality({c \in Clients : request[c] # NoRequest})
OnlyOps(ops) == \A c \in Clients : request[c].op \in ops \cup {"none", "bind"}
NoRunYet == ~costStop /\ \A r \in Runs : runs[r] = "absent"
NoReleaseYet ==
    /\ release = NoRelease /\ seen.release \subseteq {NoRelease}
    /\ \A i \in DOMAIN bindings : bindings[i].release = NoRelease

\* The checklist and the autonomy policy are recorded before all else.
Prepared ==
    /\ bindings # <<>> \/ policy # {} \/ release # NoRelease
         => checklist # NoChecklist /\ autonomy.eligible
    /\ autonomy.stamp <= 1 /\ Cardinality(seen.checklist) <= 1
OneChecklistYet ==
    \A i \in DOMAIN bindings : checklist # NoChecklist => bindings[i].checklist = checklist
OnePolicyYet ==
    /\ policy \subseteq {alice, bob} /\ seen.policy \subseteq {{}, {alice, bob}}
    /\ \A i \in DOMAIN bindings : bindings[i].policy = {alice, bob}
Settled ==
    /\ policy = {alice, bob} /\ checklist # NoChecklist /\ autonomy.eligible
    /\ seen.policy \subseteq {policy} /\ Cardinality(seen.checklist) <= 1
    /\ \A i \in DOMAIN bindings :
         bindings[i].policy = policy /\ bindings[i].checklist = checklist

EngineSide ==
    /\ Settled /\ NoReleaseYet /\ autonomy.stamp = 1
    /\ Cardinality({r \in Runs : runs[r] # "absent"}) <= 2
    /\ costStop => runs[guarded] # "absent"
    /\ InFlight <= 1 /\ OnlyOps({"activate", "clear"})
    /\ Len(bindings) <= 1 /\ Len(events) <= 3
    /\ \A i \in DOMAIN bindings : bindings[i].by = alice
    /\ bindings # <<>> => \A c \in Clients : request[c].op # "bind"
    /\ Len(events) = 3 => InFlight = 0
LatchSide ==
    /\ NoRunYet /\ NoReleaseYet /\ Prepared /\ OneChecklistYet
    /\ OnlyOps({"activate", "clear"})
    /\ Len(events) > 2 \/ Len(bindings) > 1 => InFlight <= 1
ReleaseSide ==
    /\ NoRunYet /\ Prepared /\ OnlyOps({"authorize_rollback"})
    /\ OnePolicyYet /\ (policy # {} => Settled)
    /\ Len(events) <= 1
    /\ auths # <<>> \/ Len(bindings) > 1 => InFlight <= 1
SourcesSide ==
    /\ NoRunYet /\ NoReleaseYet
    /\ OnePolicyYet
    /\ InFlight <= 1 /\ Len(bindings) <= 1 /\ Len(events) <= 2
OneSide == EngineSide \/ LatchSide \/ ReleaseSide \/ SourcesSide
=============================================================================
