--------------------------- MODULE DeliveryProof ---------------------------
(***************************************************************************)
(* What Delivery keeps, for every value of its parameters.  Each component *)
(* has its invariant; preapprovals are proved in a module of their own,    *)
(* whose theorems are applied to the instance of the sum.                  *)
(***************************************************************************)
EXTENDS Delivery, FiniteSetsExt, FiniteSetTheorems, WellFoundedInduction, TLAPS

-----------------------------------------------------------------------------
(* Numbers, cardinalities and sums.                                         *)

\* The components count with the same Cardinality.
LEMMA SameCards ==
    \A xs : /\ I!Cardinality(xs) = Cardinality(xs) /\ W!Cardinality(xs) = Cardinality(xs)
            /\ R!Cardinality(xs) = Cardinality(xs) /\ (R!IsFiniteSet(xs) <=> IsFiniteSet(xs))
            /\ O!Cardinality(xs) = Cardinality(xs) /\ (O!IsFiniteSet(xs) <=> IsFiniteSet(xs))
BY DEF I!Cardinality, W!Cardinality, R!Cardinality, O!Cardinality, Cardinality,
       R!IsFiniteSet, O!IsFiniteSet, IsFiniteSet
\* A nonempty set of numbers has a least one.
LEMMA NatLeast ==
    ASSUME NEW Ns \in SUBSET Nat, Ns # {} PROVE \E x \in Ns : \A y \in Ns : x <= y
<1>1. PICK x \in Ns : \A y \in Ns : ~ (<<y, x>> \in OpToRel(<, Nat))
  BY NatLessThanWellFounded, WFMin
<1>2. ASSUME NEW y \in Ns PROVE x <= y
  <2>1. <<y, x>> \in Nat \X Nat /\ <<y, x>>[1] = y /\ <<y, x>>[2] = x
    OBVIOUS
  <2>2. ~(y < x)
    BY <1>1, <2>1 DEF OpToRel
  <2> QED BY <2>2
<1> QED BY <1>2

\* The amount of a row.
Amt(e) == e.amount

\* The element a fold takes next.
Pick(xs) == CHOOSE x \in xs : TRUE

\* The recursion of a sum of amounts.
Body(g, xs) == IF xs = {} THEN 0 ELSE Amt(Pick(xs)) + g[xs \ {Pick(xs)}]

\* g solves the recursion for the sets of at most n elements.
Upto(all, n, g) ==
    /\ g = [xs \in SUBSET all |-> g[xs]]
    /\ \A xs \in SUBSET all : Cardinality(xs) <= n => g[xs] = Body(g, xs)

\* A finite set without the element picked is smaller by one.
LEMMA PickedLess ==
    ASSUME NEW xs, IsFiniteSet(xs), xs # {}
    PROVE  /\ Pick(xs) \in xs /\ Cardinality(xs) \in Nat \ {0}
           /\ Cardinality(xs \ {Pick(xs)}) = Cardinality(xs) - 1
<1>1. Pick(xs) \in xs
  BY DEF Pick
<1>2. Cardinality(xs \ {Pick(xs)}) = Cardinality(xs) - 1 /\ Cardinality(xs) \in Nat
  BY <1>1, FS_RemoveElement, FS_CardinalityType
<1>3. Cardinality(xs) # 0
  BY <1>1, FS_EmptySet
<1> QED BY <1>1, <1>2, <1>3

\* The recursion over the subsets of a finite set has a solution.
LEMMA BodySolved ==
    ASSUME NEW all, IsFiniteSet(all)
    PROVE  \E g : g = [xs \in SUBSET all |-> Body(g, xs)]
<1>1. \A xs \in SUBSET all : IsFiniteSet(xs) /\ Cardinality(xs) <= Cardinality(all)
                             /\ Cardinality(xs) \in Nat
  BY FS_Subset, FS_CardinalityType
<1> DEFINE Ns == {n \in Nat : ~ \E g : Upto(all, n, g)}
<1>2. CASE Ns # {}
  <2>1. PICK m \in Ns : \A n \in Ns : m <= n
    <3>1. Ns \in SUBSET Nat
      OBVIOUS
    <3> HIDE DEF Ns
    <3> QED BY <1>2, <3>1, NatLeast
  <2>2. CASE m = 0
    <3> DEFINE g == [xs \in SUBSET all |-> 0]
    <3>1. \A xs \in SUBSET all : Cardinality(xs) <= 0 => xs = {}
      BY <1>1, FS_EmptySet
    <3>2. \A xs \in SUBSET all : Cardinality(xs) <= 0 => g[xs] = Body(g, xs)
      <4>1. \A xs \in SUBSET all : g[xs] = 0
        OBVIOUS
      <4> HIDE DEF g
      <4> QED BY <3>1, <4>1 DEF Body
    <3>3. g = [xs \in SUBSET all |-> g[xs]]
      OBVIOUS
    <3> HIDE DEF g
    <3>4. Upto(all, 0, g)
      BY <3>2, <3>3 DEF Upto
    <3> QED BY <2>1, <2>2, <3>4
  <2>3. CASE m # 0
    <3>1. m - 1 \in Nat /\ m - 1 \notin Ns /\ m \in Nat
      <4>1. m \in Nat /\ \A n \in Ns : m <= n
        BY <2>1
      <4> HIDE DEF Ns
      <4>2. m - 1 \in Nat /\ ~(m <= m - 1)
        BY <2>3, <4>1
      <4> QED BY <4>1, <4>2
    <3>2. PICK g : Upto(all, m - 1, g)
      BY <3>1
    <3> DEFINE h == [xs \in SUBSET all |-> IF Cardinality(xs) = m THEN Body(g, xs) ELSE g[xs]]
    <3>3. /\ h = [xs \in SUBSET all |-> h[xs]]
          /\ \A xs \in SUBSET all :
               h[xs] = IF Cardinality(xs) = m THEN Body(g, xs) ELSE g[xs]
      OBVIOUS
    <3> HIDE DEF h
    <3>4. ASSUME NEW xs \in SUBSET all, Cardinality(xs) <= m PROVE h[xs] = Body(h, xs)
      <4>1. Body(h, xs) = Body(g, xs)
        <5>1. CASE xs = {}
          BY <5>1 DEF Body
        <5>2. CASE xs # {}
          <6> DEFINE ys == xs \ {Pick(xs)}
          <6>1. ys \in SUBSET all /\ Cardinality(ys) = Cardinality(xs) - 1
                /\ Cardinality(xs) \in Nat
            <7>1. IsFiniteSet(xs)
              BY <1>1
            <7>2. Cardinality(ys) = Cardinality(xs) - 1
              BY <5>2, <7>1, PickedLess
            <7>3. ys \in SUBSET all
              OBVIOUS
            <7> QED BY <1>1, <7>2, <7>3
          <6> HIDE DEF ys
          <6>2. h[ys] = g[ys]
            <7>1. Cardinality(ys) # m
              BY <3>1, <3>4, <6>1
            <7> QED BY <3>3, <6>1, <7>1
          <6> QED BY <5>2, <6>2 DEF Body, ys
        <5> QED BY <5>1, <5>2
      <4>2. CASE Cardinality(xs) = m
        BY <3>3, <4>1, <4>2
      <4>3. CASE Cardinality(xs) # m
        <5>1. Cardinality(xs) <= m - 1
          BY <1>1, <3>1, <3>4, <4>3
        <5> QED BY <3>2, <3>3, <4>1, <4>3, <5>1 DEF Upto
      <4> QED BY <4>2, <4>3
    <3>5. Upto(all, m, h)
      BY <3>3, <3>4 DEF Upto
    <3> QED BY <2>1, <3>5
  <2> QED BY <2>2, <2>3
<1>3. CASE Ns = {}
  <2>1. Cardinality(all) \in Nat
    BY FS_CardinalityType
  <2>2. PICK g : Upto(all, Cardinality(all), g)
    BY <1>3, <2>1
  <2>3. g = [xs \in SUBSET all |-> Body(g, xs)]
    BY <1>1, <2>2 DEF Upto
  <2> QED BY <2>3
<1> QED BY <1>2, <1>3

\* A sum of whole amounts is a whole number.
LEMMA SumTyped ==
    ASSUME NEW all, IsFiniteSet(all), \A e \in all : Amt(e) \in Int
    PROVE  MapThenSumSet(Amt, all) \in Int
<1> DEFINE g == CHOOSE g : g = [xs \in SUBSET all |-> Body(g, xs)]
<1>1. MapThenSumSet(Amt, all) = g[all]
  BY DEF MapThenSumSet, MapThenFoldSet, Body, Pick, Amt
<1>2. g = [xs \in SUBSET all |-> Body(g, xs)]
  BY BodySolved
<1> HIDE DEF g
<1>3. \A xs \in SUBSET all : g[xs] = Body(g, xs)
  BY <1>2
<1>4. \A xs \in SUBSET all : IsFiniteSet(xs) /\ Cardinality(xs) \in Nat
  BY FS_Subset, FS_CardinalityType
<1> DEFINE Ns == {Cardinality(xs) : xs \in {xs \in SUBSET all : g[xs] \notin Int}}
<1>5. CASE Ns # {}
  <2>1. Ns \in SUBSET Nat
    BY <1>4
  <2>2. PICK m \in Ns : \A n \in Ns : m <= n
    <3> HIDE DEF Ns
    <3> QED BY <1>5, <2>1, NatLeast
  <2>3. PICK xs \in SUBSET all : g[xs] \notin Int /\ m = Cardinality(xs)
    BY <2>2
  <2>4. xs # {}
    <3>1. CASE xs = {}
      <4>1. g[xs] = 0
        BY <1>3, <3>1 DEF Body
      <4> QED BY <2>3, <4>1
    <3> QED BY <3>1
  <2> DEFINE ys == xs \ {Pick(xs)}
  <2>5. ys \in SUBSET all /\ Cardinality(ys) = m - 1 /\ m \in Nat /\ Pick(xs) \in all
    <3>1. IsFiniteSet(xs)
      BY <1>4
    <3>2. Pick(xs) \in xs /\ Cardinality(ys) = Cardinality(xs) - 1
      BY <2>4, <3>1, PickedLess
    <3>3. ys \in SUBSET all
      OBVIOUS
    <3> QED BY <1>4, <2>3, <3>2, <3>3
  <2> HIDE DEF ys
  <2>6. g[ys] \in Int
    <3>1. CASE g[ys] \notin Int
      <4>1. m - 1 \in Ns
        BY <2>5, <3>1
      <4>2. m <= m - 1
        BY <2>2, <4>1
      <4> QED BY <2>5, <4>2
    <3> QED BY <3>1
  <2>7. g[xs] = Amt(Pick(xs)) + g[ys]
    BY <1>3, <2>3, <2>4 DEF Body, ys
  <2>8. Amt(Pick(xs)) \in Int
    BY <2>5
  <2>9. g[xs] \in Int
    BY <2>6, <2>7, <2>8
  <2> QED BY <2>3, <2>9
<1>6. CASE Ns = {}
  BY <1>1, <1>6
<1> QED BY <1>5, <1>6


-----------------------------------------------------------------------------
(* Task contracts and their reviews.                                         *)

\* Every layer has a reviewer: what a contract keeps once it was frozen.
Covered == \A layer \in T!Layers : \E reg \in registry : reg.layer = layer

\* In every layer another blueprint's reviewer approved.
Reviewed ==
    \A layer \in T!Layers : \E p \in reports :
        /\ p.by.layer = layer /\ p.verdict = "approved"
        /\ Blueprint[p.by.reviewer] # BuilderBlueprint

\* The statuses after the first move of a contract.
Begun == {"ready_for_development", "in_progress", "specialist_review", "changes_requested",
            "done", "superseded"}

\* What a status a contract has or is about to have rests on.
Earns(to) ==
    /\ to \in Begun => Covered
    /\ to \in {"done", "superseded"} => Reviewed

\* A session moves the contract from a status the trail tells of.
MoveOfMatrix(j) ==
    j.op \in {"transition", "updated"} =>
        j.to \in T!Transitions[j.read] /\ \E k \in DOMAIN trail : trail[k].to = j.read

\* What task contracts keep.
ContractInv ==
    /\ T!TypeOK
    /\ \A reg \in registry : Blueprint[reg.reviewer] # BuilderBlueprint
    /\ \A s \in Clients : \A reg \in contracting[s].reg : Blueprint[reg.reviewer] # BuilderBlueprint
    /\ Earns(contract)
    /\ \A s \in Clients : MoveOfMatrix(contracting[s])
    /\ \A s \in Clients : contracting[s].op = "updated" =>
           /\ contracting[s].to \in T!Transitions[contract] \cup {contract}
           /\ Earns(contracting[s].to)
    /\ \A s, o \in Clients : contracting[s].op = "updated" /\ contracting[o].op = "updated" => s = o
    /\ contract = "absent" <=> trail = <<>>
    /\ T!TrailFollowsMatrix

\* The newest report of a registration exists: created_at is a bounded number.
LEMMA NewestReport ==
    ASSUME T!Parameters, T!TypeOK, NEW reg, T!LatestVerdict(reg) = "approved"
    PROVE  \E p \in reports : p.by = reg /\ p.verdict = "approved"
<1> DEFINE mine == T!ReportsOf(reg)
           Ages == {MaxReports - p.created_at : p \in mine}
<1>1. mine # {} /\ \A p \in mine : p \in reports /\ p.by = reg /\ p.created_at \in 1..MaxReports
  BY DEF T!LatestVerdict, T!ReportsOf, T!TypeOK, T!ReviewReport
<1>2. Ages \in SUBSET Nat /\ Ages # {}
  BY <1>1 DEF T!Parameters
<1>3. PICK a \in Ages : \A b \in Ages : a <= b
  BY <1>2, NatLeast
<1>4. PICK p \in mine : a = MaxReports - p.created_at
  BY <1>3
<1>5. ASSUME NEW q \in mine PROVE q.created_at <= p.created_at
  <2>1. MaxReports - p.created_at <= MaxReports - q.created_at
    BY <1>3, <1>4
  <2>2. q.created_at \in Nat /\ p.created_at \in Nat
    BY <1>1
  <2> QED BY <2>1, <2>2 DEF T!Parameters
<1> DEFINE newest == CHOOSE q \in mine : \A r \in mine : r.created_at <= q.created_at
<1>6. newest \in mine
  BY <1>5
<1>7. newest.verdict = "approved"
  BY <1>1 DEF T!LatestVerdict
<1> QED BY <1>1, <1>6, <1>7

\* What a status rests on is never lost: rows are only added.
LEMMA EarnedStays ==
    ASSUME registry \subseteq registry', reports \subseteq reports'
    PROVE  (Covered => Covered') /\ (Reviewed => Reviewed')
BY DEF Covered, Reviewed, T!Layers

\* What an update rests on beyond its own guard was there before it.
LEMMA MovesEarn ==
    ASSUME T!Parameters, T!TypeOK, NEW to, T!Guard(contract, to), Earns(contract),
           \A reg \in registry : Blueprint[reg.reviewer] # BuilderBlueprint
    PROVE  Earns(to)
<1>1. CASE to = contract
  BY <1>1
<1>2. CASE to # contract
  <2>1. contract \in T!ContractStatus /\ to \in T!Transitions[contract]
    BY <1>2 DEF T!TypeOK, T!Guard
  <2>2. to = "ready_for_development" => Covered
    BY <1>2 DEF T!Guard, T!FreezeReady, Covered
  <2>3. to \in Begun \ {"ready_for_development"} => contract \in Begun
    BY <2>1 DEF T!ContractStatus, T!Transitions, Begun
  <2>4. to \in Begun => Covered
    BY <2>2, <2>3 DEF Earns
  <2>5. to = "superseded" => contract = "done"
    BY <2>1 DEF T!ContractStatus, T!Transitions
  <2>6. ASSUME to = "done" PROVE Reviewed
    <3>1. Covered /\ T!DoneGate
      BY <1>2, <2>4, <2>6 DEF Begun, T!Guard
    <3> SUFFICES ASSUME NEW layer \in T!Layers
                 PROVE  \E p \in reports : /\ p.by.layer = layer /\ p.verdict = "approved"
                                           /\ Blueprint[p.by.reviewer] # BuilderBlueprint
      BY DEF Reviewed
    <3>2. PICK reg \in registry : reg.layer = layer
      BY <3>1 DEF Covered
    <3>3. T!LatestVerdict(reg) = "approved"
      BY <3>1, <3>2 DEF T!DoneGate
    <3>4. PICK p \in reports : p.by = reg /\ p.verdict = "approved"
      BY <3>3, NewestReport
    <3> QED BY <3>2, <3>4
  <2> QED BY <2>4, <2>5, <2>6 DEF Earns
<1> QED BY <1>1, <1>2

\* A step of a session that leaves the tables alone and does not update the
\* contract.
LEMMA QuietSession ==
    ASSUME ContractInv, NEW s \in Clients, NEW j \in T!Jobs,
           contracting' = [contracting EXCEPT ![s] = j], j.op # "updated", MoveOfMatrix(j),
           \A reg \in j.reg : Blueprint[reg.reviewer] # BuilderBlueprint,
           UNCHANGED <<contract, links, registry, reports, trail>>, reportStamp' \in 0..MaxReports
    PROVE  ContractInv'
<1>1. contracting' \in [Clients -> T!Jobs]
  BY DEF ContractInv, T!TypeOK
<1>2. \A o \in Clients : contracting'[o] = IF o = s THEN j ELSE contracting[o]
  BY DEF ContractInv, T!TypeOK
<1>3. T!TypeOK'
  BY <1>1 DEF ContractInv, T!TypeOK
<1>4. (Covered => Covered') /\ (Reviewed => Reviewed')
  BY EarnedStays
<1>5. \A o \in Clients : \A reg \in contracting'[o].reg : Blueprint[reg.reviewer] # BuilderBlueprint
  BY <1>2 DEF ContractInv
<1>6. \A o \in Clients : contracting'[o].op = "updated" => o # s /\ contracting'[o] = contracting[o]
  BY <1>2
<1>7. (\A o \in Clients : contracting[o].op = "updated" =>
           /\ contracting[o].to \in T!Transitions[contract] \cup {contract}
           /\ Earns(contracting[o].to))'
  BY <1>4, <1>6 DEF ContractInv, Earns
<1>8. \A x, o \in Clients : contracting'[x].op = "updated" /\ contracting'[o].op = "updated"
        => x = o
  BY <1>6 DEF ContractInv
<1>9. T!TrailFollowsMatrix' /\ Earns(contract)' /\ (contract = "absent" <=> trail = <<>>)'
  BY <1>4 DEF ContractInv, Earns, T!TrailFollowsMatrix
<1>10. (\A o \in Clients : MoveOfMatrix(contracting[o]))'
  BY <1>2 DEF ContractInv, MoveOfMatrix
<1> QED BY <1>3, <1>5, <1>7, <1>8, <1>9, <1>10 DEF ContractInv

\* Reading, inserting and giving up.
LEMMA InsertsKeep ==
    ASSUME T!Parameters, ContractInv, NEW s \in Clients,
           \/ \E kind \in T!LinkKinds : T!InsertLink(s, kind)
           \/ \E reg \in T!Registration : T!InsertReviewer(s, reg)
           \/ \E reg \in registry, v \in T!Verdicts : T!InsertReport(s, reg, v)
           \/ \E to \in T!ContractStatus : T!ReadContract(s, to)
           \/ T!Abort(s)
    PROVE  ContractInv'
<1>1. T!Idle \in T!Jobs /\ T!TypeOK
  BY DEF ContractInv, T!Idle, T!Jobs, T!ContractStatus
<1>2. ASSUME NEW kind \in T!LinkKinds, T!InsertLink(s, kind) PROVE ContractInv'
  <2> DEFINE j == [T!Idle EXCEPT !.op = "link", !.link = {kind}]
  <2>1. j \in T!Jobs /\ j.op = "link" /\ j.reg = {}
    BY DEF T!Idle, T!Jobs, T!ContractStatus
  <2>2. contracting' = [contracting EXCEPT ![s] = j] /\ reportStamp' = reportStamp
        /\ UNCHANGED <<contract, links, registry, reports, trail>>
    BY <1>2 DEF T!InsertLink
  <2> HIDE DEF j
  <2> QED BY <1>1, <2>1, <2>2, QuietSession DEF T!TypeOK, MoveOfMatrix
<1>3. ASSUME NEW reg \in T!Registration, T!InsertReviewer(s, reg) PROVE ContractInv'
  <2> DEFINE j == [T!Idle EXCEPT !.op = "register", !.reg = {reg}]
  <2>1. j \in T!Jobs /\ j.op = "register" /\ j.reg = {reg}
    BY DEF T!Idle, T!Jobs, T!ContractStatus
  <2>2. contracting' = [contracting EXCEPT ![s] = j] /\ reportStamp' = reportStamp
        /\ UNCHANGED <<contract, links, registry, reports, trail>>
        /\ Blueprint[reg.reviewer] # BuilderBlueprint
    BY <1>3 DEF T!InsertReviewer, T!MayReview
  <2> HIDE DEF j
  <2> QED BY <1>1, <2>1, <2>2, QuietSession DEF T!TypeOK, MoveOfMatrix
<1>4. ASSUME NEW reg \in registry, NEW v \in T!Verdicts, T!InsertReport(s, reg, v)
      PROVE ContractInv'
  <2> DEFINE p == [by |-> reg, verdict |-> v, created_at |-> reportStamp + 1]
             j == [T!Idle EXCEPT !.op = "report", !.report = {p}]
  <2>0. MaxReports \in Nat /\ reportStamp \in 0..MaxReports /\ reportStamp < MaxReports
          /\ reportStamp' = reportStamp + 1
    BY <1>1, <1>4 DEF T!InsertReport, T!TypeOK, T!Parameters
  <2>1. reportStamp' = reportStamp + 1 /\ reportStamp + 1 \in 1..MaxReports
          /\ reportStamp' \in 0..MaxReports
    BY <2>0
  <2>2. p \in T!ReviewReport
    BY <1>1, <2>1 DEF T!ReviewReport, T!TypeOK
  <2>3. contracting' = [contracting EXCEPT ![s] = j]
        /\ UNCHANGED <<contract, links, registry, reports, trail>>
    BY <1>4 DEF T!InsertReport
  <2> HIDE DEF p
  <2>4. j \in T!Jobs /\ j.op = "report" /\ j.reg = {}
    BY <2>2 DEF T!Idle, T!Jobs, T!ContractStatus
  <2> HIDE DEF j
  <2> QED BY <2>1, <2>3, <2>4, QuietSession DEF MoveOfMatrix
<1>5. ASSUME NEW to \in T!ContractStatus, T!ReadContract(s, to) PROVE ContractInv'
  <2> DEFINE j == [T!Idle EXCEPT !.op = "transition", !.read = contract, !.to = to]
  <2>1. j \in T!Jobs /\ j.op = "transition" /\ j.reg = {}
    BY <1>1 DEF T!Idle, T!Jobs, T!TypeOK
  <2>2. contracting' = [contracting EXCEPT ![s] = j] /\ reportStamp' = reportStamp
        /\ UNCHANGED <<contract, links, registry, reports, trail>>
    BY <1>5 DEF T!ReadContract
  <2>3. j.to = to /\ j.read = contract
    BY DEF T!Idle
  <2> HIDE DEF j
  <2>4. to \in T!Transitions[contract] /\ contract # "absent"
    <3>1. T!Transitions["absent"] = {}
      BY DEF T!Transitions
    <3>2. to \in T!Transitions[contract]
      BY <1>5 DEF T!ReadContract
    <3> QED BY <3>1, <3>2
  <2>5. Len(trail) \in DOMAIN trail /\ trail[Len(trail)].to = contract
    BY <1>1, <2>4 DEF ContractInv, T!TypeOK, T!TrailFollowsMatrix
  <2>6. MoveOfMatrix(j)
    BY <2>3, <2>4, <2>5 DEF MoveOfMatrix
  <2> QED BY <1>1, <2>1, <2>2, <2>6, QuietSession DEF T!TypeOK
<1>6. ASSUME T!Abort(s) PROVE ContractInv'
  <2>1. T!Idle.op = "idle" /\ T!Idle.reg = {}
    BY DEF T!Idle
  <2> QED BY <1>1, <1>6, <2>1, QuietSession DEF T!Abort, T!TypeOK, MoveOfMatrix
<1> QED BY <1>2, <1>3, <1>4, <1>5, <1>6

\* The guard sees the row it locks, and no other session holds it.
LEMMA UpdateKeeps ==
    ASSUME T!Parameters, ContractInv, NEW s \in Clients, T!UpdateContract(s)
    PROVE  ContractInv'
<1>1. /\ T!Guard(contract, contracting[s].to) /\ contracting'
           = [contracting EXCEPT ![s].op = "updated"]
      /\ UNCHANGED <<contract, links, registry, reports, trail, reportStamp>>
      /\ \A o \in Clients \ {s} : contracting[o].op # "updated"
  BY DEF T!UpdateContract, T!RowLocked
<1>2. contracting \in [Clients -> T!Jobs]
  BY DEF ContractInv, T!TypeOK
<1>3. \A o \in Clients : o # s => contracting'[o] = contracting[o]
  BY <1>1, <1>2
<1>4. contracting'[s] = [contracting[s] EXCEPT !.op = "updated"] /\ contracting[s] \in T!Jobs
  BY <1>1, <1>2
<1>5. contracting'[s].to = contracting[s].to /\ contracting'[s].reg = contracting[s].reg
        /\ contracting'[s] \in T!Jobs
  BY <1>4 DEF T!Jobs
<1>6. contracting' \in [Clients -> T!Jobs]
  BY <1>1, <1>2, <1>3, <1>5
<1>7. T!TypeOK'
  BY <1>1, <1>6 DEF ContractInv, T!TypeOK
<1>8. (Covered => Covered') /\ (Reviewed => Reviewed')
  BY <1>1, EarnedStays
<1>9. Earns(contracting[s].to) /\ contracting[s].to \in T!Transitions[contract] \cup {contract}
  BY <1>1, MovesEarn DEF ContractInv, T!Guard
<1>10. \A o \in Clients : contracting'[o].op = "updated" => o = s
  BY <1>1, <1>3
<1>11. (\A o \in Clients : contracting[o].op = "updated" =>
           /\ contracting[o].to \in T!Transitions[contract] \cup {contract}
           /\ Earns(contracting[o].to))'
  BY <1>1, <1>5, <1>8, <1>9, <1>10 DEF Earns
<1>12. \A o \in Clients : \A reg \in contracting'[o].reg :
         Blueprint[reg.reviewer] # BuilderBlueprint
  BY <1>3, <1>5 DEF ContractInv
<1>13. T!TrailFollowsMatrix' /\ Earns(contract)' /\ (contract = "absent" <=> trail = <<>>)'
  BY <1>1, <1>8 DEF ContractInv, Earns, T!TrailFollowsMatrix
<1>14. \A reg \in registry' : Blueprint[reg.reviewer] # BuilderBlueprint
  BY <1>1 DEF ContractInv
<1>15. \A x, o \in Clients : contracting'[x].op = "updated" /\ contracting'[o].op = "updated"
         => x = o
  BY <1>10
<1>16. (\A o \in Clients : MoveOfMatrix(contracting[o]))'
  <2>1. contracting'[s].to = contracting[s].to /\ contracting'[s].read = contracting[s].read
        /\ contracting[s].op = "transition" /\ trail' = trail
    BY <1>1, <1>4 DEF T!Jobs, T!UpdateContract
  <2> QED BY <1>3, <2>1 DEF ContractInv, MoveOfMatrix
<1> QED BY <1>7, <1>11, <1>12, <1>13, <1>14, <1>15, <1>16 DEF ContractInv

\* A committed update carries the status its guard admitted.
LEMMA CommitKeeps ==
    ASSUME T!Parameters, ContractInv, NEW s \in Clients, T!Commit(s)
    PROVE  ContractInv'
<1> DEFINE j == contracting[s]
           e == [from |-> j.read, to |-> j.to]
<1>1. /\ contract' = IF j.op = "updated" THEN j.to ELSE contract
      /\ trail' = IF j.op = "updated" THEN Append(trail, e) ELSE trail
      /\ links' = links \cup j.link /\ registry' = registry \cup j.reg
      /\ reports' = reports \cup j.report
      /\ contracting' = [contracting EXCEPT ![s] = T!Idle] /\ reportStamp' = reportStamp
  BY DEF T!Commit
<1>2. j \in T!Jobs /\ contracting \in [Clients -> T!Jobs] /\ T!Idle \in T!Jobs
  BY DEF ContractInv, T!TypeOK, T!Idle, T!Jobs, T!ContractStatus
<1>3. /\ \A o \in Clients : contracting'[o] = IF o = s THEN T!Idle ELSE contracting[o]
      /\ contracting' \in [Clients -> T!Jobs]
  BY <1>1, <1>2
<1>4. e \in T!TaskContractEvent /\ j.to \in T!ContractStatus
  BY <1>2 DEF T!Jobs, T!TaskContractEvent
<1>5. trail \in Seq(T!TaskContractEvent) /\ trail' \in Seq(T!TaskContractEvent)
  BY <1>1, <1>4 DEF ContractInv, T!TypeOK
<1>6. T!TypeOK'
  BY <1>1, <1>2, <1>3, <1>4, <1>5 DEF ContractInv, T!TypeOK, T!Jobs
<1>7. (Covered => Covered') /\ (Reviewed => Reviewed')
  BY <1>1, EarnedStays
<1>18. j.op = "updated" => Earns(j.to)
  BY DEF ContractInv
<1>8. Earns(contract)'
  BY <1>1, <1>7, <1>18 DEF ContractInv, Earns
<1>9. \A o \in Clients : contracting'[o].op = "updated" => o # s /\ contracting'[o] = contracting[o]
  BY <1>3 DEF T!Idle
<1>10. \A o \in Clients : contracting'[o].op = "updated" => contract' = contract
  BY <1>1, <1>9 DEF ContractInv
<1>11. (\A o \in Clients : contracting[o].op = "updated" =>
           /\ contracting[o].to \in T!Transitions[contract] \cup {contract}
           /\ Earns(contracting[o].to))'
  BY <1>7, <1>9, <1>10 DEF ContractInv, Earns
<1>12. \A x, o \in Clients : contracting'[x].op = "updated" /\ contracting'[o].op = "updated"
         => x = o
  BY <1>9 DEF ContractInv
<1>13. \A o \in Clients : \A reg \in contracting'[o].reg :
         Blueprint[reg.reviewer] # BuilderBlueprint
  BY <1>3 DEF ContractInv, T!Idle
<1>14. \A reg \in registry' : Blueprint[reg.reviewer] # BuilderBlueprint
  BY <1>1 DEF ContractInv
<1>15. CASE j.op # "updated"
  <2>1. trail' = trail /\ contract' = contract
    BY <1>1, <1>15
  <2>2. (\A o \in Clients : MoveOfMatrix(contracting[o]))'
    BY <1>3, <2>1 DEF ContractInv, MoveOfMatrix, T!Idle
  <2>3. T!TrailFollowsMatrix' /\ (contract = "absent" <=> trail = <<>>)'
    BY <2>1 DEF ContractInv, T!TrailFollowsMatrix
  <2> QED BY <1>6, <1>8, <1>11, <1>12, <1>13, <1>14, <2>2, <2>3 DEF ContractInv
<1>17. CASE j.op = "updated"
  <2>1. /\ j.to \in T!Transitions[contract] \cup {contract} /\ contract' = j.to
        /\ trail' = Append(trail, e) /\ MoveOfMatrix(j)
    BY <1>1, <1>17 DEF ContractInv
  <2>2. PICK k \in DOMAIN trail : j.to \in T!Transitions[j.read] /\ trail[k].to = j.read
    BY <1>17, <2>1 DEF MoveOfMatrix
  <2>3. e.from = j.read /\ e.to = j.to
    OBVIOUS
  <2> HIDE DEF j, e
  <2>4. /\ Len(trail') = Len(trail) + 1 /\ trail'[Len(trail')] = e /\ Len(trail) \in Nat
        /\ DOMAIN trail' = 1..(Len(trail) + 1) /\ DOMAIN trail = 1..Len(trail)
        /\ \A i \in 1..Len(trail) : trail'[i] = trail[i]
    BY <1>4, <1>5, <2>1
  <2>5. trail # <<>> /\ Len(trail) >= 1 /\ trail[Len(trail)].to = contract
    BY <1>5, <2>2, <2>4 DEF ContractInv, T!TrailFollowsMatrix
  <2>6. ASSUME NEW i \in DOMAIN trail' \ {1}
        PROVE  /\ trail'[i].to \in T!Transitions[trail'[i].from]
               /\ \E x \in 1..(i - 1) : trail'[x].to = trail'[i].from
               /\ trail'[i].to \in T!Transitions[trail'[i - 1].to] \cup {trail'[i - 1].to}
    <3>1. CASE i = Len(trail) + 1
      <4>1. i - 1 = Len(trail) /\ k \in 1..(i - 1)
        BY <2>2, <2>4, <3>1
      <4>2. trail'[i - 1] = trail[Len(trail)] /\ trail'[i] = e /\ trail'[k] = trail[k]
        BY <2>2, <2>4, <2>5, <3>1, <4>1
      <4> QED BY <2>1, <2>2, <2>3, <2>5, <4>1, <4>2
    <3>2. CASE i # Len(trail) + 1
      <4>1. i \in DOMAIN trail \ {1} /\ i - 1 \in 1..Len(trail) /\ 1..(i - 1) \subseteq 1..Len(trail)
        BY <2>4, <2>6, <3>2
      <4>2. trail'[i] = trail[i] /\ trail'[i - 1] = trail[i - 1]
            /\ \A x \in 1..(i - 1) : trail'[x] = trail[x]
        BY <2>4, <4>1
      <4> QED BY <4>1, <4>2 DEF ContractInv, T!TrailFollowsMatrix
    <3> QED BY <3>1, <3>2
  <2>7. trail' # <<>> /\ trail'[Len(trail')].to = contract' /\ contract' # "absent"
    <3>1. j.read \in T!ContractStatus
      BY <1>2 DEF T!Jobs
    <3>2. j.to # "absent"
      BY <2>2, <3>1 DEF T!ContractStatus, T!Transitions
    <3> QED BY <2>1, <2>3, <2>4, <3>2
  <2>8. T!TrailFollowsMatrix'
    BY <2>6, <2>7 DEF T!TrailFollowsMatrix
  <2>9. (\A o \in Clients : MoveOfMatrix(contracting[o]))'
    <3>1. ASSUME NEW o \in Clients, contracting'[o].op \in {"transition", "updated"}
          PROVE  contracting'[o].to \in T!Transitions[contracting'[o].read]
                 /\ \E x \in DOMAIN trail' : trail'[x].to = contracting'[o].read
      <4>1. contracting'[o] = contracting[o]
        BY <1>3, <3>1 DEF T!Idle
      <4>2. PICK x \in DOMAIN trail : trail[x].to = contracting[o].read
                 /\ contracting[o].to \in T!Transitions[contracting[o].read]
        BY <3>1, <4>1 DEF ContractInv, MoveOfMatrix
      <4>3. x \in DOMAIN trail' /\ trail'[x] = trail[x]
        BY <2>4, <4>2
      <4> QED BY <4>1, <4>2, <4>3
    <3> QED BY <3>1 DEF MoveOfMatrix
  <2> QED BY <1>6, <1>8, <1>11, <1>12, <1>13, <1>14, <2>7, <2>8, <2>9 DEF ContractInv
<1> QED BY <1>15, <1>17

\* A contract begins in its invariant.
LEMMA ContractsBegin == ASSUME T!Parameters, T!Init PROVE ContractInv
<1>1. T!Idle \in T!Jobs
  BY DEF T!Idle, T!Jobs, T!ContractStatus
<1>2. T!TypeOK
  BY <1>1 DEF T!Init, T!TypeOK, T!ContractStatus, T!Parameters
<1>3. \A s \in Clients : contracting[s].op = "idle" /\ contracting[s].reg = {}
  BY DEF T!Init, T!Idle
<1>4. Earns(contract) /\ T!TrailFollowsMatrix
  BY DEF T!Init, Earns, Begun, T!TrailFollowsMatrix
<1> QED BY <1>2, <1>3, <1>4 DEF ContractInv, MoveOfMatrix, T!Init

\* Every step of a contract keeps its invariant.
LEMMA ContractsGoOn == ASSUME T!Parameters, ContractInv, [T!Next]_T!vars PROVE ContractInv'
<1>1. CASE UNCHANGED T!vars
  <2>1. (Covered => Covered') /\ (Reviewed => Reviewed')
    BY <1>1, EarnedStays DEF T!vars
  <2> QED BY <1>1, <2>1 DEF T!vars, ContractInv, MoveOfMatrix, T!TypeOK, Earns, T!TrailFollowsMatrix
<1>2. CASE T!Create
  <2>1. contract = "absent" /\ contract' = "draft"
        /\ trail' = <<[from |-> "absent", to |-> "draft"]>>
        /\ UNCHANGED <<links, registry, reports, reportStamp, contracting>>
    BY <1>2 DEF T!Create
  <2>2. T!TypeOK'
    BY <2>1 DEF ContractInv, T!TypeOK, T!TaskContractEvent, T!ContractStatus
  <2>3. T!TrailFollowsMatrix' /\ Earns(contract)' /\ trail' # <<>> /\ contract' # "absent"
    BY <2>1 DEF T!TrailFollowsMatrix, Earns, Begun
  <2>4. \A s \in Clients : contracting[s].op \notin {"transition", "updated"}
    <3>1. DOMAIN trail = {}
      BY <2>1 DEF ContractInv
    <3> QED BY <3>1 DEF ContractInv, MoveOfMatrix
  <2> QED BY <2>1, <2>2, <2>3, <2>4 DEF ContractInv, MoveOfMatrix
<1> QED BY <1>1, <1>2, InsertsKeep, UpdateKeeps, CommitKeeps DEF T!Next

\* What the invariant says of a contract.
LEMMA ContractsHold == ASSUME ContractInv PROVE T!DoneIsReviewed /\ T!TrailFollowsMatrix
BY DEF ContractInv, Earns, Reviewed, T!DoneIsReviewed

-----------------------------------------------------------------------------
(* Test oracles and the gate over their runs.                                *)

\* Division and what it leaves.
LEMMA Divides ==
    ASSUME NEW x \in Nat, NEW d \in Nat \ {0}
    PROVE  x \div d \in Nat /\ d * (x \div d) <= x /\ x < d * (x \div d) + d
<1>1. x = d * (x \div d) + (x % d) /\ x % d \in 0..(d - 1) /\ x \div d \in Nat
  OBVIOUS
<1> DEFINE q == x \div d
           r == x % d
<1> HIDE DEF q, r
<1>2. x = d * q + r /\ r \in 0..(d - 1) /\ q \in Nat
  BY <1>1 DEF q, r
<1>3. d * q \in Nat
  BY <1>2
<1> QED BY <1>2, <1>3 DEF q

\* Rounding to the nearest misses by half a unit at the most.
LEMMA HalfUpNear ==
    ASSUME NEW x \in Int, NEW d \in Nat \ {0}
    PROVE  /\ O!HalfUp(x, d) \in Int
           /\ 2 * d * O!HalfUp(x, d) <= 2 * x + d
           /\ 2 * x - d <= 2 * d * O!HalfUp(x, d)
<1> DEFINE y == IF x >= 0 THEN x ELSE -x
           q == (2 * y + d) \div (2 * d)
           h == O!HalfUp(x, d)
<1>1. y \in Nat /\ 2 * y + d \in Nat /\ 2 * d \in Nat \ {0} /\ h = IF x >= 0 THEN q ELSE -q
  BY DEF O!HalfUp
<1>2. q \in Nat /\ 2 * d * q <= 2 * y + d /\ 2 * y + d < 2 * d * q + 2 * d
  BY <1>1, Divides
<1> HIDE DEF q, h
<1>3. 2 * d * q \in Nat /\ 2 * d * (-q) = -(2 * d * q)
  BY <1>2
<1>4. CASE x >= 0
  BY <1>1, <1>2, <1>3, <1>4 DEF y, h
<1>5. CASE x < 0
  <2>1. y = -x /\ h = -q
    BY <1>1, <1>5
  <2> HIDE DEF y
  <2>2. 2 * d * h = -(2 * d * q)
    BY <1>3, <2>1
  <2> QED BY <1>1, <1>2, <1>3, <2>1, <2>2 DEF h
<1> QED BY <1>4, <1>5

\* So does rounding to even, which never falls below the whole part.
LEMMA HalfEvenNear ==
    ASSUME NEW x \in Nat, NEW d \in Nat \ {0}
    PROVE  /\ O!HalfEven(x, d) \in Nat /\ x \div d <= O!HalfEven(x, d)
           /\ 2 * d * O!HalfEven(x, d) <= 2 * x + d
           /\ 2 * x - d <= 2 * d * O!HalfEven(x, d)
<1> DEFINE q == x \div d
           r == x % d
           h == O!HalfEven(x, d)
<1>1. x = d * q + r /\ r \in 0..(d - 1) /\ q \in Nat
  OBVIOUS
<1>2. h = IF 2 * r < d \/ (2 * r = d /\ q % 2 = 0) THEN q ELSE q + 1
  BY DEF O!HalfEven
<1>3. q = x \div d
  OBVIOUS
<1> HIDE DEF q, r, h
<1>4. d * q \in Nat /\ 2 * d * q = 2 * (d * q) /\ 2 * d * (q + 1) = 2 * (d * q) + 2 * d
  BY <1>1
<1>5. CASE h = q /\ 2 * r <= d
  BY <1>1, <1>3, <1>4, <1>5 DEF h
<1>6. CASE h = q + 1 /\ 2 * r >= d
  <2>1. 2 * d * h = 2 * (d * q) + 2 * d
    BY <1>4, <1>6
  <2>2. h \in Nat /\ q <= h
    BY <1>1, <1>6
  <2> QED BY <1>1, <1>3, <1>4, <1>6, <2>1, <2>2 DEF h
<1> QED BY <1>1, <1>2, <1>5, <1>6

\* One rounds to one.
LEMMA HalvesRound == ASSUME NEW x \in Nat, x > 0 PROVE O!Millionths(x, x) = O!Million
<1> DEFINE h == O!Millionths(x, x)
           m == O!Million
<1>1. m \in Nat
  BY DEF O!Million
<1>2. h = O!HalfUp(m * x, x)
  BY DEF O!Millionths
<1> HIDE DEF m
<1> HIDE DEF h
<1>3. m * x \in Int /\ x \in Nat \ {0}
  BY <1>1
<1>4. h \in Int /\ 2 * x * h <= 2 * (m * x) + x /\ 2 * (m * x) - x <= 2 * x * h
  <2>1. \A y \in Int : LET k == O!HalfUp(y, x) IN
          k \in Int /\ 2 * x * k <= 2 * y + x /\ 2 * y - x <= 2 * x * k
    BY <1>3, HalfUpNear
  <2> QED BY <1>2, <1>3, <2>1
<1>5. ~(h >= m + 1)
  <2> SUFFICES ASSUME h >= m + 1 PROVE FALSE
    OBVIOUS
  <2>1. 2 * x * h >= 2 * x * (m + 1) /\ 2 * x * (m + 1) = 2 * (m * x) + 2 * x
    BY <1>1, <1>4
  <2> QED BY <1>1, <1>3, <1>4, <2>1
<1>6. ~(h <= m - 1)
  <2> SUFFICES ASSUME h <= m - 1 PROVE FALSE
    OBVIOUS
  <2>1. 2 * x * h <= 2 * x * (m - 1) /\ 2 * x * (m - 1) = 2 * (m * x) - 2 * x
    BY <1>1, <1>4
  <2> QED BY <1>1, <1>3, <1>4, <2>1
<1>7. h = m
  BY <1>1, <1>4, <1>5, <1>6
<1> QED BY <1>7 DEF h, m

\* A rate p / n and a floor f / g of which one is rounded, to q and to s: beyond
\* half a unit both comparisons agree.
LEMMA RateAndFloor ==
    ASSUME NEW p \in Nat, NEW n \in Nat \ {0}, NEW f \in Nat, NEW g \in Nat \ {0},
           NEW s \in Int, NEW q \in Int,
           2 * g * s <= 2 * f + g, 2 * f - g <= 2 * g * s,
           2 * n * q <= 2 * p + n, 2 * p - n <= 2 * n * q
    PROVE  /\ 2 * (g * p - f * n) > g * n => p >= s * n /\ q * g >= f
           /\ 2 * (g * p - f * n) < -(g * n) => ~(p >= s * n) /\ ~(q * g >= f)
<1> DEFINE gp == g * p
           fn == f * n
           gn == g * n
           gsn == g * (s * n)
           ngq == n * (q * g)
<1>1. gp \in Nat /\ fn \in Nat /\ gn \in Nat /\ gsn \in Int /\ ngq \in Int /\ s * n \in Int
      /\ q * g \in Int
  OBVIOUS
<1>2. 2 * gsn <= 2 * fn + gn /\ 2 * fn - gn <= 2 * gsn
  <2>1. n * (2 * g * s) <= n * (2 * f + g) /\ n * (2 * f - g) <= n * (2 * g * s)
    OBVIOUS
  <2>2. n * (2 * g * s) = 2 * gsn /\ n * (2 * f + g) = 2 * fn + gn /\ n * (2 * f - g) = 2 * fn - gn
    OBVIOUS
  <2> HIDE DEF gp, fn, gn, gsn, ngq
  <2> QED BY <2>1, <2>2
<1>3. 2 * ngq <= 2 * gp + gn /\ 2 * gp - gn <= 2 * ngq
  <2>1. g * (2 * n * q) <= g * (2 * p + n) /\ g * (2 * p - n) <= g * (2 * n * q)
    OBVIOUS
  <2>2. g * (2 * n * q) = 2 * ngq /\ g * (2 * p + n) = 2 * gp + gn /\ g * (2 * p - n) = 2 * gp - gn
    OBVIOUS
  <2> HIDE DEF gp, fn, gn, gsn, ngq
  <2> QED BY <2>1, <2>2
<1>4. /\ gp > gsn => p >= s * n
      /\ gp < gsn => ~(p >= s * n)
  <2> DEFINE t == s * n
  <2>1. t \in Int
    OBVIOUS
  <2> HIDE DEF t
  <2>2. (p < t => g * p < g * t) /\ (p >= t => g * p >= g * t)
    BY <2>1
  <2>3. g * p \in Int /\ g * t \in Int
    BY <2>1
  <2> QED BY <2>1, <2>2, <2>3 DEF t
<1>5. /\ ngq > fn => q * g >= f
      /\ ngq < fn => ~(q * g >= f)
  <2> DEFINE t == q * g
  <2>1. t \in Int
    OBVIOUS
  <2> HIDE DEF t
  <2>2. (t < f => n * t < n * f) /\ (t >= f => n * t >= n * f) /\ n * f = f * n
    BY <2>1
  <2>3. n * t \in Int /\ n * f \in Int
    BY <2>1
  <2> QED BY <2>1, <2>2, <2>3 DEF t
<1> HIDE DEF gp, fn, gn, gsn, ngq
<1>6. /\ 2 * (gp - fn) > gn => gp > gsn /\ ngq > fn
      /\ 2 * (gp - fn) < -gn => gp < gsn /\ ngq < fn
  BY <1>1, <1>2, <1>3
<1> QED BY <1>4, <1>5, <1>6 DEF gp, fn, gn

\* A map that is one to one and onto.
LEMMA OneToOne ==
    ASSUME NEW Xs, NEW Ys, NEW f \in [Xs -> Ys], \A v, w \in Xs : f[v] = f[w] => v = w,
           \A t \in Ys : \E v \in Xs : f[v] = t
    PROVE  ExistsBijection(Xs, Ys)
<1>1. f \in Bijection(Xs, Ys)
  BY DEF Bijection, Injection, Surjection, IsInjective
<1> QED BY <1>1 DEF ExistsBijection

\* The cells of a panel, and the pairs of different judges on a case.
LEMMA PanelCounts ==
    ASSUME O!Parameters
    PROVE  LET n == O!Cardinality(Cases) IN
           /\ n \in Nat /\ O!Panel \in Nat
           /\ IsFiniteSet(Cases \X Judges) /\ O!Cardinality(Cases \X Judges) = n * O!Panel
           /\ O!Cardinality({v \in Cases \X Judges \X Judges : v[2] # v[3]})
                = n * O!Panel * (O!Panel - 1)
<1> DEFINE n == O!Cardinality(Cases)
           pairs == Cases \X Judges
           triples == Cases \X Judges \X Judges
           equal == {v \in triples : v[2] = v[3]}
           f == [v \in pairs \X Judges |-> <<v[1][1], v[1][2], v[2]>>]
           g == [v \in pairs |-> <<v[1], v[2], v[2]>>]
<1>1. n \in Nat /\ O!Panel \in Nat /\ IsFiniteSet(pairs) /\ O!Cardinality(pairs) = n * O!Panel
  BY FS_CardinalityType, FS_Product, SameCards DEF O!Parameters, O!Panel
<1>2. IsFiniteSet(pairs \X Judges) /\ O!Cardinality(pairs \X Judges) = n * O!Panel * O!Panel
  <2>1. IsFiniteSet(Judges)
    BY SameCards DEF O!Parameters
  <2> HIDE DEF pairs, n
  <2> QED BY <1>1, <2>1, FS_Product, SameCards DEF O!Panel
<1>3. ExistsBijection(pairs \X Judges, triples)
  <2>1. f \in [pairs \X Judges -> triples]
    OBVIOUS
  <2>2. \A v, w \in pairs \X Judges : f[v] = f[w] => v = w
    OBVIOUS
  <2>3. ASSUME NEW t \in triples PROVE \E v \in pairs \X Judges : f[v] = t
    <3>1. <<<<t[1], t[2]>>, t[3]>> \in pairs \X Judges /\ f[<<<<t[1], t[2]>>, t[3]>>] = t
      OBVIOUS
    <3> QED BY <3>1
  <2> HIDE DEF pairs, triples, f
  <2> QED BY <2>1, <2>2, <2>3, OneToOne
<1>4. IsFiniteSet(triples) /\ O!Cardinality(triples) = n * O!Panel * O!Panel
  BY <1>2, <1>3, FS_Bijection, SameCards
<1>5. ExistsBijection(pairs, equal)
  <2>1. g \in [pairs -> equal]
    OBVIOUS
  <2>2. \A v, w \in pairs : g[v] = g[w] => v = w
    OBVIOUS
  <2>3. ASSUME NEW t \in equal PROVE \E v \in pairs : g[v] = t
    <3>1. <<t[1], t[2]>> \in pairs /\ g[<<t[1], t[2]>>] = t
      OBVIOUS
    <3> QED BY <3>1
  <2> HIDE DEF pairs, equal, g
  <2> QED BY <2>1, <2>2, <2>3, OneToOne
<1>6. O!Cardinality(equal) = n * O!Panel
  BY <1>1, <1>5, FS_Bijection, SameCards
<1>7. {v \in triples : v[2] # v[3]} = triples \ equal /\ triples \cap equal = equal
  OBVIOUS
<1> HIDE DEF n, triples, equal
<1>8. O!Cardinality(triples \ equal) = n * O!Panel * O!Panel - n * O!Panel
  <2>1. O!Cardinality(triples \ equal) = O!Cardinality(triples) - O!Cardinality(triples \cap equal)
    BY <1>4, FS_Difference, SameCards
  <2> QED BY <1>4, <1>6, <1>7, <2>1
<1>9. n * O!Panel * O!Panel - n * O!Panel = n * O!Panel * (O!Panel - 1)
  BY <1>1
<1>10. O!Cardinality({v \in triples : v[2] # v[3]}) = n * O!Panel * (O!Panel - 1)
  BY <1>7, <1>8, <1>9
<1> QED BY <1>1, <1>10 DEF n, triples

\* A panel that does not disagree has kappa 1.
LEMMA KappaOne ==
    ASSUME O!Parameters, NEW votes \in [Cases -> SUBSET Judges], O!Disagreements(votes) = {}
    PROVE  O!fleiss_kappa(votes) = O!Million
<1> DEFINE n == O!Cardinality(Cases)
           all == n * O!Panel
           on == O!Agreements(votes)
           od == n * O!Panel * (O!Panel - 1)
           t == O!Total(votes)
           en == t * t + (all - t) * (all - t)
           ed == all * all
<1>1. n \in Nat /\ O!Panel \in Nat /\ O!Panel >= 2 /\ all \in Nat
  BY PanelCounts DEF O!Parameters, O!Panel
<1>2. on = od
  <2>1. \A c \in Cases : votes[c] = {} \/ votes[c] = Judges
    BY DEF O!Disagreements
  <2>2. {v \in Cases \X Judges \X Judges :
            v[2] # v[3] /\ (v[2] \in votes[v[1]] <=> v[3] \in votes[v[1]])}
        = {v \in Cases \X Judges \X Judges : v[2] # v[3]}
    BY <2>1
  <2> QED BY <2>2, PanelCounts DEF O!Agreements
<1>3. t \in Nat /\ t <= all
  <2>1. {v \in Cases \X Judges : v[2] \in votes[v[1]]} \subseteq Cases \X Judges
    OBVIOUS
  <2> QED BY <2>1, PanelCounts, FS_Subset, FS_CardinalityType, SameCards DEF O!Total
<1>4. O!fleiss_kappa(votes) = IF en = ed THEN (IF on = od THEN O!Million ELSE 0)
                            ELSE O!Millionths(on * ed - en * od, od * (ed - en))
  BY DEF O!fleiss_kappa
<1>5. CASE en = ed
  BY <1>2, <1>4, <1>5
<1>6. CASE en # ed
  <2>1. od \in Nat /\ (all > 0 => od > 0)
    BY <1>1
  <2>2. en \in Nat /\ ed \in Nat /\ ed - en = 2 * t * (all - t)
    BY <1>1, <1>3
  <2>3. 2 * t * (all - t) >= 0
    BY <1>1, <1>3
  <2>4. all > 0
    <3> SUFFICES ASSUME all = 0 PROVE en = ed
      BY <1>1, <1>6
    <3> HIDE DEF all, t
    <3>1. t = 0
      BY <1>1, <1>3
    <3> QED BY <3>1
  <2> HIDE DEF n, on, od, en, ed, all, t
  <2>5. ed - en > 0
    BY <1>6, <2>2, <2>3
  <2>6. od * (ed - en) \in Nat /\ od * (ed - en) > 0 /\ on * ed - en * od = od * (ed - en)
    BY <1>2, <2>1, <2>2, <2>4, <2>5
  <2> QED BY <1>4, <1>6, <2>6, HalvesRound
<1> QED BY <1>5, <1>6

\* A rate reported, and its floor.
LEMMA RateTyped ==
    ASSUME O!Parameters, NEW r \in O!TestOracleRun
    PROVE  O!Passed(r) \in Nat /\ O!Rated(r) \in Nat \ {0} /\ MinPassRate[r.oracle] \in Nat
<1> DEFINE votes == r.results.votes
           passing == r.results.passing
           n == O!Cardinality(Cases)
<1>1. votes \in [Cases -> SUBSET Judges] /\ passing \in SUBSET Cases /\ r.oracle \in Oracles
  BY DEF O!TestOracleRun, O!TestResults
<1>2. n \in Nat /\ n # 0 /\ O!Panel \in Nat /\ O!Panel >= 2
  BY PanelCounts, FS_EmptySet, SameCards DEF O!Parameters
<1>3. O!Total(votes) \in Nat
  <2>1. {v \in Cases \X Judges : v[2] \in votes[v[1]]} \subseteq Cases \X Judges
    OBVIOUS
  <2> QED BY <2>1, PanelCounts, FS_Subset, FS_CardinalityType, SameCards DEF O!Total
<1>4. O!Cardinality(passing) \in Nat
  BY <1>1, FS_Subset, FS_CardinalityType, SameCards DEF O!Parameters
<1>5. n * O!Panel \in Nat \ {0} /\ n * 1 \in Nat \ {0}
  <2> HIDE DEF n
  <2>1. n * O!Panel >= n
    BY <1>2
  <2> QED BY <1>2, <2>1
<1>6. O!Passed(r) \in Nat /\ O!Rated(r) \in Nat \ {0}
  <2> HIDE DEF n
  <2>1. CASE OracleType[r.oracle] = "judgment"
    BY <1>3, <1>5, <2>1 DEF O!Passed, O!Rated, n
  <2>2. CASE OracleType[r.oracle] # "judgment"
    BY <1>4, <1>5, <2>2 DEF O!Passed, O!Rated, n
  <2> QED BY <2>1, <2>2
<1> QED BY <1>1, <1>6 DEF O!Parameters

\* What Python compares with the floor of a judgment, and what PostgreSQL does.
Quantized(r) == O!HalfEven(O!Million * O!Passed(r), O!Rated(r))
Reaches(r) == O!Million * O!Passed(r) >= O!Stored(MinPassRate[r.oracle]) * O!Rated(r)
Meets(r) == Quantized(r) * Fine >= MinPassRate[r.oracle]

\* They agree beyond half a millionth, and on a floor of six digits what
\* PostgreSQL passes meets the floor in Python.
LEMMA VerdictsNear ==
    ASSUME O!Parameters, NEW r \in O!TestOracleRun
    PROVE  /\ 2 * O!Above(r) > Fine * O!Rated(r) => Reaches(r) /\ Meets(r)
           /\ 2 * O!Above(r) < -(Fine * O!Rated(r)) => ~Reaches(r) /\ ~Meets(r)
           /\ MinPassRate[r.oracle] % Fine = 0 /\ Reaches(r) => Meets(r)
<1> DEFINE p == O!Million * O!Passed(r)
           n == O!Rated(r)
           f == MinPassRate[r.oracle]
           s == O!Stored(f)
           q == Quantized(r)
<1>1. p \in Nat /\ n \in Nat \ {0} /\ f \in Nat /\ Fine \in Nat \ {0}
  BY RateTyped DEF O!Parameters, O!Million
<1>2. q = O!HalfEven(p, n) /\ s = O!HalfUp(f, Fine)
  BY DEF Quantized, O!Stored
<1>3. O!Above(r) = Fine * p - f * n
  <2> DEFINE x == O!Passed(r)
             m == O!Million
  <2>1. x \in Nat /\ m \in Nat
    BY RateTyped DEF O!Million
  <2>2. O!Above(r) = m * Fine * x - f * n
    BY DEF O!Above
  <2>3. p = m * x
    OBVIOUS
  <2> HIDE DEF x, m, p, n, f
  <2>4. m * Fine * x = Fine * p
    BY <1>1, <2>1, <2>3
  <2> QED BY <2>2, <2>4
<1>4. (Reaches(r) <=> p >= s * n) /\ (Meets(r) <=> q * Fine >= f)
  BY DEF Reaches, Meets
<1> HIDE DEF p, n, f, s, q
<1>5. /\ s \in Int /\ 2 * Fine * s <= 2 * f + Fine /\ 2 * f - Fine <= 2 * Fine * s
  BY <1>1, <1>2, HalfUpNear
<1>6. /\ q \in Nat /\ p \div n <= q /\ 2 * n * q <= 2 * p + n /\ 2 * p - n <= 2 * n * q
  BY <1>1, <1>2, HalfEvenNear
<1>7. /\ 2 * (Fine * p - f * n) > Fine * n => p >= s * n /\ q * Fine >= f
      /\ 2 * (Fine * p - f * n) < -(Fine * n) => ~(p >= s * n) /\ ~(q * Fine >= f)
  BY <1>1, <1>5, <1>6, RateAndFloor
<1>8. ASSUME f % Fine = 0, p >= s * n PROVE q * Fine >= f
  <2> DEFINE t == f \div Fine
             u == p \div n
  <2>1. f = Fine * t /\ t \in Nat
    BY <1>1, <1>8
  <2>2. u \in Nat /\ p < n * u + n /\ u <= q
    BY <1>1, <1>6, Divides
  <2> HIDE DEF t, u
  <2>3. s >= t
    <3>1. 2 * Fine * t - Fine <= 2 * Fine * s
      BY <1>1, <1>5, <2>1
    <3>2. s <= t - 1 => 2 * Fine * s <= 2 * Fine * (t - 1)
      BY <1>1, <1>5, <2>1
    <3>3. 2 * Fine * (t - 1) = 2 * Fine * t - 2 * Fine /\ 2 * Fine * t \in Int
      BY <1>1, <2>1
    <3> QED BY <1>1, <1>5, <2>1, <3>1, <3>2, <3>3
  <2>4. s * n >= t * n
    BY <1>1, <1>5, <2>1, <2>3
  <2>5. u >= t
    <3>1. u <= t - 1 => n * u + n <= t * n
      <4>1. u <= t - 1 => n * (u + 1) <= n * t
        BY <1>1, <2>1, <2>2
      <4> QED BY <1>1, <2>1, <2>2, <4>1
    <3>2. n * u \in Int /\ t * n \in Int /\ s * n \in Int
      BY <1>1, <1>5, <2>1, <2>2
    <3> QED BY <1>1, <1>8, <2>1, <2>2, <2>4, <3>1, <3>2
  <2>6. q * Fine >= t * Fine
    BY <1>1, <1>6, <2>1, <2>2, <2>5
  <2> QED BY <1>1, <2>1, <2>6
<1> QED BY <1>3, <1>4, <1>7, <1>8 DEF n, f

\* A panel that agrees is reliable enough, for both.
LEMMA AgreementSuffices ==
    ASSUME O!Parameters
    PROVE  O!Million * Fine >= MinReliability /\ O!Million >= O!Stored(MinReliability)
<1> DEFINE m == O!Million
           s == O!Stored(MinReliability)
<1>1. m \in Nat /\ Fine \in Nat \ {0} /\ MinReliability \in Int /\ MinReliability <= m * Fine
  BY DEF O!Million, O!Parameters
<1>2. s \in Int /\ 2 * Fine * s <= 2 * MinReliability + Fine
  BY <1>1, HalfUpNear DEF O!Stored
<1> HIDE DEF m, s
<1>3. ~(s >= m + 1)
  <2> SUFFICES ASSUME s >= m + 1 PROVE FALSE
    OBVIOUS
  <2>1. 2 * Fine * s >= 2 * Fine * (m + 1) /\ 2 * Fine * (m + 1) = 2 * (m * Fine) + 2 * Fine
        /\ m * Fine \in Int
    BY <1>1, <1>2
  <2> QED BY <1>1, <1>2, <2>1
<1> QED BY <1>1, <1>2, <1>3 DEF m, s

\* What the database and the decision say of a judgment that was executed.
LEMMA VerdictDecides ==
    ASSUME O!Parameters, NEW r \in O!TestOracleRun, r.failure = "none",
           OracleType[r.oracle] = "judgment"
    PROVE  LET reason == O!JudgmentReason(r.oracle, r.results.votes)
               open == r.oracle \notin HumanReview /\ O!Disagreements(r.results.votes) = {}
           IN  /\ O!Verdict(r) <=> open /\ Reaches(r)
               /\ reason = "passed" <=> open /\ Meets(r)
               /\ open => reason \in {"passed", "pass_rate_below_floor"}
               /\ reason # "irr_below_floor"
<1> DEFINE votes == r.results.votes
           kappa == O!fleiss_kappa(votes)
           apart == O!Disagreements(votes)
           asked == r.oracle \in HumanReview
           m == O!Million
           rate == O!HalfEven(m * O!Total(votes), O!Cardinality(Cases) * O!Panel)
           reason == O!JudgmentReason(r.oracle, votes)
<1>1. votes \in [Cases -> SUBSET Judges]
  BY DEF O!TestOracleRun, O!TestResults
<1>2. apart = {} => kappa = m
  BY <1>1, KappaOne
<1>3. m * Fine >= MinReliability /\ m >= O!Stored(MinReliability)
  BY AgreementSuffices
<1>4. O!Verdict(r) <=> Reaches(r) /\ kappa >= O!Stored(MinReliability) /\ apart = {} /\ ~asked
  BY DEF O!Verdict, Reaches
<1>5. reason = IF asked THEN "human_review_required_unavailable"
               ELSE IF apart # {} THEN "unresolved_disagreement"
               ELSE IF kappa * Fine < MinReliability THEN "irr_below_floor"
               ELSE IF rate * Fine < MinPassRate[r.oracle] THEN "pass_rate_below_floor"
               ELSE "passed"
  BY DEF O!JudgmentReason
<1>6. rate * Fine < MinPassRate[r.oracle] <=> ~Meets(r)
  <2>1. rate = Quantized(r)
    BY DEF Quantized, O!Passed, O!Rated
  <2>2. Quantized(r) \in Nat /\ Fine \in Nat /\ MinPassRate[r.oracle] \in Nat
    <3>1. O!Million * O!Passed(r) \in Nat
      BY RateTyped DEF O!Million
    <3> QED BY <3>1, RateTyped, HalfEvenNear DEF Quantized, O!Parameters
  <2> HIDE DEF rate
  <2>3. Quantized(r) * Fine \in Nat
    BY <2>2
  <2> QED BY <2>1, <2>2, <2>3 DEF Meets
<1>7. apart = {} => ~(kappa * Fine < MinReliability)
  <2>1. m * Fine \in Int /\ MinReliability \in Int
    BY DEF O!Million, O!Parameters
  <2> HIDE DEF m, kappa, apart
  <2> QED BY <1>2, <1>3, <2>1
<1> HIDE DEF m, kappa, apart, asked, rate, reason
<1>8. /\ O!Verdict(r) <=> ~asked /\ apart = {} /\ Reaches(r)
      /\ reason = "passed" <=> ~asked /\ apart = {} /\ Meets(r)
      /\ ~asked /\ apart = {} => reason \in {"passed", "pass_rate_below_floor"}
      /\ reason # "irr_below_floor"
  BY <1>2, <1>3, <1>4, <1>5, <1>6, <1>7
<1> QED BY <1>8 DEF apart, asked, reason

\* The sessions that have been let in and whose answers are not in the ledger.
Unpaid ==
    {s \in Callers : \/ testing[s].step = "judging"
                     \/ testing[s].step = "inserted" /\ testing[s].cost > 0}

\* Each was let in below the budget, and may turn out to cost the most.
OracleInv ==
    /\ O!TypeOK
    /\ spent + O!Cardinality(Unpaid) * MaxBill
         < OracleBudget - O!PanelCost + O!Cardinality(Callers) * MaxBill

\* The numbers of the invariant.
LEMMA OracleNumbers ==
    ASSUME O!Parameters
    PROVE  /\ O!PanelCost \in Nat /\ MaxBill \in Nat /\ O!PanelCost <= MaxBill
           /\ {0} \cup Bills \subseteq 0..MaxBill
           /\ O!Cardinality(Callers) \in Nat /\ O!Cardinality(Callers) >= 1
           /\ \A xs \in SUBSET Callers : /\ IsFiniteSet(xs) /\ O!Cardinality(xs) \in Nat
                                         /\ O!Cardinality(xs) <= O!Cardinality(Callers)
           /\ OracleBudget \in Nat
<1>1. O!PanelCost \in Nat
  BY PanelCounts DEF O!PanelCost, O!Parameters
<1>2. \A xs \in SUBSET Callers : /\ IsFiniteSet(xs) /\ O!Cardinality(xs) \in Nat
                                 /\ O!Cardinality(xs) <= O!Cardinality(Callers)
  BY FS_Subset, FS_CardinalityType, SameCards DEF O!Parameters
<1>3. O!Cardinality(Callers) \in Nat /\ O!Cardinality(Callers) # 0
  BY FS_CardinalityType, FS_EmptySet, SameCards DEF O!Parameters
<1> QED BY <1>1, <1>2, <1>3 DEF O!Parameters

\* Fewer unpaid panels and no more spent: the bound is kept.
LEMMA BoundKept ==
    ASSUME O!Parameters, OracleInv, spent' = spent, Unpaid' \subseteq Unpaid
    PROVE  spent' + O!Cardinality(Unpaid') * MaxBill
             < OracleBudget - O!PanelCost + O!Cardinality(Callers) * MaxBill
<1> DEFINE k == MaxBill
           m == O!Cardinality(Unpaid)
           n == O!Cardinality(Unpaid')
<1>1. k \in Nat /\ m \in Nat /\ n \in Nat /\ n <= m /\ spent \in Nat
  BY OracleNumbers, FS_Subset, SameCards DEF OracleInv, O!TypeOK, Unpaid
<1>2. n * k <= m * k
  <2> HIDE DEF k, m, n
  <2> QED BY <1>1
<1>3. m * k \in Nat /\ n * k \in Nat /\ O!Cardinality(Callers) * k \in Nat
        /\ OracleBudget \in Nat /\ O!PanelCost \in Nat
  <2>1. O!Cardinality(Callers) \in Nat /\ OracleBudget \in Nat /\ O!PanelCost \in Nat
    BY OracleNumbers
  <2> HIDE DEF k, m, n
  <2> QED BY <1>1, <2>1
<1> QED BY <1>1, <1>2, <1>3 DEF OracleInv

\* What the fields of a job range over.
LEMMA OracleJobFields ==
    ASSUME NEW j \in O!Jobs
    PROVE  /\ j.step \in {"idle", "fetching", "fetched", "judging", "inserted"}
           /\ j.step = "idle" => j = O!Idle
           /\ j.step \in {"fetching", "fetched", "judging"} =>
                /\ j = [step |-> j.step, oracle |-> j.oracle, repo |-> j.repo, commit |-> j.commit]
                /\ j.oracle \in Oracles /\ j.repo \in Repos /\ j.commit \in Commits
           /\ j.step = "inserted" => j.run \in O!TestOracleRun /\ j.cost \in {0} \cup Bills
BY DEF O!Jobs, O!Idle

\* A session turns to j, which is no new panel.
LEMMA OracleTurn ==
    ASSUME O!Parameters, OracleInv, NEW s \in Callers, NEW j \in O!Jobs,
           testing' = [testing EXCEPT ![s] = j], UNCHANGED <<scoped, repo, active, oracleRuns,
               spent>>,
           oracleClock' \in 0..MaxRuns,
           \/ s \in Unpaid
           \/ j.step # "judging" /\ ~(j.step = "inserted" /\ j.cost > 0)
    PROVE  OracleInv'
<1>1. O!TypeOK'
  BY DEF OracleInv, O!TypeOK
<1>2. /\ testing'[s] = j
      /\ \A o \in Callers \ {s} : testing'[o] = testing[o]
  BY DEF OracleInv, O!TypeOK
<1>3. Unpaid' \subseteq Unpaid
  BY <1>2 DEF Unpaid
<1> QED BY <1>1, <1>3, BoundKept DEF OracleInv

\* A run is inserted.
LEMMA InsertKeepsBound ==
    ASSUME O!Parameters, OracleInv, NEW s \in Callers,
           testing[s].step \in {"fetching", "fetched", "judging"},
           NEW failure \in O!FailureCode, NEW results \in O!TestResults, NEW cost \in {0} \cup Bills,
           O!InsertRun(s, failure, results, cost), cost > 0 => testing[s].step = "judging"
    PROVE  OracleInv'
<1> DEFINE j == testing[s]
           run == [oracle |-> j.oracle, repo |-> j.repo, commit |-> j.commit,
                   failure |-> failure, results |-> results, created_at |-> oracleClock + 1]
           job == [step |-> "inserted", cost |-> cost, run |-> run]
<1>1. /\ oracleClock < MaxRuns /\ oracleClock' = oracleClock + 1
      /\ testing' = [testing EXCEPT ![s] = job]
      /\ UNCHANGED <<scoped, repo, active, oracleRuns, spent>>
  BY DEF O!InsertRun
<1>2. j \in O!Jobs /\ oracleClock \in 0..MaxRuns /\ MaxRuns \in Nat
  BY DEF OracleInv, O!TypeOK, O!Parameters
<1>3. j.oracle \in Oracles /\ j.repo \in Repos /\ j.commit \in Commits
  BY <1>2, OracleJobFields
<1>4. oracleClock + 1 \in 1..MaxRuns /\ oracleClock + 1 \in 0..MaxRuns
  BY <1>1, <1>2
<1> HIDE DEF j
<1>5. run \in O!TestOracleRun
  BY <1>3, <1>4 DEF O!TestOracleRun
<1> HIDE DEF run
<1>6. job \in O!Jobs
  BY <1>5 DEF O!Jobs
<1>7. job.step = "inserted" /\ job.cost = cost
  OBVIOUS
<1>8. cost > 0 => s \in Unpaid
  BY DEF Unpaid
<1> HIDE DEF job
<1> QED BY <1>1, <1>4, <1>6, <1>7, <1>8, OracleTurn

\* Nothing was observed: a result of every type.
LEMMA NoResultsTyped == O!NoResults \in O!TestResults
BY DEF O!NoResults, O!NoVotes, O!TestResults

\* A deterministic execution, or a fetch, keeps the bound.
LEMMA FetchesKeep ==
    ASSUME O!Parameters, OracleInv, NEW s \in Callers,
           \/ \E o \in scoped, c \in Commits : O!BeginExecution(s, o, c)
           \/ \E code \in O!FailureCode : O!FetchFails(s, code)
           \/ O!Fetch(s)
           \/ \E passing \in SUBSET Cases : O!Evaluate(s, passing)
           \/ O!Abort(s)
    PROVE  OracleInv'
<1>0. /\ testing[s] \in O!Jobs /\ scoped \subseteq Oracles /\ repo \in Repos
           /\ oracleClock \in 0..MaxRuns
      /\ 0 \in {0} \cup Bills
  BY DEF OracleInv, O!TypeOK
<1>a. O!Idle \in O!Jobs /\ O!Idle.step = "idle"
  BY DEF O!Jobs, O!Idle
<1>1. ASSUME NEW o \in scoped, NEW c \in Commits, O!BeginExecution(s, o, c) PROVE OracleInv'
  <2> DEFINE j == [step |-> "fetching", oracle |-> o, repo |-> repo, commit |-> c]
  <2>1. j \in O!Jobs /\ j.step = "fetching"
    BY <1>0 DEF O!Jobs
  <2>2. /\ testing' = [testing EXCEPT ![s] = j]
        /\ UNCHANGED <<scoped, repo, active, oracleRuns, spent, oracleClock>>
    BY <1>1 DEF O!BeginExecution
  <2> HIDE DEF j
  <2> QED BY <1>0, <2>1, <2>2, OracleTurn
<1>2. ASSUME NEW code \in O!FailureCode, O!FetchFails(s, code) PROVE OracleInv'
  BY <1>0, <1>2, NoResultsTyped, InsertKeepsBound DEF O!FetchFails
<1>3. ASSUME O!Fetch(s) PROVE OracleInv'
  <2> DEFINE j == [testing[s] EXCEPT !.step = "fetched"]
  <2>1. testing[s].step = "fetching"
    BY <1>3 DEF O!Fetch
  <2>2. j \in O!Jobs /\ j.step = "fetched"
    BY <1>0, <2>1, OracleJobFields DEF O!Jobs
  <2>3. /\ testing' = [testing EXCEPT ![s] = j]
        /\ UNCHANGED <<scoped, repo, active, oracleRuns, spent, oracleClock>>
    BY <1>3 DEF O!Fetch
  <2> HIDE DEF j
  <2> QED BY <1>0, <2>2, <2>3, OracleTurn
<1>4. ASSUME NEW passing \in SUBSET Cases, O!Evaluate(s, passing) PROVE OracleInv'
  <2>1. [O!NoResults EXCEPT !.passing = passing] \in O!TestResults
    BY DEF O!NoResults, O!NoVotes, O!TestResults
  <2>2. "none" \in O!FailureCode /\ "observation_validation_failed" \in O!FailureCode
    BY DEF O!FailureCode
  <2> QED BY <1>0, <1>4, <2>1, <2>2, NoResultsTyped, InsertKeepsBound DEF O!Evaluate
<1>5. ASSUME O!Abort(s) PROVE OracleInv'
  BY <1>0, <1>5, <1>a, OracleTurn DEF O!Abort
<1> QED BY <1>1, <1>2, <1>3, <1>4, <1>5

\* A panel is let in below the budget, pays what it costs, and commits.
LEMMA PanelsKeep ==
    ASSUME O!Parameters, OracleInv, NEW s \in Callers,
           \/ O!Empanel(s)
           \/ \E cost \in Bills : \/ \E votes \in [Cases -> SUBSET Judges] : O!Judge(s, votes, cost)
                                 \/ O!JudgeFails(s, cost)
           \/ O!CommitRun(s)
    PROVE  OracleInv'
<1>0. /\ testing[s] \in O!Jobs /\ oracleClock \in 0..MaxRuns /\ 0 \in {0} \cup Bills /\ spent \in Nat
  BY DEF OracleInv, O!TypeOK
<1>1. ASSUME O!Empanel(s) PROVE OracleInv'
  <2>0. testing[s].step = "fetched"
    BY <1>1 DEF O!Empanel
  <2>1. CASE \E code \in O!FailureCode : O!InsertRun(s, code, O!NoResults, 0)
    BY <1>0, <2>0, <2>1, NoResultsTyped, InsertKeepsBound
  <2>2. CASE /\ ~O!ProjectedExceedsBudget
             /\ testing' = [testing EXCEPT ![s].step = "judging"]
             /\ UNCHANGED <<scoped, repo, active, oracleRuns, spent, oracleClock>>
    <3> DEFINE j == [testing[s] EXCEPT !.step = "judging"]
    <3>1. j \in O!Jobs
      BY <1>0, <2>0, OracleJobFields DEF O!Jobs
    <3>2. testing' = [testing EXCEPT ![s] = j]
      BY <2>2
    <3> HIDE DEF j
    <3>3. O!TypeOK'
      BY <2>2, <3>1, <3>2 DEF OracleInv, O!TypeOK
    <3> DEFINE n == O!Cardinality(Unpaid')
               all == O!Cardinality(Callers)
               k == MaxBill
               c == O!PanelCost
    <3>4. n \in Nat /\ all \in Nat /\ k \in Nat /\ c \in Nat /\ n <= all /\ OracleBudget \in Nat
      BY OracleNumbers DEF Unpaid
    <3>5. spent + c < OracleBudget /\ spent' = spent
      BY <1>0, <2>2, <3>4 DEF O!ProjectedExceedsBudget
    <3> HIDE DEF n, all, k, c
    <3>6. n * k <= all * k /\ n * k \in Nat /\ all * k \in Nat
      BY <3>4
    <3>7. spent' + n * k < OracleBudget - c + all * k
      BY <1>0, <3>4, <3>5, <3>6
    <3> QED BY <3>3, <3>7 DEF OracleInv, n, all, k, c
  <2>3. {"judgment_evaluators_unqualified", "judgment_blocked_by_budget"} \subseteq O!FailureCode
    BY DEF O!FailureCode
  <2> QED BY <1>1, <2>1, <2>2, <2>3 DEF O!Empanel
<1>2. ASSUME NEW cost \in Bills, NEW votes \in [Cases -> SUBSET Judges], O!Judge(s, votes, cost)
      PROVE  OracleInv'
  <2>1. [O!NoResults EXCEPT !.votes = votes] \in O!TestResults
    BY DEF O!NoResults, O!TestResults
  <2>2. "none" \in O!FailureCode
    BY DEF O!FailureCode
  <2> QED BY <1>2, <2>1, <2>2, InsertKeepsBound DEF O!Judge
<1>3. ASSUME NEW cost \in Bills, O!JudgeFails(s, cost) PROVE OracleInv'
  <2>1. "judgment_execution_failed" \in O!FailureCode
    BY DEF O!FailureCode
  <2> QED BY <1>3, <2>1, NoResultsTyped, InsertKeepsBound DEF O!JudgeFails
<1>4. ASSUME O!CommitRun(s) PROVE OracleInv'
  <2>1. /\ testing[s].step = "inserted" /\ oracleRuns' = oracleRuns \cup {testing[s].run}
        /\ spent' = spent + testing[s].cost /\ testing' = [testing EXCEPT ![s] = O!Idle]
        /\ UNCHANGED <<scoped, repo, active, oracleClock>>
    BY <1>4 DEF O!CommitRun
  <2>2. PICK c : c = testing[s].cost
    OBVIOUS
  <2>3. testing[s].run \in O!TestOracleRun /\ c \in 0..MaxBill /\ spent' = spent + c
    BY <1>0, <2>1, <2>2, OracleJobFields, OracleNumbers
  <2>4. O!Idle \in O!Jobs /\ O!Idle.step = "idle"
    BY DEF O!Jobs, O!Idle
  <2>5. O!TypeOK'
    BY <1>0, <2>1, <2>3, <2>4, OracleNumbers DEF OracleInv, O!TypeOK
  <2>6. Unpaid' = Unpaid \ {s}
    BY <2>1, <2>4 DEF OracleInv, O!TypeOK, Unpaid
  <2>7. CASE c = 0
    BY <1>0, <2>3, <2>5, <2>6, <2>7, BoundKept DEF OracleInv
  <2>8. CASE c > 0
    <3> DEFINE m == O!Cardinality(Unpaid)
               n == O!Cardinality(Unpaid')
               k == MaxBill
               bound == OracleBudget - O!PanelCost + O!Cardinality(Callers) * MaxBill
    <3>1. s \in Unpaid
      BY <2>1, <2>2, <2>8 DEF Unpaid
    <3>2. m \in Nat /\ n = m - 1 /\ k \in Nat
      <4>1. Unpaid \in SUBSET Callers
        BY DEF Unpaid
      <4>2. IsFiniteSet(Unpaid) /\ m \in Nat /\ k \in Nat
        BY <4>1, OracleNumbers, SameCards
      <4>3. Cardinality(Unpaid \ {s}) = Cardinality(Unpaid) - 1
        BY <3>1, <4>2, FS_RemoveElement, SameCards
      <4>4. n = m - 1
        BY <2>6, <4>3, SameCards
      <4> QED BY <4>2, <4>4
    <3>3. spent + m * k < bound /\ bound \in Int
      <4>1. /\ O!Cardinality(Callers) \in Nat /\ MaxBill \in Nat /\ OracleBudget \in Nat
            /\ O!PanelCost \in Nat
        BY OracleNumbers
      <4>2. O!Cardinality(Callers) * MaxBill \in Nat
        BY <4>1
      <4> QED BY <4>1, <4>2 DEF OracleInv
    <3> HIDE DEF m, n, k, bound
    <3>4. n * k = m * k - k /\ m * k \in Nat
      BY <3>2
    <3>5. c \in 0..k
      BY <2>3 DEF k
    <3>6. spent' + n * k < bound
      BY <1>0, <2>3, <3>2, <3>3, <3>4, <3>5
    <3> QED BY <2>5, <3>6 DEF OracleInv, n, k, bound
  <2>9. c = 0 \/ c > 0
    BY <2>3, OracleNumbers
  <2> QED BY <2>7, <2>8, <2>9
<1> QED BY <1>1, <1>2, <1>3, <1>4

\* An oracle gate begins with the budget not used up.
LEMMA OraclesBegin == ASSUME O!Parameters, O!Init PROVE OracleInv
<1>1. O!Idle \in O!Jobs /\ O!Idle.step = "idle"
  BY DEF O!Jobs, O!Idle
<1>2. O!TypeOK
  BY <1>1 DEF O!Init, O!TypeOK, O!Parameters
<1>3. Unpaid = {} /\ O!Cardinality(Unpaid) = 0
  BY <1>1, FS_EmptySet, SameCards DEF O!Init, Unpaid
<1>4. spent \in Nat /\ spent < OracleBudget /\ OracleBudget \in Nat
  BY DEF O!Init, O!Parameters
<1>5. /\ O!Cardinality(Callers) * MaxBill \in Nat /\ 0 * MaxBill = 0 /\ O!PanelCost \in Nat
      /\ O!PanelCost <= O!Cardinality(Callers) * MaxBill
  <2> DEFINE n == O!Cardinality(Callers)
  <2>1. n \in Nat /\ n >= 1 /\ MaxBill \in Nat /\ O!PanelCost \in Nat /\ O!PanelCost <= MaxBill
    BY OracleNumbers
  <2> HIDE DEF n
  <2>2. n * MaxBill >= MaxBill /\ n * MaxBill \in Nat
    BY <2>1
  <2> QED BY <2>1, <2>2 DEF n
<1> QED BY <1>2, <1>3, <1>4, <1>5 DEF OracleInv

\* Every step of the oracles keeps their invariant.
LEMMA OraclesGoOn == ASSUME O!Parameters, OracleInv, [O!Next]_O!vars PROVE OracleInv'
<1>1. CASE \/ \E o \in Oracles : O!Promote(o)
           \/ \E r \in Repos : O!DeclareRepo(r)
           \/ \E j \in Judges : O!SetJudge(j)
           \/ UNCHANGED O!vars
  <2>1. O!TypeOK' /\ spent' = spent /\ Unpaid' \subseteq Unpaid
    BY <1>1 DEF OracleInv, O!TypeOK, Unpaid, O!Promote, O!DeclareRepo, O!SetJudge, O!vars
  <2> QED BY <2>1, BoundKept DEF OracleInv
<1> QED BY <1>1, FetchesKeep, PanelsKeep DEF O!Next

\* A nonempty set of runs has a newest one.
LEMMA NewestIsThere ==
    ASSUME O!Parameters, NEW rs \in SUBSET O!TestOracleRun, rs # {} PROVE O!Newest(rs) \in rs
<1> DEFINE ages == {MaxRuns - r.created_at : r \in rs}
<1>0. \A r \in rs : r.created_at \in 1..MaxRuns
  BY DEF O!TestOracleRun
<1>1. ages \in SUBSET Nat /\ ages # {}
  BY <1>0 DEF O!Parameters
<1>2. PICK n \in ages : \A m \in ages : n <= m
  BY <1>1, NatLeast
<1>3. PICK r \in rs : n = MaxRuns - r.created_at
  BY <1>2
<1>4. \A q \in rs : q.created_at <= r.created_at
  <2>1. TAKE q \in rs
  <2>2. MaxRuns - r.created_at <= MaxRuns - q.created_at
    BY <1>2, <1>3
  <2> QED BY <1>0, <2>2 DEF O!Parameters
<1> QED BY <1>3, <1>4 DEF O!Newest

\* What the invariant says of the gate, the verdicts and the budget.
LEMMA OraclesHold ==
    ASSUME O!Parameters, OracleInv
    PROVE  O!TypeOK /\ O!GateNamesOneCommit /\ O!VerdictIsTheDecision /\ O!OvershootBounded
<1>1. O!VerdictIsTheDecision
  <2>1. oracleRuns \subseteq O!TestOracleRun
    BY DEF OracleInv, O!TypeOK
  <2> QED BY <2>1, VerdictDecides, VerdictsNear DEF O!VerdictIsTheDecision
<1>2. O!GateNamesOneCommit
  <2> DEFINE Shown(o, c, r) ==
               /\ r.oracle = o /\ r.commit = c /\ r.repo = repo /\ r.failure = "none"
               /\ o \notin HumanReview
               /\ OracleType[o] = "judgment" => O!Disagreements(r.results.votes) = {}
               /\ 2 * O!Above(r) >= -(Fine * O!Rated(r))
  <2> SUFFICES ASSUME O!GateClear
               PROVE  \E c \in Commits : \A o \in scoped : \E r \in oracleRuns : Shown(o, c, r)
    BY DEF O!GateNamesOneCommit
  <2>1. oracleRuns \subseteq O!TestOracleRun /\ O!Bound \subseteq oracleRuns /\ O!Bound # {}
    BY DEF OracleInv, O!TypeOK, O!Bound, O!GateClear
  <2>2. PICK c : c = O!Newest(O!Bound).commit
    OBVIOUS
  <2>3. O!Newest(O!Bound) \in O!TestOracleRun
    BY <2>1, NewestIsThere
  <2>4. c \in Commits
    BY <2>2, <2>3 DEF O!TestOracleRun
  <2>5. ASSUME NEW o \in scoped PROVE \E r \in oracleRuns : Shown(o, c, r)
    <3>1. PICK r : r = O!Newest(O!RunsAtSelected(o))
      OBVIOUS
    <3>2. O!RunsAtSelected(o) # {} /\ O!Verdict(r)
      BY <3>1 DEF O!GateClear
    <3>3. r \in O!RunsAtSelected(o)
      BY <2>1, <3>1, <3>2, NewestIsThere DEF O!RunsAtSelected
    <3>4. r \in oracleRuns /\ r.oracle = o /\ r.commit = c /\ r.repo = repo
      BY <2>2, <3>3 DEF O!RunsAtSelected, O!Bound
    <3>5. r.failure = "none" /\ Reaches(r)
      BY <3>2 DEF O!Verdict, Reaches
    <3>6. OracleType[o] = "judgment" =>
            o \notin HumanReview /\ O!Disagreements(r.results.votes) = {}
      BY <3>2, <3>4 DEF O!Verdict
    <3>7. o \notin HumanReview
      BY <3>6 DEF O!Parameters
    <3>8. ~(2 * O!Above(r) < -(Fine * O!Rated(r)))
      BY <2>1, <3>4, <3>5, VerdictsNear
    <3>9. O!Above(r) \in Int /\ Fine * O!Rated(r) \in Int
      BY <2>1, <3>4, RateTyped DEF O!Above, O!Million, O!Parameters
    <3> QED BY <3>4, <3>5, <3>6, <3>7, <3>8, <3>9
  <2> QED BY <2>4, <2>5
<1>3. O!OvershootBounded
  <2> DEFINE m == O!Cardinality(Unpaid)
             all == O!Cardinality(Callers)
  <2>1. m \in Nat /\ MaxBill \in Nat /\ all \in Nat /\ OracleBudget \in Nat /\ O!PanelCost \in Nat
    BY OracleNumbers DEF Unpaid
  <2>2. spent + m * MaxBill < OracleBudget - O!PanelCost + all * MaxBill /\ spent \in Nat
    BY DEF OracleInv, O!TypeOK
  <2> HIDE DEF m, all
  <2>3. m * MaxBill \in Nat /\ all * MaxBill \in Nat
    BY <2>1
  <2>4. spent < OracleBudget - O!PanelCost + all * MaxBill
    BY <2>1, <2>2, <2>3
  <2> QED BY <2>4 DEF O!OvershootBounded, all
<1> QED BY <1>1, <1>2, <1>3 DEF OracleInv

\* A judgment run commits only while its panel is active.
LEMMA PanelsQualified == ASSUME [O!Next]_O!vars PROVE O!PanelStep
<1>1. ASSUME NEW s \in Callers, O!CommitRun(s) PROVE O!PanelStep
  BY <1>1 DEF O!CommitRun, O!LineageVerified, O!PanelStep
<1>2. CASE UNCHANGED oracleRuns
  BY <1>2 DEF O!PanelStep
<1>3. ASSUME NEW s \in Callers, O!Empanel(s) PROVE UNCHANGED oracleRuns
  <2>1. \A code : O!InsertRun(s, code, O!NoResults, 0) => UNCHANGED oracleRuns
    BY DEF O!InsertRun
  <2> QED BY <1>3, <2>1 DEF O!Empanel
<1>4. ASSUME NEW s \in Callers,
             \/ \E o \in scoped, c \in Commits : O!BeginExecution(s, o, c)
             \/ \E code \in O!FailureCode : O!FetchFails(s, code)
             \/ O!Fetch(s)
             \/ \E passing \in SUBSET Cases : O!Evaluate(s, passing)
             \/ \E cost \in Bills :
                  \/ \E votes \in [Cases -> SUBSET Judges] : O!Judge(s, votes, cost)
                  \/ O!JudgeFails(s, cost)
             \/ O!Abort(s)
      PROVE  UNCHANGED oracleRuns
  <2>1. \A failure, results, cost : O!InsertRun(s, failure, results, cost) => UNCHANGED oracleRuns
    BY DEF O!InsertRun
  <2>2. ASSUME NEW passing \in SUBSET Cases, O!Evaluate(s, passing) PROVE UNCHANGED oracleRuns
    BY <2>1, <2>2 DEF O!Evaluate
  <2>3. ASSUME NEW cost \in Bills, O!JudgeFails(s, cost) PROVE UNCHANGED oracleRuns
    BY <2>1, <2>3 DEF O!JudgeFails
  <2> QED BY <1>4, <2>1, <2>2, <2>3 DEF O!BeginExecution, O!FetchFails, O!Fetch, O!Judge, O!Abort
<1>5. ASSUME \/ \E o \in Oracles : O!Promote(o)
             \/ \E r \in Repos : O!DeclareRepo(r)
             \/ \E j \in Judges : O!SetJudge(j)
             \/ UNCHANGED O!vars
      PROVE  UNCHANGED oracleRuns
  BY <1>5 DEF O!Promote, O!DeclareRepo, O!SetJudge, O!vars
<1>6. CASE O!Next
  <2>1. CASE \E s \in Callers : O!CommitRun(s)
    BY <1>1, <2>1
  <2>2. CASE ~\E s \in Callers : O!CommitRun(s)
    <3>1. UNCHANGED oracleRuns
      BY <1>3, <1>4, <1>5, <1>6, <2>2 DEF O!Next
    <3> QED BY <1>2, <3>1
  <2> QED BY <2>1, <2>2
<1> QED BY <1>2, <1>5, <1>6

-----------------------------------------------------------------------------
(* Issues, risk acceptance, evidence and verdicts of a candidate.            *)

\* The tables of issues have their types, and so have the sessions.
RowsFit ==
    /\ status = [x \in R!Rows |-> status[x]]
    /\ \A c \in Candidates : status[c] \in R!CandidateStatus \cup {"absent"}
    /\ \A i \in Issues : status[i] \in R!IssueStatus \cup {"absent"}
    /\ \A f \in Findings : status[f] \in R!FindingStatus \cup {"absent"}
    /\ \A r \in Records : status[r] \in R!RecordStatus \cup {"absent"}
    /\ frozenAt \in [Candidates -> Nat]
    /\ bindings \subseteq R!Present(Candidates) \X R!Present(Issues)
    /\ finding = [f \in Findings |-> finding[f]]
    /\ \A f \in R!Present(Findings) : finding[f] \in FindingShapes
    /\ issue = [i \in Issues |-> issue[i]]
    /\ \A i \in R!Present(Issues) : issue[i] \in R!IssueContent
    /\ terms = [r \in Records |-> terms[r]]
    /\ \A r \in R!Present(Records) : terms[r] \in R!Terms
    /\ accepted \in [Issues \cup Findings -> Records \cup {"none"}]
    /\ today \in 0..LastDay

\* A session is idle or in one of its four calls.
JobsFit ==
    /\ settling = [s \in Clients |-> settling[s]]
    /\ \A s \in Clients : settling[s] \in R!Jobs

\* A move is never to an acceptance, which has a call of its own.
MovesFit ==
    \A s \in Clients : settling[s].op = "move" => settling[s].to \notin {"accepted", "absent"}

\* A bridge is about a finding that is there, and its issue is not inserted yet
\* and its own.
BridgesFit ==
    /\ \A s \in Clients : settling[s].op = "bridge" =>
         /\ status[settling[s].finding] # "absent" /\ status[settling[s].issue] = "absent"
    /\ \A s, o \in Clients :
         /\ settling[s].op = "bridge" /\ settling[o].op = "bridge"
         /\ settling[s].issue = settling[o].issue
         => s = o

\* A finding is the source of one issue.
SourcesFit ==
    \A i, j \in R!Present(Issues) :
        issue[i].source = issue[j].source /\ issue[i].source \in Findings => i = j

\* A binding about to commit is of rows that are there.
BindsFit ==
    \A s \in Clients : settling[s].op = "bind" =>
        status[settling[s].candidate] # "absent" /\ status[settling[s].issue] # "absent"

\* A candidate has its number exactly from its freeze on.
FreezesFit ==
    \A c \in Candidates :
        /\ frozenAt[c] <= R!Cardinality(Candidates)
        /\ status[c] \in {"absent", "draft"} => frozenAt[c] = 0
        /\ status[c] = "frozen" => frozenAt[c] > 0

\* The release of the record was frozen, and binds what the record is about.
RiskCovered(r) ==
    /\ frozenAt[terms[r].release] > 0
    /\ \E i \in Issues : /\ <<terms[r].release, i>> \in bindings
                         /\ i = terms[r].subject \/ issue[i].source = terms[r].subject

\* A row about to be accepted is open and stays so: the update holds its lock.
AcceptsFit ==
    /\ \A s \in Clients : settling[s].op = "accept" =>
         LET x == settling[s].row  r == settling[s].record
         IN  status[x] = "open" /\ R!Acceptable(x) /\ status[r] # "absent" /\ terms[r].subject = x
    /\ \A s, o \in Clients :
         settling[s].op = "accept" /\ settling[o].op = "accept" /\ settling[s].row = settling[o].row
         => s = o

\* Every record is covered, and what was accepted rests on one about it.
RiskRecordsFit ==
    /\ \A r \in R!Present(Records) : RiskCovered(r)
    /\ \A x \in Issues \cup Findings : status[x] = "accepted" =>
         /\ R!Acceptable(x) /\ accepted[x] \in Records
         /\ status[accepted[x]] # "absent" /\ terms[accepted[x]].subject = x

\* Every call under way fits.
CallsFit == JobsFit /\ MovesFit /\ BridgesFit /\ BindsFit /\ AcceptsFit

\* What findings, issues, records and candidates keep.
IssuesInv == RowsFit /\ CallsFit /\ SourcesFit /\ FreezesFit /\ RiskRecordsFit

\* What the fields of a job range over.
LEMMA JobFields ==
    ASSUME NEW j \in R!Jobs
    PROVE  /\ j.op \in {"idle", "move", "bind", "bridge", "accept"}
           /\ j.op = "idle" => j = R!Idle
           /\ j.op = "move" => j.row \in R!Rows /\
                               j.to \in R!FindingStatus \cup R!RecordStatus \cup R!CandidateStatus
           /\ j.op = "bind" => j.candidate \in Candidates /\ j.issue \in Issues
           /\ j.op = "bridge" => j.finding \in Findings /\ j.issue \in Issues
           /\ j.op = "accept" => j.row \in Issues \cup Findings /\ j.record \in Records
BY DEF R!Jobs, R!Idle

\* Rows stay, with the content and the number they got.
Grown ==
    /\ \A x \in R!Rows : status[x] # "absent" => status'[x] # "absent"
    /\ \A f \in R!Present(Findings) : finding'[f] = finding[f]
    /\ \A i \in R!Present(Issues) : issue'[i] = issue[i]
    /\ \A r \in R!Present(Records) : terms'[r] = terms[r]
    /\ bindings \subseteq bindings'
    /\ \A c \in Candidates : frozenAt[c] > 0 => frozenAt'[c] = frozenAt[c]

\* What can be accepted, and what a record covers, stays so.
LEMMA GrownKeeps ==
    ASSUME R!IssueParameters, RowsFit, Grown
    PROVE  /\ \A x \in Issues \cup Findings : status[x] # "absent"
                => (R!Acceptable(x) <=> R!Acceptable(x)')
           /\ \A r \in R!Present(Records) : RiskCovered(r) => RiskCovered(r)'
<1>1. ASSUME NEW x \in Issues \cup Findings, status[x] # "absent"
      PROVE  R!Acceptable(x) <=> R!Acceptable(x)'
  <2>1. CASE x \in Issues
    <3>1. issue'[x] = issue[x]
      BY <1>1, <2>1 DEF Grown, R!Present
    <3> QED BY <2>1, <3>1 DEF R!Acceptable, R!is_hard_blocker
  <2>2. CASE x \notin Issues
    <3>1. finding'[x] = finding[x]
      BY <1>1, <2>2 DEF Grown, R!Present
    <3> QED BY <2>2, <3>1 DEF R!Acceptable
  <2> QED BY <2>1, <2>2
<1>2. ASSUME NEW r \in R!Present(Records), RiskCovered(r) PROVE RiskCovered(r)'
  <2>1. terms'[r] = terms[r] /\ terms[r].release \in Candidates
    BY <1>2 DEF Grown, RowsFit, R!Terms
  <2>2. frozenAt'[terms[r].release] > 0
    BY <1>2, <2>1 DEF Grown, RiskCovered
  <2>3. PICK i \in Issues : /\ <<terms[r].release, i>> \in bindings
                            /\ i = terms[r].subject \/ issue[i].source = terms[r].subject
    BY <1>2 DEF RiskCovered
  <2>4. issue'[i] = issue[i] /\ <<terms[r].release, i>> \in bindings'
    BY <2>3 DEF RowsFit, Grown
  <2> QED BY <2>1, <2>2, <2>3, <2>4 DEF RiskCovered
<1> QED BY <1>1, <1>2

\* A session turns to j while the rows stay.
LEMMA TurnKeeps ==
    ASSUME R!IssueParameters, IssuesInv, NEW s \in Clients, NEW j \in R!Jobs,
           settling' = [settling EXCEPT ![s] = j],
           UNCHANGED <<status, frozenAt, bindings, finding, issue, terms, accepted, today>>,
           j.op = "move" => j.to \notin {"accepted", "absent"},
           j.op = "bridge" => status[j.finding] # "absent" /\ R!IdFree(j.issue),
           j.op = "bind" => status[j.candidate] # "absent" /\ status[j.issue] # "absent",
           j.op = "accept" => /\ status[j.row] = "open" /\ R!Unlocked(j.row) /\ R!Acceptable(j.row)
                              /\ status[j.record] # "absent" /\ terms[j.record].subject = j.row
    PROVE  IssuesInv'
<1>0. /\ RowsFit /\ JobsFit /\ MovesFit /\ BridgesFit /\ BindsFit /\ AcceptsFit
      /\ SourcesFit /\ FreezesFit /\ RiskRecordsFit
  BY DEF IssuesInv, CallsFit
<1>1. /\ settling' = [o \in Clients |-> settling'[o]]
      /\ \A o \in Clients : settling'[o] = IF o = s THEN j ELSE settling[o]
  BY <1>0 DEF JobsFit
<1>2. RowsFit' /\ FreezesFit'
  BY <1>0 DEF RowsFit, FreezesFit, R!Present
<1>3. JobsFit'
  BY <1>0, <1>1 DEF JobsFit
<1>4. MovesFit' /\ BindsFit'
  BY <1>0, <1>1 DEF MovesFit, BindsFit
<1>5. BridgesFit' /\ SourcesFit'
  BY <1>0, <1>1 DEF BridgesFit, SourcesFit, R!IdFree, R!Present
<1>6. AcceptsFit' /\ RiskRecordsFit'
  <2>1. \A x : R!Acceptable(x) <=> R!Acceptable(x)'
    BY DEF R!Acceptable, R!is_hard_blocker
  <2>2. \A r : RiskCovered(r) <=> RiskCovered(r)'
    BY DEF RiskCovered
  <2> QED BY <1>0, <1>1, <2>1, <2>2 DEF AcceptsFit, RiskRecordsFit, R!Unlocked, R!Present
<1> QED BY <1>2, <1>3, <1>4, <1>5, <1>6 DEF IssuesInv, CallsFit

\* Rows change under the calls of the other sessions.
LEMMA OthersKeep ==
    ASSUME R!IssueParameters, IssuesInv, Grown,
           settling' = [o \in Clients |-> settling'[o]],
           \A o \in Clients : \/ settling'[o] = R!Idle
                              \/ /\ settling'[o] = settling[o]
                                 /\ settling[o].op = "bridge"
                                      => status'[settling[o].issue] = "absent"
                                 /\ settling[o].op = "accept" =>
                                       status'[settling[o].row] = status[settling[o].row]
    PROVE  CallsFit'
<1>0. RowsFit /\ JobsFit /\ MovesFit /\ BridgesFit /\ BindsFit /\ AcceptsFit
  BY DEF IssuesInv, CallsFit
<1>1. R!Idle \in R!Jobs /\ R!Idle.op = "idle"
  BY DEF R!Jobs, R!Idle
<1>2. ASSUME NEW o \in Clients, settling'[o].op # "idle"
      PROVE  /\ settling'[o] = settling[o] /\ settling[o] \in R!Jobs
             /\ settling[o].op = "bridge" => status'[settling[o].issue] = "absent"
             /\ settling[o].op = "accept" => status'[settling[o].row] = status[settling[o].row]
  BY <1>0, <1>1, <1>2 DEF JobsFit
<1>3. JobsFit'
  BY <1>0, <1>1 DEF JobsFit
<1>4. MovesFit'
  BY <1>0, <1>2 DEF MovesFit
<1>5. BindsFit'
  <2>1. ASSUME NEW o \in Clients, settling'[o].op = "bind"
        PROVE  status'[settling'[o].candidate] # "absent" /\ status'[settling'[o].issue] # "absent"
    <3>1. settling'[o] = settling[o] /\ settling[o].candidate \in R!Rows
            /\ settling[o].issue \in R!Rows
      BY <1>2, <2>1, JobFields DEF R!Rows
    <3> QED BY <1>0, <2>1, <3>1 DEF BindsFit, Grown
  <2> QED BY <2>1 DEF BindsFit
<1>6. ASSUME NEW o \in Clients, settling'[o].op = "bridge"
      PROVE  status'[settling'[o].finding] # "absent" /\ status'[settling'[o].issue] = "absent"
  <2>1. settling'[o] = settling[o] /\ settling[o].finding \in R!Rows
    BY <1>2, <1>6, JobFields DEF R!Rows
  <2> QED BY <1>0, <1>2, <1>6, <2>1 DEF BridgesFit, Grown
<1>7. ASSUME NEW o \in Clients, NEW q \in Clients, settling'[o].op = "bridge",
             settling'[q].op = "bridge", settling'[o].issue = settling'[q].issue
      PROVE  o = q
  BY <1>0, <1>2, <1>7 DEF BridgesFit
<1>8. ASSUME NEW o \in Clients, NEW x, settling'[o].op = "accept", settling'[o].row = x
      PROVE  /\ status'[x] = "open" /\ R!Acceptable(x)'
             /\ status'[settling'[o].record] # "absent"
             /\ terms'[settling'[o].record].subject = x
  <2> DEFINE r == settling[o].record
  <2>1. /\ settling'[o] = settling[o] /\ x = settling[o].row
        /\ x \in Issues \cup Findings /\ r \in Records /\ status'[x] = status[x]
    BY <1>2, <1>8, JobFields
  <2>2. status[x] = "open" /\ R!Acceptable(x) /\ status[r] # "absent" /\ terms[r].subject = x
    BY <1>0, <1>8, <2>1 DEF AcceptsFit
  <2>3. terms'[r] = terms[r] /\ status'[r] # "absent"
    BY <2>1, <2>2 DEF Grown, R!Present, R!Rows
  <2>4. R!Acceptable(x)'
    BY <1>0, <2>1, <2>2, GrownKeeps
  <2> QED BY <2>1, <2>2, <2>3, <2>4
<1>9. ASSUME NEW o \in Clients, NEW q \in Clients, settling'[o].op = "accept",
             settling'[q].op = "accept", settling'[o].row = settling'[q].row
      PROVE  o = q
  BY <1>0, <1>2, <1>9 DEF AcceptsFit
<1>10. BridgesFit'
  BY <1>6, <1>7 DEF BridgesFit
<1>11. AcceptsFit'
  BY <1>8, <1>9 DEF AcceptsFit
<1> QED BY <1>3, <1>4, <1>5, <1>10, <1>11 DEF CallsFit

\* A move starts from a row that is there and ends in a status of its table.
LEMMA MoveLegal ==
    ASSUME R!IssueParameters, NEW x \in R!Rows, NEW from, NEW to, <<from, to>> \in R!Transitions(x)
    PROVE  /\ from \in {"draft", "frozen", "open", "active"}
           /\ x \in Candidates =>
                \/ from = "draft" /\ to \in {"frozen", "canceled"}
                \/ from = "frozen" /\ to \in {"superseded", "canceled"}
           /\ x \in Issues => to \in R!IssueStatus \ {"open"}
           /\ x \in Findings => to \in R!FindingStatus \ {"open"}
           /\ x \in Records => to \in R!RecordStatus \ {"active"}
           /\ to = "frozen" => x \in Candidates
<1>1. CASE x \in Candidates
  BY <1>1 DEF R!Transitions, R!CandidateTransitions, R!IssueParameters
<1>2. CASE x \in Issues
  <2>1. R!Transitions(x) = R!IssueTransitions
    BY <1>2 DEF R!Transitions, R!IssueParameters
  <2>2. from = "open" /\ to \in R!IssueStatus \ {"open"}
    BY <2>1 DEF R!IssueTransitions
  <2> QED BY <1>2, <2>2 DEF R!IssueParameters, R!IssueStatus
<1>3. CASE x \in Findings
  <2>1. R!Transitions(x) = R!FindingTransitions
    BY <1>3 DEF R!Transitions, R!IssueParameters
  <2>2. from = "open" /\ to \in R!FindingStatus \ {"open"}
    BY <2>1 DEF R!FindingTransitions
  <2> QED BY <1>3, <2>2 DEF R!IssueParameters, R!IssueStatus, R!FindingStatus
<1>4. CASE x \in Records
  <2>1. R!Transitions(x) = R!RecordTransitions
    BY <1>4 DEF R!Transitions, R!IssueParameters
  <2>2. from = "active" /\ to \in R!RecordStatus \ {"active"}
    BY <2>1 DEF R!RecordTransitions
  <2> QED BY <1>4, <2>2 DEF R!IssueParameters, R!RecordStatus
<1> QED BY <1>1, <1>2, <1>3, <1>4 DEF R!Rows

\* A freeze draws a number no greater than that of the candidates.
LEMMA FreezeCounts ==
    ASSUME R!IssueParameters, FreezesFit, NEW x \in Candidates, status[x] = "draft"
    PROVE  1 + R!Cardinality({c \in Candidates : frozenAt[c] > 0}) \in 1..R!Cardinality(Candidates)
<1> DEFINE F == {c \in Candidates : frozenAt[c] > 0}
<1>1. IsFiniteSet(F) /\ IsFiniteSet(Candidates)
  BY FS_Subset, SameCards DEF R!IssueParameters
<1>2. x \notin F
  BY DEF FreezesFit
<1>3. R!Cardinality(F \cup {x}) = R!Cardinality(F) + 1 /\ IsFiniteSet(F \cup {x})
  BY <1>1, <1>2, FS_AddElement, SameCards
<1>4. R!Cardinality(F \cup {x}) <= R!Cardinality(Candidates)
  BY <1>1, FS_Subset, SameCards
<1>5. R!Cardinality(F) \in Nat /\ R!Cardinality(Candidates) \in Nat
  BY <1>1, FS_CardinalityType, SameCards
<1> HIDE DEF F
<1> QED BY <1>3, <1>4, <1>5 DEF F

\* A move commits.
LEMMA CommitMoveKeeps ==
    ASSUME R!IssueParameters, IssuesInv, NEW s \in Clients, R!CommitMove(s)
    PROVE  IssuesInv' /\ Grown
<1> DEFINE x == settling[s].row
           to == settling[s].to
           n == 1 + R!Cardinality({c \in Candidates : frozenAt[c] > 0})
<1>0. /\ RowsFit /\ JobsFit /\ MovesFit /\ BridgesFit /\ BindsFit /\ AcceptsFit
      /\ SourcesFit /\ FreezesFit /\ RiskRecordsFit
  BY DEF IssuesInv, CallsFit
<1>1. /\ settling[s].op = "move" /\ R!Unlocked(x) /\ <<status[x], to>> \in R!Transitions(x)
      /\ status' = [status EXCEPT ![x] = to] /\ settling' = [settling EXCEPT ![s] = R!Idle]
      /\ frozenAt' = IF to = "frozen" THEN [frozenAt EXCEPT ![x] = n] ELSE frozenAt
      /\ UNCHANGED <<bindings, finding, issue, terms, accepted, today>>
  BY DEF R!CommitMove, R!RowGuard
<1>2. x \in R!Rows /\ to \notin {"accepted", "absent"}
  BY <1>0, <1>1, JobFields DEF JobsFit, MovesFit
<1>3. /\ status[x] \in {"draft", "frozen", "open", "active"}
      /\ x \in Candidates =>
           \/ status[x] = "draft" /\ to \in {"frozen", "canceled"}
           \/ status[x] = "frozen" /\ to \in {"superseded", "canceled"}
      /\ x \in Issues => to \in R!IssueStatus \ {"open"}
      /\ x \in Findings => to \in R!FindingStatus \ {"open"}
      /\ x \in Records => to \in R!RecordStatus \ {"active"}
      /\ to = "frozen" => x \in Candidates
  BY <1>1, <1>2, MoveLegal
<1>4. to = "frozen" => n \in 1..R!Cardinality(Candidates) /\ frozenAt[x] = 0
  BY <1>0, <1>3, FreezeCounts DEF FreezesFit
<1> HIDE DEF x, to, n
<1>5. /\ status' = [y \in R!Rows |-> status'[y]]
      /\ \A y \in R!Rows : status'[y] = IF y = x THEN to ELSE status[y]
  BY <1>0, <1>1 DEF RowsFit
<1>6. /\ frozenAt' \in [Candidates -> Nat]
      /\ \A c \in Candidates : frozenAt'[c] = IF c = x /\ to = "frozen" THEN n ELSE frozenAt[c]
  <2>1. CASE to = "frozen"
    <3>1. n \in Nat /\ frozenAt' = [frozenAt EXCEPT ![x] = n]
      BY <1>1, <1>4, <2>1, FS_CardinalityType, SameCards DEF R!IssueParameters
    <3> QED BY <1>0, <2>1, <3>1 DEF RowsFit
  <2>2. CASE to # "frozen"
    BY <1>0, <1>1, <2>2 DEF RowsFit
  <2> QED BY <2>1, <2>2
<1>7. Grown
  BY <1>0, <1>1, <1>2, <1>4, <1>5, <1>6 DEF Grown
<1>8. RowsFit'
  <2>1. \A y \in R!Rows : status'[y] # "absent" <=> status[y] # "absent"
    BY <1>2, <1>3, <1>5
  <2>2. /\ R!Present(Candidates)' = R!Present(Candidates) /\ R!Present(Issues)' = R!Present(Issues)
        /\ R!Present(Findings)' = R!Present(Findings) /\ R!Present(Records)' = R!Present(Records)
    BY <2>1 DEF R!Present, R!Rows
  <2>3. /\ \A c \in Candidates : status'[c] \in R!CandidateStatus \cup {"absent"}
        /\ \A i \in Issues : status'[i] \in R!IssueStatus \cup {"absent"}
        /\ \A f \in Findings : status'[f] \in R!FindingStatus \cup {"absent"}
        /\ \A r \in Records : status'[r] \in R!RecordStatus \cup {"absent"}
    BY <1>0, <1>3, <1>5 DEF RowsFit, R!Rows, R!CandidateStatus
  <2> QED BY <1>0, <1>1, <1>5, <1>6, <2>2, <2>3 DEF RowsFit
<1>9. /\ settling' = [o \in Clients |-> settling'[o]]
      /\ \A o \in Clients : settling'[o] = IF o = s THEN R!Idle ELSE settling[o]
  BY <1>0, <1>1 DEF JobsFit
<1>10. \A o \in Clients : /\ settling[o].op = "bridge" => status'[settling[o].issue] = "absent"
                          /\ settling[o].op = "accept" =>
                               status'[settling[o].row] = status[settling[o].row]
  <2>1. ASSUME NEW o \in Clients, settling[o].op = "bridge"
        PROVE  status'[settling[o].issue] = "absent"
    <3>1. settling[o].issue \in R!Rows /\ status[settling[o].issue] = "absent"
      BY <1>0, <2>1, JobFields DEF JobsFit, BridgesFit, R!Rows
    <3> QED BY <1>3, <1>5, <3>1
  <2>2. ASSUME NEW o \in Clients, settling[o].op = "accept"
        PROVE  status'[settling[o].row] = status[settling[o].row]
    <3>1. settling[o].row \in R!Rows /\ settling[o].row # x
      BY <1>0, <1>1, <2>2, JobFields DEF JobsFit, R!Unlocked, R!Rows
    <3> QED BY <1>5, <3>1
  <2> QED BY <2>1, <2>2
<1>11. CallsFit'
  BY <1>7, <1>9, <1>10, OthersKeep
<1>12. SourcesFit'
  BY <1>0, <1>1, <1>3, <1>5 DEF SourcesFit, R!Present, R!Rows
<1>13. FreezesFit'
  BY <1>0, <1>3, <1>4, <1>5, <1>6 DEF FreezesFit, R!Rows
<1>14. RiskRecordsFit'
  <2>1. \A r \in R!Present(Records)' : RiskCovered(r)'
    BY <1>0, <1>3, <1>5, <1>7, GrownKeeps DEF RiskRecordsFit, R!Present, R!Rows
  <2>2. \A y \in Issues \cup Findings : status'[y] = "accepted" =>
          /\ R!Acceptable(y)' /\ accepted'[y] \in Records
          /\ status'[accepted'[y]] # "absent" /\ terms'[accepted'[y]].subject = y
    <3>1. ASSUME NEW y \in Issues \cup Findings, status'[y] = "accepted"
          PROVE  /\ R!Acceptable(y)' /\ accepted'[y] \in Records
                 /\ status'[accepted'[y]] # "absent" /\ terms'[accepted'[y]].subject = y
      <4>1. status[y] = "accepted"
        BY <1>2, <1>5, <3>1 DEF R!Rows
      <4>2. /\ R!Acceptable(y) /\ accepted[y] \in Records
            /\ status[accepted[y]] # "absent" /\ terms[accepted[y]].subject = y
        BY <1>0, <3>1, <4>1 DEF RiskRecordsFit
      <4> QED BY <1>0, <1>1, <1>7, <3>1, <4>1, <4>2, GrownKeeps DEF Grown, R!Rows
    <3> QED BY <3>1
  <2> QED BY <2>1, <2>2 DEF RiskRecordsFit
<1> QED BY <1>7, <1>8, <1>11, <1>12, <1>13, <1>14 DEF IssuesInv

\* Records and acceptances outlast the growth of the tables.
LEMMA RecordsStay ==
    ASSUME R!IssueParameters, IssuesInv, Grown,
           \A r \in Records : status'[r] # "absent" => status[r] # "absent" \/ RiskCovered(r)',
           \A x \in Issues \cup Findings : status'[x] = "accepted" =>
               \/ status[x] = "accepted" /\ accepted'[x] = accepted[x]
               \/ /\ R!Acceptable(x)' /\ accepted'[x] \in Records
                  /\ status'[accepted'[x]] # "absent" /\ terms'[accepted'[x]].subject = x
    PROVE  RiskRecordsFit'
<1>0. RowsFit /\ RiskRecordsFit
  BY DEF IssuesInv
<1>1. \A r \in R!Present(Records)' : RiskCovered(r)'
  BY <1>0, GrownKeeps DEF RiskRecordsFit, R!Present
<1>2. ASSUME NEW x \in Issues \cup Findings, status'[x] = "accepted"
      PROVE  /\ R!Acceptable(x)' /\ accepted'[x] \in Records
             /\ status'[accepted'[x]] # "absent" /\ terms'[accepted'[x]].subject = x
  <2>1. CASE status[x] = "accepted" /\ accepted'[x] = accepted[x]
    <3>1. /\ R!Acceptable(x) /\ accepted[x] \in Records
          /\ status[accepted[x]] # "absent" /\ terms[accepted[x]].subject = x
      BY <1>0, <2>1 DEF RiskRecordsFit
    <3>2. R!Acceptable(x)'
      BY <1>0, <2>1, <3>1, GrownKeeps
    <3>3. terms'[accepted[x]] = terms[accepted[x]] /\ status'[accepted[x]] # "absent"
      BY <3>1 DEF Grown, R!Present, R!Rows
    <3> QED BY <2>1, <3>1, <3>2, <3>3
  <2> QED BY <1>2, <2>1
<1> QED BY <1>1, <1>2 DEF RiskRecordsFit

\* A binding commits.
LEMMA CommitBindKeeps ==
    ASSUME R!IssueParameters, IssuesInv, NEW s \in Clients, R!CommitBind(s)
    PROVE  IssuesInv' /\ Grown
<1> DEFINE c == settling[s].candidate
           i == settling[s].issue
<1>0. RowsFit /\ JobsFit /\ MovesFit /\ BridgesFit /\ BindsFit /\ AcceptsFit
  BY DEF IssuesInv, CallsFit
<1>1. /\ settling[s].op = "bind" /\ bindings' = bindings \cup {<<c, i>>}
      /\ settling' = [settling EXCEPT ![s] = R!Idle]
      /\ UNCHANGED <<status, frozenAt, finding, issue, terms, accepted, today>>
  BY DEF R!CommitBind
<1>2. c \in Candidates /\ i \in Issues /\ status[c] # "absent" /\ status[i] # "absent"
  BY <1>0, <1>1, JobFields DEF JobsFit, BindsFit
<1> HIDE DEF c, i
<1>3. Grown
  BY <1>1 DEF Grown
<1>4. RowsFit'
  BY <1>0, <1>1, <1>2 DEF RowsFit, R!Present
<1>5. /\ settling' = [o \in Clients |-> settling'[o]]
      /\ \A o \in Clients : settling'[o] = IF o = s THEN R!Idle ELSE settling[o]
  BY <1>0, <1>1 DEF JobsFit
<1>6. CallsFit'
  BY <1>0, <1>1, <1>3, <1>5, OthersKeep DEF BridgesFit
<1>7. SourcesFit' /\ FreezesFit'
  BY <1>1 DEF IssuesInv, SourcesFit, FreezesFit, R!Present
<1>8. RiskRecordsFit'
  BY <1>1, <1>3, RecordsStay
<1> QED BY <1>3, <1>4, <1>6, <1>7, <1>8 DEF IssuesInv

\* An acceptance commits.
LEMMA CommitAcceptKeeps ==
    ASSUME R!IssueParameters, IssuesInv, NEW s \in Clients, R!CommitAccept(s)
    PROVE  IssuesInv' /\ Grown
<1>0. RowsFit /\ JobsFit /\ MovesFit /\ BridgesFit /\ BindsFit /\ AcceptsFit
  BY DEF IssuesInv, CallsFit
<1>1. PICK x, r :
        /\ x = settling[s].row /\ r = settling[s].record
        /\ settling[s].op = "accept" /\ status' = [status EXCEPT ![x] = "accepted"]
        /\ accepted' = [accepted EXCEPT ![x] = r] /\ settling' = [settling EXCEPT ![s] = R!Idle]
        /\ UNCHANGED <<frozenAt, bindings, finding, issue, terms, today>>
  BY DEF R!CommitAccept
<1>2. x \in Issues \cup Findings /\ r \in Records
  BY <1>0, <1>1, JobFields DEF JobsFit
<1>3. status[x] = "open" /\ R!Acceptable(x) /\ status[r] # "absent" /\ terms[r].subject = x
  BY <1>0, <1>1 DEF AcceptsFit
<1>b. \A o \in Clients : settling[o].op = "accept" /\ settling[o].row = x => o = s
  BY <1>0, <1>1 DEF AcceptsFit
<1>4. /\ status' = [y \in R!Rows |-> status'[y]]
      /\ \A y \in R!Rows : status'[y] = IF y = x THEN "accepted" ELSE status[y]
      /\ \A y \in Issues \cup Findings : accepted'[y] = IF y = x THEN r ELSE accepted[y]
      /\ accepted' \in [Issues \cup Findings -> Records \cup {"none"}]
  BY <1>0, <1>1, <1>2 DEF RowsFit
<1>5. Grown
  BY <1>1, <1>4 DEF Grown
<1>6. RowsFit'
  <2>1. \A y \in R!Rows : status'[y] # "absent" <=> status[y] # "absent"
    BY <1>3, <1>4
  <2>2. /\ R!Present(Candidates)' = R!Present(Candidates) /\ R!Present(Issues)' = R!Present(Issues)
        /\ R!Present(Findings)' = R!Present(Findings) /\ R!Present(Records)' = R!Present(Records)
    BY <2>1 DEF R!Present, R!Rows
  <2>3. /\ \A c \in Candidates : status'[c] \in R!CandidateStatus \cup {"absent"}
        /\ \A i \in Issues : status'[i] \in R!IssueStatus \cup {"absent"}
        /\ \A f \in Findings : status'[f] \in R!FindingStatus \cup {"absent"}
        /\ \A q \in Records : status'[q] \in R!RecordStatus \cup {"absent"}
    <3>1. x \in R!Rows /\ x \notin Candidates /\ x \notin Records
      BY <1>2 DEF R!Rows, R!IssueParameters
    <3>2. "accepted" \in R!IssueStatus /\ "accepted" \in R!FindingStatus
      BY DEF R!IssueStatus, R!FindingStatus
    <3> QED BY <1>0, <1>4, <3>1, <3>2 DEF RowsFit, R!Rows
  <2> QED BY <1>0, <1>1, <1>4, <2>2, <2>3 DEF RowsFit
<1>7. /\ settling' = [o \in Clients |-> settling'[o]]
      /\ \A o \in Clients : settling'[o] = IF o = s THEN R!Idle ELSE settling[o]
  BY <1>0, <1>1 DEF JobsFit
<1>8. ASSUME NEW o \in Clients, o # s
      PROVE  /\ settling[o].op = "bridge" => status'[settling[o].issue] = "absent"
             /\ settling[o].op = "accept" => status'[settling[o].row] = status[settling[o].row]
  <2>1. ASSUME settling[o].op = "bridge" PROVE status'[settling[o].issue] = "absent"
    <3>1. settling[o].issue \in R!Rows /\ status[settling[o].issue] = "absent"
      BY <1>0, <2>1, JobFields DEF JobsFit, BridgesFit, R!Rows
    <3> QED BY <1>3, <1>4, <3>1
  <2>2. ASSUME settling[o].op = "accept" PROVE status'[settling[o].row] = status[settling[o].row]
    <3>1. settling[o].row \in R!Rows /\ settling[o].row # x
      BY <1>0, <1>8, <1>b, <2>2, JobFields DEF JobsFit, R!Rows
    <3> QED BY <1>4, <3>1
  <2> QED BY <2>1, <2>2
<1>9. CallsFit'
  BY <1>5, <1>7, <1>8, OthersKeep
<1>10. SourcesFit' /\ FreezesFit'
  BY <1>1, <1>2, <1>3, <1>4 DEF IssuesInv, SourcesFit, FreezesFit, R!Present, R!Rows,
                                R!IssueParameters
<1>11. RiskRecordsFit'
  <2>1. \A q \in Records : status'[q] # "absent" => status[q] # "absent"
    BY <1>3, <1>4 DEF R!Rows
  <2>2. R!Acceptable(x)' /\ status'[r] # "absent" /\ terms'[r].subject = x
    <3>1. R!Acceptable(x)'
      BY <1>0, <1>2, <1>3, <1>5, GrownKeeps
    <3>2. status'[r] # "absent"
      BY <1>2, <1>3, <1>5 DEF Grown, R!Rows
    <3> QED BY <1>1, <1>3, <3>1, <3>2
  <2>3. \A y \in Issues \cup Findings : status'[y] = "accepted" =>
            \/ status[y] = "accepted" /\ accepted'[y] = accepted[y]
            \/ /\ R!Acceptable(y)' /\ accepted'[y] \in Records
               /\ status'[accepted'[y]] # "absent" /\ terms'[accepted'[y]].subject = y
    BY <1>2, <1>4, <2>2 DEF R!Rows
  <2> QED BY <1>5, <2>1, <2>3, RecordsStay
<1> QED BY <1>5, <1>6, <1>9, <1>10, <1>11 DEF IssuesInv

\* A row is inserted with its content.
LEMMA InsertKeeps ==
    ASSUME R!IssueParameters, IssuesInv, NEW x \in R!Rows, status[x] = "absent", NEW st,
           status' = [status EXCEPT ![x] = st],
           \/ x \in Candidates /\ st = "draft"
           \/ x \in Issues \cup Findings /\ st = "open"
           \/ x \in Records /\ st = "active",
           IF x \in Findings THEN \E c \in FindingShapes : finding' = [finding EXCEPT ![x] = c]
                             ELSE finding' = finding,
           IF x \in Issues THEN \E c \in R!IssueContent : issue' = [issue EXCEPT ![x] = c]
                           ELSE issue' = issue,
           IF x \in Records THEN \E t \in R!Terms : terms' = [terms EXCEPT ![x] = t]
                            ELSE terms' = terms,
           UNCHANGED <<frozenAt, bindings, accepted, today>>,
           settling' = [o \in Clients |-> settling'[o]],
           \A o \in Clients : \/ settling'[o] = R!Idle
                              \/ /\ settling'[o] = settling[o]
                                 /\ settling[o].op = "bridge" => settling[o].issue # x,
           x \in Records => RiskCovered(x)', SourcesFit'
    PROVE  IssuesInv' /\ Grown
<1>0. RowsFit /\ JobsFit /\ MovesFit /\ BridgesFit /\ BindsFit /\ AcceptsFit
  BY DEF IssuesInv, CallsFit
<1>1. /\ status' = [y \in R!Rows |-> status'[y]]
      /\ \A y \in R!Rows : status'[y] = IF y = x THEN st ELSE status[y]
  BY <1>0 DEF RowsFit
<1>2. /\ finding' = [f \in Findings |-> finding'[f]]
      /\ \A f \in Findings : IF f = x THEN finding'[f] \in FindingShapes
                                      ELSE finding'[f] = finding[f]
  BY <1>0 DEF RowsFit
<1>3. /\ issue' = [i \in Issues |-> issue'[i]]
      /\ \A i \in Issues : IF i = x THEN issue'[i] \in R!IssueContent ELSE issue'[i] = issue[i]
  BY <1>0 DEF RowsFit
<1>4. /\ terms' = [r \in Records |-> terms'[r]]
      /\ \A r \in Records : IF r = x THEN terms'[r] \in R!Terms ELSE terms'[r] = terms[r]
  BY <1>0 DEF RowsFit
<1>5. Grown
  BY <1>1, <1>2, <1>3, <1>4 DEF Grown, R!Present
<1>6. RowsFit'
  <2>1. /\ \A c \in Candidates : status'[c] \in R!CandidateStatus \cup {"absent"}
        /\ \A i \in Issues : status'[i] \in R!IssueStatus \cup {"absent"}
        /\ \A f \in Findings : status'[f] \in R!FindingStatus \cup {"absent"}
        /\ \A r \in Records : status'[r] \in R!RecordStatus \cup {"absent"}
    <3>1. /\ "draft" \in R!CandidateStatus /\ "open" \in R!IssueStatus /\ "open" \in R!FindingStatus
          /\ "active" \in R!RecordStatus
      BY DEF R!CandidateStatus, R!IssueStatus, R!FindingStatus, R!RecordStatus
    <3> QED BY <1>0, <1>1, <3>1 DEF RowsFit, R!Rows, R!IssueParameters
  <2>2. bindings' \subseteq R!Present(Candidates)' \X R!Present(Issues)'
    <3>1. R!Present(Candidates) \subseteq R!Present(Candidates)'
            /\ R!Present(Issues) \subseteq R!Present(Issues)'
      BY <1>5 DEF Grown, R!Present, R!Rows
    <3> QED BY <1>0, <3>1 DEF RowsFit
  <2>3. /\ \A f \in R!Present(Findings)' : finding'[f] \in FindingShapes
        /\ \A i \in R!Present(Issues)' : issue'[i] \in R!IssueContent
        /\ \A r \in R!Present(Records)' : terms'[r] \in R!Terms
    BY <1>0, <1>1, <1>2, <1>3, <1>4 DEF RowsFit, R!Present, R!Rows
  <2> QED BY <1>0, <1>1, <1>2, <1>3, <1>4, <2>1, <2>2, <2>3 DEF RowsFit
<1>7. CallsFit'
  <2>1. ASSUME NEW o \in Clients
        PROVE  \/ settling'[o] = R!Idle
               \/ /\ settling'[o] = settling[o]
                  /\ settling[o].op = "bridge" => status'[settling[o].issue] = "absent"
                  /\ settling[o].op = "accept" =>
                        status'[settling[o].row] = status[settling[o].row]
    <3>1. settling[o].op = "bridge" =>
              settling[o].issue \in R!Rows /\ status[settling[o].issue] = "absent"
      BY <1>0, JobFields DEF JobsFit, BridgesFit, R!Rows
    <3>2. settling[o].op = "accept" =>
              settling[o].row \in R!Rows /\ status[settling[o].row] = "open"
      BY <1>0, JobFields DEF JobsFit, AcceptsFit, R!Rows
    <3> QED BY <1>1, <3>1, <3>2
  <2> QED BY <1>5, <2>1, OthersKeep
<1>8. FreezesFit'
  BY <1>1 DEF IssuesInv, FreezesFit, R!Rows
<1>9. RiskRecordsFit'
  <2>1. \A r \in Records : status'[r] # "absent" => status[r] # "absent" \/ RiskCovered(r)'
    BY <1>1 DEF R!Rows
  <2>2. \A y \in Issues \cup Findings : status'[y] = "accepted" =>
            status[y] = "accepted" /\ accepted'[y] = accepted[y]
    BY <1>1 DEF R!Rows
  <2> QED BY <1>5, <2>1, <2>2, RecordsStay
<1> QED BY <1>5, <1>6, <1>7, <1>8, <1>9 DEF IssuesInv

\* Rows are created.
LEMMA CreatesKeep ==
    ASSUME R!IssueParameters, IssuesInv,
           \/ \E f \in Findings, shape \in FindingShapes : R!CreateFinding(f, shape)
           \/ \E i \in Issues, shape \in IssueShapes : R!CreateIssue(i, shape)
           \/ \E c \in Candidates : R!CreateCandidate(c)
           \/ \E r \in Records, t \in R!Terms : R!CreateRecord(r, t)
    PROVE  IssuesInv' /\ Grown
<1>0. RowsFit /\ JobsFit /\ BridgesFit /\ SourcesFit
  BY DEF IssuesInv, CallsFit
<1>1. settling = [o \in Clients |-> settling[o]]
  BY <1>0 DEF JobsFit
<1>2. ASSUME NEW x \in R!Rows, status[x] = "absent", x \notin Issues
      PROVE  \A o \in Clients : settling[o].op = "bridge" => settling[o].issue # x
  BY <1>0, <1>2, JobFields DEF JobsFit
<1>3. ASSUME UNCHANGED issue, NEW x \in R!Rows, x \notin Issues, NEW st,
             status' = [status EXCEPT ![x] = st]
      PROVE  SourcesFit'
  BY <1>0, <1>3 DEF SourcesFit, RowsFit, R!Present, R!Rows
<1>4. ASSUME NEW f \in Findings, NEW shape \in FindingShapes, R!CreateFinding(f, shape)
      PROVE  IssuesInv' /\ Grown
  <2>1. f \in R!Rows /\ f \notin Issues /\ f \notin Records /\ f \notin Candidates
    BY DEF R!Rows, R!IssueParameters
  <2>2. /\ status[f] = "absent" /\ status' = [status EXCEPT ![f] = "open"]
        /\ finding' = [finding EXCEPT ![f] = shape]
        /\ UNCHANGED <<frozenAt, bindings, issue, terms, accepted, today, settling>>
    BY <1>4 DEF R!CreateFinding
  <2>3. SourcesFit'
    BY <1>3, <2>1, <2>2
  <2> QED BY <1>1, <1>2, <2>1, <2>2, <2>3, InsertKeeps
<1>5. ASSUME NEW i \in Issues, NEW shape \in IssueShapes, R!CreateIssue(i, shape)
      PROVE  IssuesInv' /\ Grown
  <2> DEFINE c == [shape |-> shape, source |-> "none"]
  <2>1. i \in R!Rows /\ i \notin Findings /\ i \notin Records /\ i \notin Candidates
    BY DEF R!Rows, R!IssueParameters
  <2>2. /\ status[i] = "absent" /\ status' = [status EXCEPT ![i] = "open"]
        /\ issue' = [issue EXCEPT ![i] = c]
        /\ UNCHANGED <<frozenAt, bindings, finding, terms, accepted, today, settling>>
        /\ \A o \in Clients : settling[o].op = "bridge" => settling[o].issue # i
    BY <1>5 DEF R!CreateIssue, R!IdFree
  <2>3. c \in R!IssueContent /\ c.source = "none"
    BY DEF R!IssueContent, R!Content
  <2> HIDE DEF c
  <2>4. SourcesFit'
    BY <1>0, <2>1, <2>2, <2>3 DEF SourcesFit, RowsFit, R!Present, R!Rows, R!IssueParameters
  <2> QED BY <1>1, <2>1, <2>2, <2>3, <2>4, InsertKeeps
<1>6. ASSUME NEW c \in Candidates, R!CreateCandidate(c) PROVE IssuesInv' /\ Grown
  <2>1. c \in R!Rows /\ c \notin Issues /\ c \notin Records /\ c \notin Findings
    BY DEF R!Rows, R!IssueParameters
  <2>2. /\ status[c] = "absent" /\ status' = [status EXCEPT ![c] = "draft"]
        /\ UNCHANGED <<frozenAt, bindings, finding, issue, terms, accepted, today, settling>>
    BY <1>6 DEF R!CreateCandidate
  <2>3. SourcesFit'
    BY <1>3, <2>1, <2>2
  <2> QED BY <1>1, <1>2, <2>1, <2>2, <2>3, InsertKeeps
<1>7. ASSUME NEW r \in Records, NEW t \in R!Terms, R!CreateRecord(r, t) PROVE IssuesInv' /\ Grown
  <2>1. r \in R!Rows /\ r \notin Issues /\ r \notin Findings /\ r \notin Candidates
    BY DEF R!Rows, R!IssueParameters
  <2>2. /\ status[r] = "absent" /\ R!SubjectBound(t) /\ status' = [status EXCEPT ![r] = "active"]
        /\ terms' = [terms EXCEPT ![r] = t]
        /\ UNCHANGED <<frozenAt, bindings, finding, issue, accepted, today, settling>>
    BY <1>7 DEF R!CreateRecord
  <2>3. SourcesFit'
    BY <1>3, <2>1, <2>2
  <2>4. RiskCovered(r)'
    <3>1. terms'[r] = t /\ t.release \in Candidates /\ t.subject \in Issues \cup Findings
      BY <1>0, <2>2 DEF RowsFit, R!Terms
    <3>2. status[t.release] = "frozen" /\ frozenAt[t.release] > 0
      BY <2>2, <3>1 DEF R!SubjectBound, IssuesInv, FreezesFit
    <3>3. \E i \in Issues : /\ <<t.release, i>> \in bindings
                            /\ i = t.subject \/ issue[i].source = t.subject
      BY <2>2, <3>1 DEF R!SubjectBound, R!BridgeOf, R!Present
    <3> QED BY <2>2, <3>1, <3>2, <3>3 DEF RiskCovered
  <2> QED BY <1>1, <1>2, <2>1, <2>2, <2>3, <2>4, InsertKeeps
<1> QED BY <1>4, <1>5, <1>6, <1>7

\* A bridge commits, or finds the finding bridged.
LEMMA CommitBridgeKeeps ==
    ASSUME R!IssueParameters, IssuesInv, NEW s \in Clients, R!CommitBridge(s)
    PROVE  IssuesInv' /\ Grown
<1>0. RowsFit /\ JobsFit /\ BridgesFit /\ SourcesFit
  BY DEF IssuesInv, CallsFit
<1>1. PICK f, i :
        /\ f = settling[s].finding /\ i = settling[s].issue /\ settling[s].op = "bridge"
        /\ settling' = [settling EXCEPT ![s] = R!Idle]
        /\ \/ /\ R!SourceUnused(f) /\ status' = [status EXCEPT ![i] = "open"]
              /\ issue' = [issue EXCEPT ![i] = [shape |-> R!Derived(f), source |-> f]]
           \/ UNCHANGED <<status, issue>>
        /\ UNCHANGED <<frozenAt, bindings, finding, terms, accepted, today>>
  BY DEF R!CommitBridge
<1>2. f \in Findings /\ i \in Issues /\ status[f] # "absent" /\ status[i] = "absent"
  BY <1>0, <1>1, JobFields DEF JobsFit, BridgesFit
<1>3. R!Idle \in R!Jobs /\ R!Idle.op = "idle"
  BY DEF R!Jobs, R!Idle
<1>4. CASE UNCHANGED <<status, issue>>
  <2>1. IssuesInv'
    BY <1>1, <1>3, <1>4, TurnKeeps
  <2>2. Grown
    BY <1>1, <1>4 DEF Grown
  <2> QED BY <2>1, <2>2
<1>5. CASE /\ R!SourceUnused(f) /\ status' = [status EXCEPT ![i] = "open"]
           /\ issue' = [issue EXCEPT ![i] = [shape |-> R!Derived(f), source |-> f]]
  <2> DEFINE c == [shape |-> R!Derived(f), source |-> f]
  <2>1. finding[f] \in FindingShapes
    BY <1>0, <1>2 DEF RowsFit, R!Present
  <2>2. R!Derived(f) \in R!Content
    BY <2>1 DEF R!Derived, R!Content, R!HARD_REFUSAL_CATEGORIES
  <2>3. c \in R!IssueContent /\ c.source = f
    BY <1>2, <2>2 DEF R!IssueContent
  <2> HIDE DEF c
  <2>4. issue' = [issue EXCEPT ![i] = c]
    BY <1>5 DEF c
  <2>5. \A k \in R!Present(Issues) : issue[k].source # f
    BY <1>5 DEF R!SourceUnused, R!BridgeOf
  <2>6. SourcesFit'
    BY <1>0, <1>2, <1>5, <2>3, <2>4, <2>5 DEF SourcesFit, RowsFit, R!Present, R!Rows
  <2>7. /\ settling' = [o \in Clients |-> settling'[o]]
        /\ \A o \in Clients : settling'[o] = IF o = s THEN R!Idle ELSE settling[o]
    BY <1>0, <1>1 DEF JobsFit
  <2>8. \A o \in Clients : settling[o].op = "bridge" /\ o # s => settling[o].issue # i
    BY <1>0, <1>1 DEF BridgesFit
  <2>9. i \in R!Rows /\ i \notin Findings /\ i \notin Records /\ i \notin Candidates
    BY <1>2 DEF R!Rows, R!IssueParameters
  <2>10. \E d \in R!IssueContent : issue' = [issue EXCEPT ![i] = d]
    BY <2>3, <2>4
  <2>11. \A o \in Clients : \/ settling'[o] = R!Idle
                            \/ /\ settling'[o] = settling[o]
                               /\ settling[o].op = "bridge" => settling[o].issue # i
    BY <2>7, <2>8
  <2> QED BY <1>1, <1>2, <1>5, <2>6, <2>7, <2>9, <2>10, <2>11, InsertKeeps
<1> QED BY <1>1, <1>4, <1>5

\* Calls begin and are aborted, and days pass.
LEMMA CallsKeep ==
    ASSUME R!IssueParameters, IssuesInv,
           \/ \E s \in Clients :
                \/ R!MoveCandidate(s) \/ R!SettleIssue(s) \/ R!SettleFinding(s) \/ R!EndRecord(s)
                \/ \E f \in Findings, i \in Issues : R!BeginBridge(s, f, i)
                \/ \E c \in Candidates, i \in Issues : R!BeginBind(s, c, i)
                \/ \E x \in Issues \cup Findings, r \in Records : R!BeginAccept(s, x, r)
                \/ R!AbortIssues(s)
           \/ R!Midnight
    PROVE  IssuesInv' /\ Grown
<1>0. RowsFit
  BY DEF IssuesInv
<1>1. CASE R!Midnight
  <2>1. /\ UNCHANGED <<status, frozenAt, bindings, finding, issue, terms, accepted, settling>>
        /\ today' \in 0..LastDay
    BY <1>0, <1>1 DEF R!Midnight, RowsFit, R!IssueParameters
  <2>2. Grown
    BY <2>1 DEF Grown
  <2>3. RowsFit'
    BY <1>0, <2>1 DEF RowsFit, R!Present
  <2>4. CallsFit'
    <3>1. \A x : R!Acceptable(x) <=> R!Acceptable(x)'
      BY <2>1 DEF R!Acceptable, R!is_hard_blocker
    <3> QED BY <2>1, <3>1 DEF IssuesInv, CallsFit, JobsFit, MovesFit, BridgesFit, BindsFit,
                              AcceptsFit
  <2>5. SourcesFit' /\ FreezesFit'
    BY <2>1 DEF IssuesInv, SourcesFit, FreezesFit, R!Present
  <2>6. RiskRecordsFit'
    BY <2>1, <2>2, RecordsStay
  <2> QED BY <2>2, <2>3, <2>4, <2>5, <2>6 DEF IssuesInv
<1>2. ASSUME NEW s \in Clients, NEW x \in R!Rows, NEW to, R!BeginMove(s, x, to),
             to \in {"frozen", "superseded", "canceled", "resolved", "false_positive", "revoked",
                     "expired"}
      PROVE  IssuesInv' /\ Grown
  <2> DEFINE j == [op |-> "move", row |-> x, to |-> to]
  <2>1. /\ UNCHANGED <<status, frozenAt, bindings, finding, issue, terms, accepted, today>>
        /\ settling' = [settling EXCEPT ![s] = j]
    BY <1>2 DEF R!BeginMove
  <2>2. j \in R!Jobs /\ j.op = "move" /\ j.to \notin {"accepted", "absent"}
    BY <1>2 DEF R!Jobs, R!FindingStatus, R!IssueStatus, R!RecordStatus, R!CandidateStatus
  <2> HIDE DEF j
  <2> QED BY <2>1, <2>2, TurnKeeps DEF Grown
<1>3. ASSUME NEW s \in Clients, R!MoveCandidate(s) \/ R!SettleIssue(s) \/ R!SettleFinding(s)
               \/ R!EndRecord(s)
      PROVE  IssuesInv' /\ Grown
  BY <1>2, <1>3 DEF R!MoveCandidate, R!SettleIssue, R!SettleFinding, R!EndRecord, R!Rows
<1>4. ASSUME NEW s \in Clients, NEW f \in Findings, NEW i \in Issues, R!BeginBridge(s, f, i)
      PROVE  IssuesInv' /\ Grown
  <2> DEFINE j == [op |-> "bridge", finding |-> f, issue |-> i]
  <2>1. /\ UNCHANGED <<status, frozenAt, bindings, finding, issue, terms, accepted, today>>
        /\ settling' = [settling EXCEPT ![s] = j] /\ status[f] = "open" /\ R!IdFree(i)
    BY <1>4 DEF R!BeginBridge, R!Bridgeable
  <2>2. j \in R!Jobs /\ j.op = "bridge" /\ j.finding = f /\ j.issue = i
    BY DEF R!Jobs
  <2> HIDE DEF j
  <2> QED BY <2>1, <2>2, TurnKeeps DEF Grown
<1>5. ASSUME NEW s \in Clients, NEW c \in Candidates, NEW i \in Issues, R!BeginBind(s, c, i)
      PROVE  IssuesInv' /\ Grown
  <2> DEFINE j == [op |-> "bind", candidate |-> c, issue |-> i]
  <2>1. /\ UNCHANGED <<status, frozenAt, bindings, finding, issue, terms, accepted, today>>
        /\ settling' = [settling EXCEPT ![s] = j] /\ status[c] = "draft" /\ status[i] # "absent"
    BY <1>5 DEF R!BeginBind, R!BindGuard
  <2>2. j \in R!Jobs /\ j.op = "bind" /\ j.candidate = c /\ j.issue = i
    BY DEF R!Jobs
  <2> HIDE DEF j
  <2> QED BY <2>1, <2>2, TurnKeeps DEF Grown
<1>6. ASSUME NEW s \in Clients, NEW x \in Issues \cup Findings, NEW r \in Records,
             R!BeginAccept(s, x, r)
      PROVE  IssuesInv' /\ Grown
  <2> DEFINE j == [op |-> "accept", row |-> x, record |-> r]
  <2>1. /\ UNCHANGED <<status, frozenAt, bindings, finding, issue, terms, accepted, today>>
        /\ settling' = [settling EXCEPT ![s] = j] /\ status[x] = "open" /\ R!Unlocked(x)
        /\ R!Acceptable(x) /\ status[r] = "active" /\ terms[r].subject = x
    BY <1>6 DEF R!BeginAccept, R!Usable
  <2>2. j \in R!Jobs /\ j.op = "accept" /\ j.row = x /\ j.record = r
    BY DEF R!Jobs
  <2> HIDE DEF j
  <2> QED BY <2>1, <2>2, TurnKeeps DEF Grown
<1>7. ASSUME NEW s \in Clients, R!AbortIssues(s) PROVE IssuesInv' /\ Grown
  <2>1. /\ UNCHANGED <<status, frozenAt, bindings, finding, issue, terms, accepted, today>>
        /\ settling' = [settling EXCEPT ![s] = R!Idle]
    BY <1>7 DEF R!AbortIssues
  <2>2. R!Idle \in R!Jobs /\ R!Idle.op = "idle"
    BY DEF R!Jobs, R!Idle
  <2> QED BY <2>1, <2>2, TurnKeeps DEF Grown
<1> QED BY <1>1, <1>3, <1>4, <1>5, <1>6, <1>7

\* Every step of the issues keeps their invariant, and the tables grow.
LEMMA IssuesGoOn == ASSUME R!IssueParameters, IssuesInv, R!NextIssues PROVE IssuesInv' /\ Grown
BY CreatesKeep, CallsKeep, CommitMoveKeeps, CommitBridgeKeeps, CommitBindKeeps,
   CommitAcceptKeeps DEF R!NextIssues

\* The issues begin in their invariant.
LEMMA IssuesBegin == ASSUME R!IssueParameters, R!InitIssues PROVE IssuesInv
<1>1. \A x \in R!Rows : status[x] = "absent"
  BY DEF R!InitIssues
<1>2. /\ R!Present(Candidates) = {} /\ R!Present(Issues) = {} /\ R!Present(Findings) = {}
      /\ R!Present(Records) = {}
  BY <1>1 DEF R!Present, R!Rows
<1>3. RowsFit
  BY <1>1, <1>2 DEF R!InitIssues, RowsFit, R!Rows, R!IssueParameters
<1>4. R!Idle \in R!Jobs /\ R!Idle.op = "idle"
  BY DEF R!Jobs, R!Idle
<1>5. CallsFit
  BY <1>4 DEF R!InitIssues, CallsFit, JobsFit, MovesFit, BridgesFit, BindsFit, AcceptsFit
<1>6. SourcesFit
  BY <1>2 DEF SourcesFit
<1>7. FreezesFit
  BY <1>1, FS_CardinalityType, SameCards DEF R!InitIssues, FreezesFit, R!Rows, R!IssueParameters
<1>8. RiskRecordsFit
  BY <1>1, <1>2 DEF RiskRecordsFit, R!Rows
<1> QED BY <1>3, <1>5, <1>6, <1>7, <1>8 DEF IssuesInv

\* What the invariant says of bridges and acceptances.
LEMMA IssuesHold ==
    ASSUME R!IssueParameters, IssuesInv
    PROVE R!TypeOK /\ R!OneIssuePerFinding /\ R!AcceptanceIsExact
<1>0. RowsFit /\ JobsFit /\ SourcesFit /\ RiskRecordsFit
  BY DEF IssuesInv, CallsFit
<1>1. R!TypeOK
  BY <1>0 DEF R!TypeOK, RowsFit, JobsFit
<1>2. R!OneIssuePerFinding
  <2>1. ASSUME NEW f \in Findings PROVE R!Cardinality(R!BridgeOf(f)) <= 1
    <3>1. \A i, j \in R!BridgeOf(f) : i = j
      BY <1>0, <2>1 DEF R!BridgeOf, SourcesFit
    <3>2. CASE R!BridgeOf(f) = {}
      BY <3>2, FS_EmptySet, SameCards
    <3>3. ASSUME NEW i \in R!BridgeOf(f) PROVE R!Cardinality(R!BridgeOf(f)) <= 1
      <4>1. R!BridgeOf(f) = {i}
        BY <3>1, <3>3
      <4>2. R!Cardinality({i}) = 1
        BY FS_Singleton, SameCards
      <4> QED BY <4>1, <4>2
    <3> QED BY <3>2, <3>3
  <2> QED BY <2>1 DEF R!OneIssuePerFinding
<1>3. R!AcceptanceIsExact
  <2>1. ASSUME NEW x \in Issues \cup Findings, status[x] = "accepted"
        PROVE  /\ R!Acceptable(x) /\ accepted[x] # "none"
               /\ terms[accepted[x]].subject = x /\ frozenAt[terms[accepted[x]].release] > 0
               /\ \E i \in Issues : /\ <<terms[accepted[x]].release, i>> \in bindings
                                    /\ i = x \/ issue[i].source = x
    <3>1. /\ R!Acceptable(x) /\ accepted[x] \in Records
          /\ status[accepted[x]] # "absent" /\ terms[accepted[x]].subject = x
      BY <1>0, <2>1 DEF RiskRecordsFit
    <3>2. RiskCovered(accepted[x])
      BY <1>0, <3>1 DEF RiskRecordsFit, R!Present
    <3> QED BY <3>1, <3>2 DEF RiskCovered, R!IssueParameters
  <2> QED BY <2>1 DEF R!AcceptanceIsExact
<1> QED BY <1>1, <1>2, <1>3

\* No step moves a candidate out of an end.
LEMMA EndsAreFinal ==
    ASSUME R!IssueParameters, IssuesInv, R!NextIssues, NEW c \in Candidates,
           status[c] \in {"superseded", "canceled"}
    PROVE  status'[c] = status[c]
<1>0. RowsFit /\ JobsFit /\ AcceptsFit /\ BridgesFit
  BY DEF IssuesInv, CallsFit
<1>1. c \in R!Rows /\ c \notin Issues /\ c \notin Findings /\ c \notin Records
  BY DEF R!Rows, R!IssueParameters
<1>2. ASSUME NEW s \in Clients, R!CommitMove(s) PROVE status'[c] = status[c]
  <2>1. PICK x, to : /\ x \in R!Rows /\ <<status[x], to>> \in R!Transitions(x)
                     /\ status' = [status EXCEPT ![x] = to]
    BY <1>0, <1>2, JobFields DEF R!CommitMove, R!RowGuard, JobsFit
  <2>2. x # c
    BY <2>1, MoveLegal
  <2> QED BY <1>0, <1>1, <2>1, <2>2 DEF RowsFit
<1>3. ASSUME NEW s \in Clients, R!CommitAccept(s) PROVE status'[c] = status[c]
  <2>1. settling[s].row \in Issues \cup Findings
    BY <1>0, <1>3, JobFields DEF R!CommitAccept, JobsFit
  <2> QED BY <1>0, <1>1, <1>3, <2>1 DEF R!CommitAccept, RowsFit
<1>4. ASSUME NEW s \in Clients, R!CommitBridge(s) PROVE status'[c] = status[c]
  <2>1. settling[s].issue \in Issues
    BY <1>0, <1>4, JobFields DEF R!CommitBridge, JobsFit
  <2> QED BY <1>0, <1>1, <1>4, <2>1 DEF R!CommitBridge, RowsFit
<1>5. CASE \/ \E f \in Findings, shape \in FindingShapes : R!CreateFinding(f, shape)
           \/ \E i \in Issues, shape \in IssueShapes : R!CreateIssue(i, shape)
           \/ \E d \in Candidates : R!CreateCandidate(d)
           \/ \E r \in Records, t \in R!Terms : R!CreateRecord(r, t)
  BY <1>0, <1>1, <1>5 DEF R!CreateFinding, R!CreateIssue, R!CreateCandidate, R!CreateRecord,
                          R!IdFree, RowsFit
<1>6. CASE UNCHANGED status
  BY <1>6
<1> QED BY <1>2, <1>3, <1>4, <1>5, <1>6 DEF R!NextIssues, R!MoveCandidate, R!SettleIssue,
                                            R!SettleFinding, R!EndRecord, R!BeginMove,
                                            R!BeginBridge, R!BeginBind, R!BeginAccept, R!CommitBind,
                                            R!AbortIssues, R!Midnight

-----------------------------------------------------------------------------
(* Evidence cores and verdicts.                                             *)

\* A verdict follows from its input, and a passing one is borne out by its core.
JudgedWell(v) ==
    /\ v \in R!VerdictRun
    /\ v.outcome = "failed" => v.verdict = "none"
    /\ v.outcome = "succeeded" => v.verdict = R!evaluate_release_verdict(v.input)
    /\ v.verdict = "passed" =>
         /\ {d.issue : d \in v.input} = {ref.id : ref \in v.pack.core.issues}
         /\ \A ref \in v.pack.core.issues :
              ref.source # "none" /\ ref.status \in {"resolved", "superseded"}

\* What a worker holds.
WorkerFits(k) ==
    /\ k.op \in {"idle", "assemble", "core", "evaluate", "verdict"}
    /\ k.op = "assemble" => k.candidate \in Candidates /\ k.bound \subseteq R!Present(Issues)
    /\ k.op = "core" => k.run \in R!GenerationRun
    /\ k.op = "evaluate" => k.pack \in R!GenerationRun /\ k.input \subseteq R!IssueDisposition
    /\ k.op = "verdict" => JudgedWell(k.run)

\* The tables of evidence have their types, and every verdict is judged well.
EvidenceFit ==
    /\ sections \subseteq RequiredSections /\ packStamp \in 0..MaxPackStamp
    /\ packRuns \subseteq R!GenerationRun
    /\ \A v \in verdictRuns : JudgedWell(v)

\* Every worker holds a fitting job.
WorkersFit ==
    /\ worker = [w \in Workers |-> worker[w]]
    /\ \A w \in Workers : WorkerFits(worker[w])

\* What a release keeps.
ReleaseInv == IssuesInv /\ EvidenceFit /\ WorkersFit

\* A passing verdict had only verified and settled issues to judge, and none
\* passes with limitations, as no authority is ever verified.
LEMMA PassedInput ==
    ASSUME NEW input \in SUBSET R!IssueDisposition
    PROVE  /\ R!evaluate_release_verdict(input) \in R!SPEC_VERDICTS \ {"passed_with_limitations"}
           /\ R!evaluate_release_verdict(input) = "passed" =>
                \A d \in input : d.trusted_provenance /\ d.status \in {"resolved", "superseded"}
<1>1. \A d \in input : d.risk_authority_verified = FALSE
  BY DEF R!IssueDisposition
<1>2. \A d \in R!Active(input) : ~d.risk_authority_verified
  BY <1>1 DEF R!Active
<1>3. R!Active(input) # {} => R!evaluate_release_verdict(input) \in
          {"failed_missing_evidence", "failed_blocking_issue", "requires_human_decision"}
  BY <1>2 DEF R!evaluate_release_verdict
<1>4. R!Active(input) = {} => R!evaluate_release_verdict(input)
        \in {"failed_missing_evidence", "passed"}
  BY DEF R!evaluate_release_verdict
<1>5. R!evaluate_release_verdict(input) = "passed" => \A d \in input : d.trusted_provenance
  BY DEF R!evaluate_release_verdict
<1>6. R!Active(input) = {} => \A d \in input : d.status \in {"resolved", "superseded"}
  BY DEF R!Active
<1> QED BY <1>3, <1>4, <1>5, <1>6 DEF R!SPEC_VERDICTS

\* The disposition of a bound issue has its columns.
LEMMA DispositionTyped ==
    ASSUME R!IssueParameters, RowsFit, NEW c, NEW i \in R!Bound(c)
    PROVE R!Disposition(c, i) \in R!IssueDisposition
<1>1. i \in Issues /\ status[i] \in R!IssueStatus /\ issue[i] \in R!IssueContent
  BY DEF R!Bound, RowsFit, R!Present
<1>2. issue[i].shape.blocking \in BOOLEAN
  BY <1>1 DEF R!IssueContent, R!Content, R!IssueParameters
<1>3. R!RiskIsExact(c, i) \in BOOLEAN
  BY DEF R!RiskIsExact
<1>4. R!is_hard_blocker(issue[i].shape) \in BOOLEAN
  BY DEF R!is_hard_blocker
<1>5. (issue[i].source # "none") \in BOOLEAN
  OBVIOUS
<1> DEFINE exact == R!RiskIsExact(c, i)
           hard == R!is_hard_blocker(issue[i].shape)
           known == issue[i].source # "none"
           st == status[i]
           blocking == issue[i].shape.blocking
<1>6. R!Disposition(c, i) = [issue |-> i, status |-> st, trusted_provenance |-> known,
         blocking |-> blocking, hard_blocker |-> hard,
         exact_risk_acceptance |-> exact, risk_authority_verified |-> FALSE]
  BY DEF R!Disposition
<1> HIDE DEF exact, hard, known, st, blocking
<1>7. exact \in BOOLEAN /\ hard \in BOOLEAN /\ known \in BOOLEAN
  BY <1>3, <1>4, <1>5 DEF exact, hard, known
<1>8. st \in R!IssueStatus /\ blocking \in BOOLEAN
  BY <1>1, <1>2 DEF st, blocking
<1> QED BY <1>1, <1>6, <1>7, <1>8 DEF R!IssueDisposition

\* A core read back has its columns.
LEMMA CoreTyped ==
    ASSUME RowsFit, NEW c, NEW bound \in SUBSET R!Present(Issues)
    PROVE R!ReadCore(c, bound) \in R!EvidenceCore
<1>1. ASSUME NEW i \in bound
      PROVE  R!IssueRef(i) \in [id : Issues, status : R!IssueStatus, shape : R!Content,
                              source : Findings \cup {"none"}]
  <2>1. i \in Issues /\ status[i] \in R!IssueStatus /\ issue[i] \in R!IssueContent
    BY DEF RowsFit, R!Present
  <2>2. issue[i].shape \in R!Content /\ issue[i].source \in Findings \cup {"none"}
    BY <2>1 DEF R!IssueContent
  <2> QED BY <2>1, <2>2 DEF R!IssueRef
<1>2. ASSUME NEW r \in R!Present(Records)
      PROVE R!RiskRef(r) \in [id : Records, status : R!RecordStatus]
  BY DEF R!RiskRef, RowsFit, R!Present
<1> DEFINE is == {R!IssueRef(i) : i \in bound}
           rs == {R!RiskRef(r) : r \in {q \in R!Present(Records) : terms[q].release = c}}
<1>3. R!ReadCore(c, bound) = [issues |-> is, risks |-> rs]
  BY DEF R!ReadCore
<1>4. is \subseteq [id : Issues, status : R!IssueStatus, shape : R!Content, source :
        Findings \cup {"none"}]
  BY <1>1
<1>5. rs \subseteq [id : Records, status : R!RecordStatus]
  BY <1>2
<1> HIDE DEF is, rs
<1> QED BY <1>3, <1>4, <1>5 DEF R!EvidenceCore

\* A verdict over the rows as they are, of a core that is current, is judged well.
LEMMA VerdictJudged ==
    ASSUME R!IssueParameters, RowsFit, NEW p \in R!GenerationRun, NEW at \in 1..MaxPackStamp,
           R!CoreIsCurrent(p.core, p.candidate)
    PROVE  JudgedWell([at |-> at, pack |-> p, input |-> R!Input(p.candidate),
        outcome |-> "succeeded",
                       verdict |-> R!evaluate_release_verdict(R!Input(p.candidate))])
<1> DEFINE c == p.candidate
           input == R!Input(c)
           verdict == R!evaluate_release_verdict(input)
           v == [at |-> at, pack |-> p, input |-> input, outcome |-> "succeeded",
                 verdict |-> verdict]
<1>1. input \in SUBSET R!IssueDisposition
  BY DispositionTyped DEF R!Input
<1>2. verdict \in R!SPEC_VERDICTS
  BY <1>1, PassedInput
<1>3. ASSUME verdict = "passed"
      PROVE  /\ {d.issue : d \in input} = {ref.id : ref \in p.core.issues}
             /\ \A ref \in p.core.issues :
                  ref.source # "none" /\ ref.status \in {"resolved", "superseded"}
  <2>1. p.core.issues = {R!IssueRef(i) : i \in R!Bound(c)}
    BY DEF R!CoreIsCurrent
  <2>2. \A i : /\ R!IssueRef(i).id = i /\ R!IssueRef(i).status = status[i]
               /\ R!IssueRef(i).source = issue[i].source
    BY DEF R!IssueRef
  <2>3. \A i : /\ R!Disposition(c, i).issue = i /\ R!Disposition(c, i).status = status[i]
               /\ R!Disposition(c, i).trusted_provenance <=> issue[i].source # "none"
    BY DEF R!Disposition
  <2>4. input = {R!Disposition(c, i) : i \in R!Bound(c)}
    BY DEF R!Input
  <2>5. \A d \in input : d.trusted_provenance /\ d.status \in {"resolved", "superseded"}
    BY <1>1, <1>3, PassedInput
  <2> HIDE DEF input, c
  <2>6. {d.issue : d \in input} = R!Bound(c)
    BY <2>3, <2>4
  <2>7. {ref.id : ref \in p.core.issues} = R!Bound(c)
    <3> DEFINE refs == p.core.issues
    <3>1. refs = {R!IssueRef(i) : i \in R!Bound(c)}
      BY <2>1
    <3> HIDE DEF refs
    <3>2. {ref.id : ref \in refs} = R!Bound(c)
      BY <2>2, <3>1
    <3> QED BY <3>2 DEF refs
  <2>8. ASSUME NEW i \in R!Bound(c)
        PROVE  issue[i].source # "none" /\ status[i] \in {"resolved", "superseded"}
    <3>1. R!Disposition(c, i) \in input
      BY <2>4
    <3> QED BY <2>3, <2>5, <3>1
  <2>9. ASSUME NEW ref \in p.core.issues
        PROVE  ref.source # "none" /\ ref.status \in {"resolved", "superseded"}
    BY <2>1, <2>2, <2>8
  <2> QED BY <2>6, <2>7, <2>9
<1> HIDE DEF input, verdict
<1>4. v \in R!VerdictRun
  BY <1>1, <1>2 DEF R!VerdictRun
<1>5. v.outcome = "succeeded" /\ v.verdict = verdict /\ v.input = input /\ v.pack = p
  OBVIOUS
<1> HIDE DEF v
<1>6. JudgedWell(v)
  BY <1>3, <1>4, <1>5 DEF JudgedWell, verdict
<1> QED BY <1>6 DEF v, verdict, input, c

\* A worker turns to k.
LEMMA WorkerTurns ==
    ASSUME WorkersFit, NEW w \in Workers, NEW k, WorkerFits(k), UNCHANGED R!issueVars,
           worker' = [worker EXCEPT ![w] = k]
    PROVE  WorkersFit'
<1>1. /\ worker' = [x \in Workers |-> worker'[x]]
      /\ \A x \in Workers : worker'[x] = IF x = w THEN k ELSE worker[x]
  BY DEF WorkersFit
<1>2. \A j : WorkerFits(j) <=> WorkerFits(j)'
  BY DEF WorkerFits, R!issueVars, R!Present
<1> QED BY <1>1, <1>2 DEF WorkersFit

\* The steps of assemblies.
LEMMA AssembliesKeep ==
    ASSUME R!Parameters, ReleaseInv, UNCHANGED R!issueVars,
           \/ \E code \in RequiredSections : R!ObserveSource(code)
           \/ \E c \in Candidates : R!FailAssembly(c)
           \/ \E w \in Workers :
                \/ \E c \in Candidates : R!BeginAssemble(w, c)
                \/ R!WriteCore(w) \/ R!CommitCore(w) \/ R!AbortEvidence(w)
    PROVE  EvidenceFit' /\ WorkersFit'
<1>0. RowsFit /\ EvidenceFit /\ WorkersFit /\ R!IssueParameters /\ MaxPackStamp \in Nat
  BY DEF ReleaseInv, IssuesInv, R!Parameters
<1>a. WorkerFits(R!Idle)
  BY DEF WorkerFits, R!Idle
<1>b. (UNCHANGED worker) => WorkersFit'
  BY <1>0 DEF WorkersFit, WorkerFits, R!issueVars, R!Present
<1>1. ASSUME NEW code \in RequiredSections, R!ObserveSource(code) PROVE EvidenceFit' /\ WorkersFit'
  BY <1>0, <1>1, <1>b DEF R!ObserveSource, EvidenceFit
<1>2. ASSUME NEW c \in Candidates, R!FailAssembly(c) PROVE EvidenceFit' /\ WorkersFit'
  <2> DEFINE run == [at |-> packStamp', candidate |-> c, outcome |-> "failed", core |-> R!NoCore]
  <2>1. /\ packStamp' = packStamp + 1 /\ packStamp < MaxPackStamp /\ packRuns' = packRuns \cup {run}
        /\ UNCHANGED <<sections, verdictRuns, worker>>
    BY <1>2 DEF R!FailAssembly
  <2>2. packStamp' \in 1..MaxPackStamp /\ packStamp' \in 0..MaxPackStamp
    BY <1>0, <2>1 DEF EvidenceFit
  <2>3. R!NoCore \in R!EvidenceCore
    BY DEF R!NoCore, R!EvidenceCore
  <2>4. run \in R!GenerationRun
    BY <2>2, <2>3 DEF R!GenerationRun
  <2> HIDE DEF run
  <2> QED BY <1>0, <1>b, <2>1, <2>2, <2>4 DEF EvidenceFit
<1>3. ASSUME NEW w \in Workers, NEW c \in Candidates, R!BeginAssemble(w, c)
      PROVE  EvidenceFit' /\ WorkersFit'
  <2> DEFINE k == [op |-> "assemble", candidate |-> c, bound |-> R!Bound(c)]
  <2>1. /\ worker' = [worker EXCEPT ![w] = k] /\ UNCHANGED <<sections, packRuns, verdictRuns,
             packStamp>>
    BY <1>3 DEF R!BeginAssemble
  <2>2. k.op = "assemble" /\ k.candidate = c /\ k.bound = R!Bound(c)
    OBVIOUS
  <2>3. R!Bound(c) \subseteq R!Present(Issues)
    BY <1>0 DEF R!Bound, RowsFit
  <2> HIDE DEF k
  <2>4. WorkerFits(k)
    BY <2>2, <2>3 DEF WorkerFits
  <2> QED BY <1>0, <2>1, <2>4, WorkerTurns DEF EvidenceFit
<1>4. ASSUME NEW w \in Workers, R!WriteCore(w) PROVE EvidenceFit' /\ WorkersFit'
  <2> DEFINE core == R!ReadCore(worker[w].candidate, worker[w].bound)
             run == [at |-> packStamp + 1, candidate |-> worker[w].candidate,
                 outcome |-> R!AssemblyStatus,
                     core |-> core]
             k == [op |-> "core", run |-> run]
  <2>1. /\ worker[w].op = "assemble" /\ packStamp < MaxPackStamp /\ packStamp' = packStamp + 1
        /\ worker' = [worker EXCEPT ![w] = k] /\ UNCHANGED <<sections, packRuns, verdictRuns>>
    BY <1>4 DEF R!WriteCore
  <2>2. worker[w].candidate \in Candidates /\ worker[w].bound \subseteq R!Present(Issues)
    BY <1>0, <2>1 DEF WorkersFit, WorkerFits
  <2>3. core \in R!EvidenceCore
    BY <1>0, <2>2, CoreTyped
  <2>4. packStamp + 1 \in 1..MaxPackStamp /\ packStamp + 1 \in 0..MaxPackStamp
    BY <1>0, <2>1 DEF EvidenceFit
  <2>5. R!AssemblyStatus \in {"succeeded", "incomplete", "failed"}
    BY DEF R!AssemblyStatus
  <2> HIDE DEF core
  <2>6. run \in R!GenerationRun
    BY <2>2, <2>3, <2>4, <2>5 DEF R!GenerationRun
  <2> HIDE DEF run
  <2>7. k.op = "core" /\ k.run = run
    OBVIOUS
  <2> HIDE DEF k
  <2>8. WorkerFits(k)
    BY <2>6, <2>7 DEF WorkerFits
  <2> QED BY <1>0, <2>1, <2>4, <2>8, WorkerTurns DEF EvidenceFit
<1>5. ASSUME NEW w \in Workers, R!CommitCore(w) PROVE EvidenceFit' /\ WorkersFit'
  <2>1. /\ worker[w].op = "core" /\ packRuns' = packRuns \cup {worker[w].run}
        /\ worker' = [worker EXCEPT ![w] = R!Idle] /\ UNCHANGED <<sections, verdictRuns, packStamp>>
    BY <1>5 DEF R!CommitCore
  <2>2. worker[w].run \in R!GenerationRun
    BY <1>0, <2>1 DEF WorkersFit, WorkerFits
  <2> QED BY <1>0, <1>a, <2>1, <2>2, WorkerTurns DEF EvidenceFit
<1>6. ASSUME NEW w \in Workers, R!AbortEvidence(w) PROVE EvidenceFit' /\ WorkersFit'
  BY <1>0, <1>6, <1>a, WorkerTurns DEF R!AbortEvidence, EvidenceFit
<1> QED BY <1>1, <1>2, <1>3, <1>4, <1>5, <1>6

\* The steps of verdicts.
LEMMA VerdictsKeep ==
    ASSUME R!Parameters, ReleaseInv, UNCHANGED R!issueVars,
           \/ \E p \in packRuns : R!FailVerdict(p)
           \/ \E w \in Workers :
                \/ \E p \in packRuns : R!BeginVerdict(w, p)
                \/ R!WriteVerdict(w) \/ R!CommitVerdict(w)
    PROVE  EvidenceFit' /\ WorkersFit'
<1>0. RowsFit /\ EvidenceFit /\ WorkersFit /\ R!IssueParameters /\ MaxPackStamp \in Nat
  BY DEF ReleaseInv, IssuesInv, R!Parameters
<1>a. WorkerFits(R!Idle)
  BY DEF WorkerFits, R!Idle
<1>b. (UNCHANGED worker) => WorkersFit'
  BY <1>0 DEF WorkersFit, WorkerFits, R!issueVars, R!Present
<1>c. \A c : R!Input(c) \in SUBSET R!IssueDisposition
  BY <1>0, DispositionTyped DEF R!Input
<1>1. ASSUME NEW p \in packRuns, R!FailVerdict(p) PROVE EvidenceFit' /\ WorkersFit'
  <2> DEFINE input == R!Input(p.candidate)
             run == [at |-> packStamp + 1, pack |-> p, input |-> input, outcome |-> "failed",
                     verdict |-> "none"]
  <2>1. /\ packStamp' = packStamp + 1 /\ packStamp < MaxPackStamp
             /\ verdictRuns' = verdictRuns \cup {run}
        /\ UNCHANGED <<sections, packRuns, worker>>
    BY <1>1 DEF R!FailVerdict
  <2>2. packStamp + 1 \in 1..MaxPackStamp /\ packStamp + 1 \in 0..MaxPackStamp
          /\ p \in R!GenerationRun
    BY <1>0, <2>1 DEF EvidenceFit
  <2>3. input \in SUBSET R!IssueDisposition
    BY <1>c
  <2> HIDE DEF input
  <2>4. run \in R!VerdictRun /\ run.outcome = "failed" /\ run.verdict = "none"
    BY <2>2, <2>3 DEF R!VerdictRun
  <2> HIDE DEF run
  <2>5. JudgedWell(run)
    BY <2>4 DEF JudgedWell
  <2> QED BY <1>0, <1>b, <2>1, <2>2, <2>5 DEF EvidenceFit
<1>2. ASSUME NEW w \in Workers, NEW p \in packRuns, R!BeginVerdict(w, p)
      PROVE  EvidenceFit' /\ WorkersFit'
  <2> DEFINE input == R!Input(p.candidate)
             k == [op |-> "evaluate", pack |-> p, input |-> input]
  <2>1. worker' = [worker EXCEPT ![w] = k] /\ UNCHANGED <<sections, packRuns, verdictRuns,
          packStamp>>
    BY <1>2 DEF R!BeginVerdict
  <2>2. k.op = "evaluate" /\ k.pack = p /\ k.input = input /\ p \in R!GenerationRun
        /\ input \in SUBSET R!IssueDisposition
    BY <1>0, <1>c DEF EvidenceFit
  <2> HIDE DEF input, k
  <2>3. WorkerFits(k)
    BY <2>2 DEF WorkerFits
  <2> QED BY <1>0, <2>1, <2>3, WorkerTurns DEF EvidenceFit
<1>3. ASSUME NEW w \in Workers, R!WriteVerdict(w) PROVE EvidenceFit' /\ WorkersFit'
  <2>1. PICK p : /\ p = worker[w].pack /\ worker[w].op = "evaluate" /\ packStamp < MaxPackStamp
                 /\ R!CoreIsCurrent(p.core, p.candidate) /\ worker[w].input = R!Input(p.candidate)
    BY <1>3 DEF R!WriteVerdict, R!VerifyVerdict
  <2> DEFINE run == [at |-> packStamp + 1, pack |-> p, input |-> R!Input(p.candidate),
                     outcome |-> "succeeded",
                     verdict |-> R!evaluate_release_verdict(R!Input(p.candidate))]
             k == [op |-> "verdict", run |-> run]
  <2>2. /\ packStamp' = packStamp + 1 /\ worker' = [worker EXCEPT ![w] = k]
        /\ UNCHANGED <<sections, packRuns, verdictRuns>>
    BY <1>3, <2>1 DEF R!WriteVerdict
  <2>3. packStamp + 1 \in 1..MaxPackStamp /\ packStamp + 1 \in 0..MaxPackStamp
    BY <1>0, <2>1 DEF EvidenceFit
  <2>4. p \in R!GenerationRun
    BY <1>0, <2>1 DEF WorkersFit, WorkerFits
  <2>5. JudgedWell(run)
    BY <1>0, <2>1, <2>3, <2>4, VerdictJudged
  <2> HIDE DEF run
  <2>6. k.op = "verdict" /\ k.run = run
    OBVIOUS
  <2> HIDE DEF k
  <2>7. WorkerFits(k)
    BY <2>5, <2>6 DEF WorkerFits
  <2> QED BY <1>0, <2>2, <2>3, <2>7, WorkerTurns DEF EvidenceFit
<1>4. ASSUME NEW w \in Workers, R!CommitVerdict(w) PROVE EvidenceFit' /\ WorkersFit'
  <2>1. /\ worker[w].op = "verdict" /\ verdictRuns' = verdictRuns \cup {worker[w].run}
        /\ worker' = [worker EXCEPT ![w] = R!Idle] /\ UNCHANGED <<sections, packRuns, packStamp>>
    BY <1>4 DEF R!CommitVerdict
  <2>2. JudgedWell(worker[w].run)
    BY <1>0, <2>1 DEF WorkersFit, WorkerFits
  <2> QED BY <1>0, <1>a, <2>1, <2>2, WorkerTurns DEF EvidenceFit
<1> QED BY <1>1, <1>2, <1>3, <1>4

\* Evidence is written beside the issues, and never to them.
LEMMA EvidenceReadsOnly == ASSUME R!NextEvidence PROVE UNCHANGED R!issueVars
BY DEF R!NextEvidence, R!ObserveSource, R!FailAssembly, R!FailVerdict, R!BeginAssemble,
       R!BeginVerdict, R!WriteCore, R!CommitCore, R!WriteVerdict, R!CommitVerdict, R!AbortEvidence

\* The invariant of the issues is about nothing else.
LEMMA IssuesStay == ASSUME IssuesInv, UNCHANGED R!issueVars PROVE IssuesInv'
<1>1. \A r : RiskCovered(r) <=> RiskCovered(r)'
  BY DEF R!issueVars, RiskCovered
<1>2. \A x : R!Acceptable(x) <=> R!Acceptable(x)'
  BY DEF R!issueVars, R!Acceptable
<1>3. \A rows : R!Present(rows) = R!Present(rows)'
  BY DEF R!issueVars, R!Present
<1>4. RowsFit' /\ SourcesFit' /\ FreezesFit'
  BY <1>3 DEF IssuesInv, R!issueVars, RowsFit, SourcesFit, FreezesFit
<1>5. CallsFit'
  BY <1>2 DEF IssuesInv, R!issueVars, CallsFit, JobsFit, MovesFit, BridgesFit, BindsFit, AcceptsFit
<1>6. RiskRecordsFit'
  BY <1>1, <1>2, <1>3 DEF IssuesInv, R!issueVars, RiskRecordsFit
<1> QED BY <1>4, <1>5, <1>6 DEF IssuesInv

\* A release begins in its invariant.
LEMMA ReleaseBegins == ASSUME R!Parameters, R!Init PROVE ReleaseInv
<1>1. IssuesInv
  BY IssuesBegin DEF R!Parameters, R!Init
<1>2. WorkerFits(R!Idle)
  BY DEF WorkerFits, R!Idle
<1>3. EvidenceFit
  BY DEF R!Init, R!InitEvidence, EvidenceFit, R!Parameters
<1>4. WorkersFit
  BY <1>2 DEF R!Init, R!InitEvidence, WorkersFit
<1> QED BY <1>1, <1>3, <1>4 DEF ReleaseInv

\* Every step of a release keeps its invariant.
LEMMA ReleaseGoesOn == ASSUME R!Parameters, ReleaseInv, [R!Next]_R!vars PROVE ReleaseInv'
<1>0. R!IssueParameters /\ IssuesInv /\ EvidenceFit /\ WorkersFit
  BY DEF R!Parameters, ReleaseInv
<1>1. CASE R!NextIssues /\ UNCHANGED <<sections, packRuns, verdictRuns, packStamp, worker>>
  <2>1. IssuesInv' /\ Grown
    BY <1>0, <1>1, IssuesGoOn
  <2>2. R!Present(Issues) \subseteq R!Present(Issues)'
    BY <2>1 DEF Grown, R!Present, R!Rows
  <2>3. \A k : WorkerFits(k) => WorkerFits(k)'
    BY <2>2 DEF WorkerFits
  <2>4. WorkersFit'
    BY <1>0, <1>1, <2>3 DEF WorkersFit
  <2> QED BY <1>0, <1>1, <2>1, <2>4 DEF EvidenceFit, ReleaseInv
<1>2. CASE R!NextEvidence
  <2>1. UNCHANGED R!issueVars
    BY <1>2, EvidenceReadsOnly
  <2>2. EvidenceFit' /\ WorkersFit'
    BY <1>2, <2>1, AssembliesKeep, VerdictsKeep DEF R!NextEvidence
  <2> QED BY <1>0, <2>1, <2>2, IssuesStay DEF ReleaseInv
<1>3. CASE UNCHANGED R!vars
  <2>1. UNCHANGED R!issueVars /\ UNCHANGED <<sections, packRuns, verdictRuns, packStamp, worker>>
    BY <1>3 DEF R!vars, R!issueVars
  <2>2. \A k : WorkerFits(k) => WorkerFits(k)'
    BY <2>1 DEF WorkerFits, R!issueVars, R!Present
  <2> QED BY <1>0, <2>1, <2>2, IssuesStay DEF ReleaseInv, EvidenceFit, WorkersFit
<1> QED BY <1>1, <1>2, <1>3 DEF R!Next

\* The latest of runs is one of them, and none was stamped after it.
LEMMA LatestIsThere ==
    ASSUME R!Parameters, NEW group, group # {}, \A g \in group : g.at \in 1..MaxPackStamp
    PROVE  R!LatestOf(group) \in group
<1> DEFINE ages == {MaxPackStamp - g.at : g \in group}
<1>1. ages \in SUBSET Nat /\ ages # {}
  BY DEF R!Parameters
<1>2. PICK n \in ages : \A m \in ages : n <= m
  BY <1>1, NatLeast
<1>3. PICK r \in group : n = MaxPackStamp - r.at
  BY <1>2
<1>4. \A q \in group : q.at <= r.at
  <2>1. TAKE q \in group
  <2>2. MaxPackStamp - r.at <= MaxPackStamp - q.at
    BY <1>2, <1>3
  <2> QED BY <2>2, <1>3 DEF R!Parameters
<1> QED BY <1>3, <1>4 DEF R!LatestOf

\* The candidate frozen last is frozen.
LEMMA LatestIsFrozen ==
    ASSUME R!IssueParameters, FreezesFit, RowsFit, \E c \in Candidates : R!Frozen(c)
    PROVE  /\ R!LatestCandidate \in Candidates /\ R!Frozen(R!LatestCandidate)
           /\ \A d \in Candidates : R!Frozen(d) => frozenAt[d] <= frozenAt[R!LatestCandidate]
<1> DEFINE ages == {R!Cardinality(Candidates) - frozenAt[c] : c \in {d \in Candidates : R!Frozen(d)}}
<1>0. R!Cardinality(Candidates) \in Nat /\ \A c \in Candidates : frozenAt[c] \in Nat
  BY FS_CardinalityType, SameCards DEF R!IssueParameters, RowsFit
<1>1. ages \in SUBSET Nat /\ ages # {}
  BY <1>0 DEF FreezesFit
<1>2. PICK n \in ages : \A m \in ages : n <= m
  BY <1>1, NatLeast
<1>3. PICK c \in Candidates : R!Frozen(c) /\ n = R!Cardinality(Candidates) - frozenAt[c]
  BY <1>2
<1>4. \A d \in Candidates : R!Frozen(d) => frozenAt[d] <= frozenAt[c]
  <2>1. ASSUME NEW d \in Candidates, R!Frozen(d) PROVE frozenAt[d] <= frozenAt[c]
    <3>1. R!Cardinality(Candidates) - frozenAt[c] <= R!Cardinality(Candidates) - frozenAt[d]
      BY <1>2, <1>3, <2>1
    <3> QED BY <1>0, <3>1
  <2> QED BY <2>1
<1> QED BY <1>3, <1>4 DEF R!LatestCandidate

\* What an open gate rests on.
LEMMA GateSees == ASSUME R!Parameters, ReleaseInv PROVE R!GateSeesEveryIssue
<1> SUFFICES ASSUME R!Gate7
             PROVE  \E c \in Candidates :
                 /\ status[c] = "frozen"
                 /\ \A d \in Candidates : status[d] = "frozen" => frozenAt[d] <= frozenAt[c]
                 /\ \A i \in Issues : <<c, i>> \in bindings =>
                      issue[i].source # "none" /\ status[i] \in {"resolved", "superseded"}
  BY DEF R!GateSeesEveryIssue
<1>0. R!IssueParameters /\ RowsFit /\ FreezesFit /\ EvidenceFit
  BY DEF R!Parameters, ReleaseInv, IssuesInv
<1>1. PICK c : c = R!LatestCandidate
  OBVIOUS
<1>2. /\ c \in Candidates /\ R!Frozen(c)
      /\ \A d \in Candidates : R!Frozen(d) => frozenAt[d] <= frozenAt[c]
  BY <1>0, <1>1, LatestIsFrozen DEF R!Gate7
<1>3. PICK judged : judged = {v \in verdictRuns : v.pack.candidate = c}
  OBVIOUS
<1>4. PICK v : v = R!LatestOf(judged)
  OBVIOUS
<1>5. /\ judged # {} /\ v.outcome = "succeeded" /\ v.input = R!Input(c)
      /\ v.verdict \in {"passed", "passed_with_limitations"}
  BY <1>1, <1>3, <1>4 DEF R!Gate7, R!VerdictIsCurrent
<1>6. \A g \in judged : JudgedWell(g) /\ g.at \in 1..MaxPackStamp
  BY <1>0, <1>3 DEF EvidenceFit, JudgedWell, R!VerdictRun
<1>7. v \in judged
  BY <1>4, <1>5, <1>6, LatestIsThere
<1>8. R!Input(c) \in SUBSET R!IssueDisposition /\ v.verdict = R!evaluate_release_verdict(R!Input(c))
  BY <1>5, <1>6, <1>7 DEF JudgedWell, R!VerdictRun
<1>9. \A d \in R!Input(c) : d.trusted_provenance /\ d.status \in {"resolved", "superseded"}
  BY <1>5, <1>8, PassedInput
<1>10. ASSUME NEW i \in Issues, <<c, i>> \in bindings
       PROVE  issue[i].source # "none" /\ status[i] \in {"resolved", "superseded"}
  <2>1. R!Disposition(c, i) \in R!Input(c)
    BY <1>10 DEF R!Input, R!Bound
  <2> QED BY <1>9, <2>1 DEF R!Disposition
<1>11. \A d \in Candidates : status[d] = "frozen" => R!Frozen(d)
  BY <1>0 DEF FreezesFit, R!Frozen
<1> QED BY <1>2, <1>10, <1>11 DEF R!Frozen

\* What the invariant says of a release.
LEMMA ReleaseHolds ==
    ASSUME R!Parameters, ReleaseInv
    PROVE  /\ R!TypeOK /\ R!TypeOKEvidence /\ R!OneIssuePerFinding /\ R!AcceptanceIsExact
           /\ R!PassedCoreIsClean /\ R!GateSeesEveryIssue
<1>1. R!IssueParameters /\ IssuesInv /\ EvidenceFit
  BY DEF R!Parameters, ReleaseInv
<1>2. R!TypeOKEvidence
  BY <1>1 DEF R!TypeOKEvidence, EvidenceFit, JudgedWell
<1>3. R!PassedCoreIsClean
  BY <1>1 DEF R!PassedCoreIsClean, EvidenceFit, JudgedWell
<1> QED BY <1>1, <1>2, <1>3, IssuesHold, GateSees

\* A candidate keeps its number, and its end.
LEMMA CandidatesStay == ASSUME R!Parameters, ReleaseInv, [R!Next]_R!vars PROVE R!CandidateStep
<1>1. R!IssueParameters /\ IssuesInv
  BY DEF R!Parameters, ReleaseInv
<1>2. CASE R!NextIssues
  BY <1>1, <1>2, IssuesGoOn, EndsAreFinal DEF R!CandidateStep, Grown
<1>3. CASE UNCHANGED R!issueVars
  BY <1>3 DEF R!CandidateStep, R!issueVars
<1>4. UNCHANGED R!vars => UNCHANGED R!issueVars
  BY DEF R!vars, R!issueVars
<1> QED BY <1>2, <1>3, <1>4, EvidenceReadsOnly DEF R!Next

-----------------------------------------------------------------------------
(* The ledger, the budget and the cost forecast.                             *)

\* What a forecast derives from has the columns of its tables.
InputsFit(v) ==
    /\ v.plan \in C!InputLines /\ v.policy \in C!StructuredCostPolicy
    /\ v.budget \in C!BudgetRow /\ C!Positive(v.budget)
    /\ v.events \subseteq C!CostEvent /\ IsFiniteSet(v.events)

\* A succeeded row holds what derive_forecast made of its inputs.
RowFits(r) ==
    /\ r.outcome \in {"succeeded", "refused"}
    /\ r.outcome = "succeeded" => InputsFit(r.inputs) /\ r.summary = C!derive_forecast(r.inputs)

\* The records of a forecast and of a gate under way have these fields.
ForecastFields == {"pc", "asOf", "plan", "core", "policy", "budget", "events"}

\* The fields of a gate under way.
GateFields == {"pc", "asOf", "core", "policy", "budget", "events", "run"}

\* A record of a forecast under way has these fields.
ForecastFormed(v) == v = [f \in ForecastFields |-> v[f]]

\* A record of a gate under way has these fields.
GateFormed(v) == v = [f \in GateFields |-> v[f]]

\* The money of a gate that passed was below every cap it had read.
Affordable(v) ==
    LET plan == v.run.inputs.plan
        Today(es) == {e \in es : C!Day(e.at) = C!Day(v.asOf)}
        Planned(f) == f["model_inference"] + f["cloud_runtime"] + f["other"]
    IN /\ C!Spent(v.events) + Planned(plan.remaining) < v.budget.total
       /\ C!Spent(Today(v.events)) + Planned(plan.today) < v.budget.daily
       /\ C!SpentFor(v.events, "model_inference") + plan.remaining["model_inference"]
              < v.policy.model_total
       /\ C!SpentFor(Today(v.events), "model_inference") + plan.today["model_inference"]
              < v.policy.model_daily
       /\ C!SpentFor(v.events, "cloud_runtime") + plan.remaining["cloud_runtime"]
              < v.policy.cloud_total
       /\ plan.ci < v.policy.ci_daily

\* What a session holds.
SpendingFits(v) ==
    /\ v.pc \in {"idle", "recording", "scoped", "budgeted", "derived", "inserted", "aborted",
                 "gate_scoped", "gate_budgeted", "gate_counted", "passed"}
    /\ v.pc = "recording" => v.event \in C!CostEvent
    /\ v.pc \in {"scoped", "budgeted", "derived"} =>
         /\ ForecastFormed(v)
         /\ v.plan \in C!InputLines /\ v.core \in C!Cores /\ v.policy \in C!StructuredCostPolicy
    /\ v.pc = "budgeted" => v.budget \in C!BudgetRow
    /\ v.pc = "derived" => InputsFit(v)
    /\ v.pc = "inserted" => RowFits(v.run)
    /\ v.pc \in {"gate_scoped", "gate_budgeted", "gate_counted", "passed"} => GateFormed(v)
    /\ v.pc = "passed" => Affordable(v)

\* A key is drawn once by committed and uncommitted rows together.
KeysDrawn ==
    /\ C!ChargeCountsOnce
    /\ \A s \in Callers : spending[s].pc = "recording" =>
         \A e \in ledger : e.ref = spending[s].event.ref => e.ref = C!NoRef
    /\ \A s, o \in Callers :
         /\ spending[s].pc = "recording" /\ spending[o].pc = "recording"
         /\ spending[s].event.ref = spending[o].event.ref /\ spending[s].event.ref # C!NoRef
         => s = o

\* The tables have their types.
BooksFit ==
    /\ clock \in 0..MaxCostTime /\ forecastStamp \in 0..MaxForecastStamp
    /\ ledger \subseteq C!CostEvent /\ IsFiniteSet(ledger)
    /\ budget \in C!BudgetRow \cup {C!NoBudget}
    /\ policies \in Seq(C!StructuredCostPolicy)
    /\ coreStatus \in [C!Cores -> {"none", "frozen", "retired"}]
    /\ \A r \in forecasts : RowFits(r) /\ r.created_at \in 1..forecastStamp

\* Every session holds a fitting forecast, gate or charge.
SpendingsFit ==
    /\ spending = [s \in Callers |-> spending[s]]
    /\ \A s \in Callers : SpendingFits(spending[s])
    /\ \A s \in Callers : spending[s].pc = "inserted"
         => spending[s].run.created_at \in 1..forecastStamp
    /\ \A s \in Callers : spending[s].pc \in {"scoped", "budgeted", "derived"} =>
           coreStatus[spending[s].core] # "none"

\* What spending keeps.
CostInv == BooksFit /\ SpendingsFit /\ KeysDrawn

\* The latest core is a frozen one, or zero; the latest run is a run.
LEMMA LatestCoreFits ==
    ASSUME C!Parameters, BooksFit
    PROVE  C!LatestCore = 0 \/ (C!LatestCore \in C!Cores /\ coreStatus[C!LatestCore] = "frozen")
<1> DEFINE cs == {0} \cup {c \in C!Cores : coreStatus[c] = "frozen"}
           Ds == {MaxCore - c : c \in cs}
<1>1. \A c \in cs : c \in Nat /\ c <= MaxCore
  BY DEF C!Parameters, C!Cores
<1>2. Ds \in SUBSET Nat /\ Ds # {}
  BY <1>1 DEF C!Parameters
<1>3. PICK d \in Ds : \A y \in Ds : d <= y
  BY <1>2, NatLeast
<1>4. PICK c \in cs : d = MaxCore - c
  OBVIOUS
<1>5. \A y \in cs : MaxCore - c <= MaxCore - y
  BY <1>3, <1>4
<1> HIDE DEF cs, Ds
<1>6. \A y \in cs : c >= y
  BY <1>1, <1>4, <1>5 DEF C!Parameters
<1>7. C!LatestCore = C!Max(cs)
  BY DEF C!LatestCore, cs
<1>8. C!LatestCore \in cs
  BY <1>4, <1>6, <1>7 DEF C!Max
<1> QED BY <1>8 DEF cs

\* The latest run is a run.
LEMMA LatestRunFits ==
    ASSUME C!Parameters, BooksFit, forecasts # {}
    PROVE  C!LatestRun \in forecasts
<1> DEFINE Ds == {MaxForecastStamp - r.created_at : r \in forecasts}
<1>1. \A r \in forecasts : r.created_at \in Nat /\ r.created_at <= MaxForecastStamp
  BY DEF BooksFit, C!Parameters
<1>2. Ds \in SUBSET Nat /\ Ds # {}
  BY <1>1 DEF C!Parameters
<1>3. PICK d \in Ds : \A y \in Ds : d <= y
  BY <1>2, NatLeast
<1>4. PICK r \in forecasts : d = MaxForecastStamp - r.created_at
  OBVIOUS
<1>5. \A q \in forecasts : MaxForecastStamp - r.created_at <= MaxForecastStamp - q.created_at
  BY <1>3, <1>4
<1>6. \A q \in forecasts : q.created_at <= r.created_at
  BY <1>1, <1>5 DEF C!Parameters
<1> QED BY <1>4, <1>6 DEF C!LatestRun

\* The latest policy is a structured one, if there is one.
LEMMA LatestPolicyFits ==
    ASSUME BooksFit PROVE C!LatestPolicy \in C!StructuredCostPolicy \cup {C!NoPolicy}
<1>1. policies \in Seq(C!StructuredCostPolicy)
  BY DEF BooksFit
<1>2. policies # <<>> => policies[Len(policies)] \in C!StructuredCostPolicy
  BY <1>1
<1> QED BY <1>2 DEF C!LatestPolicy

\* A gate that passes on a run that fits is affordable.
LEMMA PassIsAffordable ==
    ASSUME C!Parameters, BooksFit, NEW v, C!Gate9(v), GateFormed(v)
    PROVE  Affordable([v EXCEPT !.pc = "passed", !.run = C!LatestRun])
<1> DEFINE r == C!LatestRun
           w == [v EXCEPT !.pc = "passed", !.run = r]
<1>1. /\ w.run = r /\ w.events = v.events /\ w.asOf = v.asOf /\ w.budget = v.budget
      /\ w.policy = v.policy
  BY DEF GateFormed, GateFields
<1>2. /\ r \in forecasts /\ r.outcome = "succeeded"
      /\ r.inputs.policy = v.policy /\ r.inputs.budget = v.budget /\ r.inputs.events = v.events
      /\ C!Day(r.inputs.asOf) = C!Day(v.asOf) /\ r.summary.within
  BY LatestRunFits DEF C!Gate9, C!BindingCurrent
<1>3. r.summary = C!derive_forecast(r.inputs)
  BY <1>2 DEF BooksFit, RowFits
<1> DEFINE i == r.inputs
<1> HIDE DEF r, w
<1>4. \A d \in C!Dimensions(i) : d.value < d.limit
  BY <1>2, <1>3 DEF C!derive_forecast
<1> DEFINE Plan(f) == f["model_inference"] + f["cloud_runtime"] + f["other"]
           day == {e \in i.events : C!Day(e.at) = C!Day(i.asOf)}
<1>5. /\ C!Spent(i.events) + Plan(i.plan.remaining) < i.budget.total
      /\ C!Spent(day) + Plan(i.plan.today) < i.budget.daily
      /\ C!SpentFor(i.events, "model_inference") + i.plan.remaining["model_inference"]
           < i.policy.model_total
      /\ C!SpentFor(day, "model_inference") + i.plan.today["model_inference"] < i.policy.model_daily
      /\ C!SpentFor(i.events, "cloud_runtime") + i.plan.remaining["cloud_runtime"]
           < i.policy.cloud_total
      /\ i.plan.ci < i.policy.ci_daily
  BY <1>4 DEF C!Dimensions
<1>6. day = {e \in v.events : C!Day(e.at) = C!Day(v.asOf)}
  BY <1>2
<1> HIDE DEF day
<1>7. Affordable(w)
  BY <1>1, <1>2, <1>5, <1>6 DEF Affordable
<1> QED BY <1>7 DEF w, r

\* The money of the ledger is a number.
LEMMA SpentTyped ==
    ASSUME NEW es, es \subseteq C!CostEvent, IsFiniteSet(es), NEW xs \in SUBSET es
    PROVE  C!Spent(xs) \in Int
<1>1. IsFiniteSet(xs)
  BY FS_Subset
<1>2. \A e \in xs : Amt(e) \in Int
  BY DEF C!CostEvent, Amt
<1>3. MapThenSumSet(Amt, xs) \in Int
  BY <1>1, <1>2, SumTyped
<1>4. C!Spent(xs) = MapThenSumSet(Amt, xs)
  BY DEF C!Spent, C!MapThenSumSet, C!MapThenFoldSet, MapThenSumSet, MapThenFoldSet, Amt,
            C!Amount
<1> QED BY <1>3, <1>4

\* The limits of a policy are positive numbers.
LEMMA PolicyColumns ==
    ASSUME NEW p \in C!StructuredCostPolicy
    PROVE  /\ p.model_total \in Nat \ {0} /\ p.model_daily \in Nat \ {0}
           /\ p.cloud_total \in Nat \ {0} /\ p.ci_daily \in Nat \ {0}
  BY DEF C!StructuredCostPolicy

\* The six dimensions are numbers.
LEMMA DimensionsTyped ==
    ASSUME NEW v, InputsFit(v)
    PROVE  \A d \in C!Dimensions(v) : d.value \in Int /\ d.limit \in Int
<1> DEFINE day == {e \in v.events : C!Day(e.at) = C!Day(v.asOf)}
           model == {e \in v.events : e.component = "model_inference"}
           modelDay == {e \in day : e.component = "model_inference"}
           cloud == {e \in v.events : e.component = "cloud_runtime"}
<1>1. /\ C!Spent(v.events) \in Int /\ C!Spent(day) \in Int /\ C!Spent(model) \in Int
      /\ C!Spent(modelDay) \in Int /\ C!Spent(cloud) \in Int
  <2>1. v.events \subseteq C!CostEvent /\ IsFiniteSet(v.events)
    BY DEF InputsFit
  <2>2. /\ v.events \in SUBSET v.events /\ day \in SUBSET v.events /\ model \in SUBSET v.events
        /\ modelDay \in SUBSET v.events /\ cloud \in SUBSET v.events
    OBVIOUS
  <2> HIDE DEF day, model, modelDay, cloud
  <2> QED BY <2>1, <2>2, SpentTyped
<1>2. /\ C!SpentFor(v.events, "model_inference") \in Int
           /\ C!SpentFor(day, "model_inference") \in Int
      /\ C!SpentFor(v.events, "cloud_runtime") \in Int
  BY <1>1 DEF C!SpentFor
<1>3. /\ \A k \in C!COST_COMPONENTS : v.plan.remaining[k] \in Int /\ v.plan.today[k] \in Int
      /\ v.plan.ci \in Int
  BY DEF InputsFit, C!InputLines
<1>4. /\ v.budget.total \in Int /\ v.budget.daily \in Int
      /\ v.policy.model_total \in Int /\ v.policy.model_daily \in Int
      /\ v.policy.cloud_total \in Int /\ v.policy.ci_daily \in Int
  BY PolicyColumns DEF InputsFit, C!BudgetRow, C!NoCap
<1> DEFINE Plan(f) == f["model_inference"] + f["cloud_runtime"] + f["other"]
<1>5. /\ Plan(v.plan.remaining) \in Int /\ Plan(v.plan.today) \in Int
      /\ v.plan.remaining["model_inference"] \in Int /\ v.plan.today["model_inference"] \in Int
      /\ v.plan.remaining["cloud_runtime"] \in Int
  BY <1>3 DEF C!COST_COMPONENTS
<1> DEFINE D(c, l, x) == [code |-> c, limit |-> l, value |-> x]
<1>6. ASSUME NEW d \in C!Dimensions(v)
      PROVE  \/ d = D("all_cost_total_usd", v.budget.total,
                  C!Spent(v.events) + Plan(v.plan.remaining))
             \/ d = D("all_cost_daily_usd", v.budget.daily, C!Spent(day) + Plan(v.plan.today))
             \/ d = D("model_cost_total_usd", v.policy.model_total,
                      C!SpentFor(v.events, "model_inference") + v.plan.remaining["model_inference"])
             \/ d = D("model_cost_daily_usd", v.policy.model_daily,
                      C!SpentFor(day, "model_inference") + v.plan.today["model_inference"])
             \/ d = D("cloud_spend_total_usd", v.policy.cloud_total,
                      C!SpentFor(v.events, "cloud_runtime") + v.plan.remaining["cloud_runtime"])
             \/ d = D("ci_minutes_daily", v.policy.ci_daily, v.plan.ci)
  BY DEF C!Dimensions
<1> HIDE DEF day, Plan
<1>7. ASSUME NEW c, NEW l \in Int, NEW x \in Int
      PROVE D(c, l, x).value \in Int /\ D(c, l, x).limit \in Int
  BY <1>7
<1>8. \A m, n \in Int : m + n \in Int
  OBVIOUS
<1> HIDE DEF D
<1> QED BY <1>1, <1>2, <1>3, <1>4, <1>5, <1>6, <1>7, <1>8

\* The database derives again what Python derived.
LEMMA DerivationsAgree ==
    ASSUME NEW r, RowFits(r), r.outcome = "succeeded" PROVE C!Verified(r)
<1> DEFINE v == r.inputs
<1>1. r.summary = C!derive_forecast(v) /\ InputsFit(v)
  BY DEF RowFits
<1>2. \A d \in C!Dimensions(v) : d.value \in Int /\ d.limit \in Int
  BY <1>1, DimensionsTyped
<1>3. \A d \in C!Dimensions(v) : C!WithinLimit(d) <=> d.value < d.limit
  BY <1>2 DEF C!WithinLimit
<1>4. (\A d \in C!Dimensions(v) : C!WithinLimit(d)) <=> (\A d \in C!Dimensions(v) :
        d.value < d.limit)
  BY <1>3
<1>5. (\A d \in C!Dimensions(v) : C!WithinLimit(d)) = (\A d \in C!Dimensions(v) : d.value < d.limit)
  BY <1>4
<1> QED BY <1>1, <1>5 DEF C!Verified, C!derive_forecast

-----------------------------------------------------------------------------
\* One session turns to j, which is no uncommitted charge, while the books of
\* the ledger and of the cores stay.
LEMMA TurnFits ==
    ASSUME BooksFit, SpendingsFit, KeysDrawn, NEW s \in Callers, NEW j, SpendingFits(j),
           j.pc # "recording", spending' = [spending EXCEPT ![s] = j],
           UNCHANGED <<ledger, coreStatus>>, forecastStamp' \in {forecastStamp, forecastStamp + 1},
           j.pc = "inserted" => j.run.created_at \in 1..forecastStamp',
           j.pc \in {"scoped", "budgeted", "derived"} => coreStatus[j.core] # "none"
    PROVE  SpendingsFit' /\ KeysDrawn'
<1>1. /\ spending' = [o \in Callers |-> spending'[o]]
      /\ \A o \in Callers : spending'[o] = IF o = s THEN j ELSE spending[o]
  BY DEF SpendingsFit
<1>2. forecastStamp \in Nat /\ \A n \in 1..forecastStamp : n \in 1..forecastStamp'
  BY DEF BooksFit
<1>3. \A o \in Callers : SpendingFits(spending'[o])
  BY <1>1 DEF SpendingsFit
<1>4. \A o \in Callers : spending'[o].pc = "inserted"
        => spending'[o].run.created_at \in 1..forecastStamp'
  BY <1>1, <1>2 DEF SpendingsFit
<1>5. \A o \in Callers : spending'[o].pc \in {"scoped", "budgeted", "derived"} =>
          coreStatus'[spending'[o].core] # "none"
  BY <1>1 DEF SpendingsFit
<1>6. SpendingsFit'
  BY <1>1, <1>3, <1>4, <1>5 DEF SpendingsFit
<1>7. \A o \in Callers : spending'[o].pc = "recording" => o # s /\ spending'[o] = spending[o]
  BY <1>1
<1>8. KeysDrawn'
  BY <1>7 DEF KeysDrawn, C!ChargeCountsOnce
<1> QED BY <1>6, <1>8

\* The books stay but for a stamp drawn.
LEMMA BooksStay ==
    ASSUME C!Parameters, BooksFit, UNCHANGED <<clock, ledger, budget, policies, coreStatus,
        forecasts>>,
           \/ forecastStamp' = forecastStamp
           \/ forecastStamp' = forecastStamp + 1 /\ forecastStamp < MaxForecastStamp
    PROVE  BooksFit' /\ forecastStamp' \in {forecastStamp, forecastStamp + 1}
<1>1. forecastStamp \in Nat /\ forecastStamp' \in 0..MaxForecastStamp
        /\ \A n \in 1..forecastStamp : n \in 1..forecastStamp'
  BY DEF BooksFit, C!Parameters
<1> QED BY <1>1 DEF BooksFit

\* A refusal, or the abort of one that names a budget with a zero cap.
LEMMA RefuseFits ==
    ASSUME BooksFit, SpendingsFit, KeysDrawn, NEW s \in Callers, NEW b, NEW reason,
           C!Refuse(s, b, reason), UNCHANGED <<ledger, coreStatus>>
    PROVE  SpendingsFit' /\ KeysDrawn'
<1> DEFINE run == C!Refusal(b, reason)
           j == IF C!BoundsCheck(run) THEN [pc |-> "inserted", run |-> run]
                ELSE [pc |-> "aborted", budget |-> b, events |-> ledger, dims |-> {}]
<1>1. spending' = [spending EXCEPT ![s] = j] /\ forecastStamp' = forecastStamp + 1
  BY DEF C!Refuse
<1>2. run.outcome = "refused" /\ run.created_at = forecastStamp + 1
  BY DEF C!Refusal
<1>3. forecastStamp + 1 \in 1..(forecastStamp + 1)
  BY DEF BooksFit
<1> HIDE DEF run
<1>4. /\ j.pc \in {"inserted", "aborted"}
      /\ j.pc = "inserted" => j.run = run
  OBVIOUS
<1> HIDE DEF j
<1>5. SpendingFits(j) /\ j.pc # "recording"
  BY <1>2, <1>4 DEF SpendingFits, RowFits
<1> QED BY <1>1, <1>2, <1>3, <1>4, <1>5, TurnFits

\* The steps of a forecast.
LEMMA GenerateKeeps ==
    ASSUME C!Parameters, CostInv, NEW s \in Callers,
           \/ \E plan \in Plans : C!GenerateBegin(s, plan)
           \/ C!GenerateReadBudget(s)
           \/ C!GenerateReadEvents(s)
           \/ C!GenerateInsert(s)
    PROVE  CostInv'
<1>0. BooksFit /\ SpendingsFit /\ KeysDrawn /\ SpendingFits(spending[s])
  BY DEF CostInv, SpendingsFit
<1>a. spending = [o \in Callers |-> spending[o]]
  BY <1>0 DEF SpendingsFit
<1>1. ASSUME NEW plan \in Plans, C!GenerateBegin(s, plan) PROVE CostInv'
  <2> DEFINE v == [pc |-> "scoped", asOf |-> clock, plan |-> plan, core |-> C!LatestCore,
                   policy |-> C!LatestPolicy, budget |-> C!NoBudget, events |-> {}]
  <2>1. UNCHANGED <<clock, ledger, budget, policies, coreStatus, forecasts>>
          /\ forecastStamp < MaxForecastStamp
    BY <1>1 DEF C!GenerateBegin
  <2>2. \/ \E reason : C!Refuse(s, C!NoBudget, reason)
        \/ /\ spending' = [spending EXCEPT ![s] = v] /\ forecastStamp' = forecastStamp
           /\ C!LatestCore # 0 /\ C!LatestPolicy # C!NoPolicy
    BY <1>1, LatestCoreFits, <1>0 DEF C!GenerateBegin
  <2>3. CASE \E reason : C!Refuse(s, C!NoBudget, reason)
    BY <1>0, <2>1, <2>3, RefuseFits, BooksStay DEF CostInv, C!Refuse
  <2>4. CASE /\ spending' = [spending EXCEPT ![s] = v] /\ forecastStamp' = forecastStamp
             /\ C!LatestCore # 0 /\ C!LatestPolicy # C!NoPolicy
    <3>1. /\ C!LatestCore \in C!Cores /\ coreStatus[C!LatestCore] = "frozen"
          /\ C!LatestPolicy \in C!StructuredCostPolicy /\ plan \in C!InputLines
      BY <1>0, <2>4, LatestCoreFits, LatestPolicyFits DEF C!Parameters
    <3>2. v.pc = "scoped" /\ v.plan = plan /\ v.core = C!LatestCore /\ v.policy = C!LatestPolicy
      OBVIOUS
    <3>3. ForecastFormed(v)
      BY DEF ForecastFormed, ForecastFields
    <3> HIDE DEF v
    <3>4. SpendingFits(v)
      BY <3>1, <3>2, <3>3 DEF SpendingFits
    <3> QED BY <1>0, <2>1, <2>4, <3>1, <3>2, <3>4, TurnFits, BooksStay DEF CostInv
  <2> QED BY <2>2, <2>3, <2>4
<1>2. CASE C!GenerateReadBudget(s)
  <2> DEFINE v == [spending[s] EXCEPT !.pc = "budgeted", !.budget = budget]
  <2>1. /\ UNCHANGED <<clock, ledger, budget, policies, coreStatus, forecasts>>
             /\ forecastStamp < MaxForecastStamp
        /\ spending[s].pc = "scoped"
    BY <1>2 DEF C!GenerateReadBudget
  <2>2. \/ \E reason : C!Refuse(s, C!NoBudget, reason)
        \/ spending' = [spending EXCEPT ![s] = v] /\ forecastStamp' = forecastStamp
             /\ budget # C!NoBudget
    BY <1>2, <1>a DEF C!GenerateReadBudget
  <2>3. CASE \E reason : C!Refuse(s, C!NoBudget, reason)
    BY <1>0, <2>1, <2>3, RefuseFits, BooksStay DEF CostInv, C!Refuse
  <2>4. CASE spending' = [spending EXCEPT ![s] = v] /\ forecastStamp' = forecastStamp
               /\ budget # C!NoBudget
    <3>1. /\ ForecastFormed(spending[s]) /\ spending[s].plan \in C!InputLines
          /\ spending[s].core \in C!Cores /\ spending[s].policy \in C!StructuredCostPolicy
      BY <1>0, <2>1 DEF SpendingFits
    <3>2. /\ v.pc = "budgeted" /\ v.plan = spending[s].plan /\ v.core = spending[s].core
          /\ v.policy = spending[s].policy /\ v.budget = budget
      BY <3>1 DEF ForecastFormed, ForecastFields
    <3>3. ForecastFormed(v)
      BY <3>1 DEF ForecastFormed, ForecastFields
    <3>4. budget \in C!BudgetRow /\ coreStatus[spending[s].core] # "none"
      BY <1>0, <2>1, <2>4 DEF BooksFit, SpendingsFit
    <3> HIDE DEF v
    <3>5. SpendingFits(v)
      BY <3>1, <3>2, <3>3, <3>4 DEF SpendingFits
    <3> QED BY <1>0, <2>1, <2>4, <3>2, <3>4, <3>5, TurnFits, BooksStay DEF CostInv
  <2> QED BY <2>2, <2>3, <2>4
<1>3. CASE C!GenerateReadEvents(s)
  <2> DEFINE v == [spending[s] EXCEPT !.pc = "derived", !.events = ledger]
  <2>1. /\ UNCHANGED <<clock, ledger, budget, policies, coreStatus, forecasts>>
             /\ forecastStamp < MaxForecastStamp
        /\ spending[s].pc = "budgeted"
    BY <1>3 DEF C!GenerateReadEvents
  <2>2. \/ \E b, reason : C!Refuse(s, b, reason)
        \/ spending' = [spending EXCEPT ![s] = v] /\ forecastStamp' = forecastStamp
             /\ C!ValidInput(v)
    BY <1>3 DEF C!GenerateReadEvents
  <2>3. CASE \E b, reason : C!Refuse(s, b, reason)
    BY <1>0, <2>1, <2>3, RefuseFits, BooksStay DEF CostInv, C!Refuse
  <2>4. CASE spending' = [spending EXCEPT ![s] = v] /\ forecastStamp' = forecastStamp
               /\ C!ValidInput(v)
    <3>1. /\ ForecastFormed(spending[s]) /\ spending[s].plan \in C!InputLines
          /\ spending[s].core \in C!Cores /\ spending[s].policy \in C!StructuredCostPolicy
          /\ spending[s].budget \in C!BudgetRow
      BY <1>0, <2>1 DEF SpendingFits
    <3>2. /\ v.pc = "derived" /\ v.plan = spending[s].plan /\ v.core = spending[s].core
          /\ v.policy = spending[s].policy /\ v.budget = spending[s].budget /\ v.events = ledger
      BY <3>1 DEF ForecastFormed, ForecastFields
    <3>3. ForecastFormed(v)
      BY <3>1 DEF ForecastFormed, ForecastFields
    <3>4. ledger \subseteq C!CostEvent /\ IsFiniteSet(ledger)
            /\ coreStatus[spending[s].core] # "none"
      BY <1>0, <2>1 DEF BooksFit, SpendingsFit
    <3> HIDE DEF v
    <3>5. InputsFit(v)
      BY <2>4, <3>1, <3>2, <3>4 DEF InputsFit, C!ValidInput
    <3>6. SpendingFits(v)
      BY <3>1, <3>2, <3>3, <3>5 DEF SpendingFits
    <3> QED BY <1>0, <2>1, <2>4, <3>2, <3>4, <3>6, TurnFits, BooksStay DEF CostInv
  <2> QED BY <2>2, <2>3, <2>4
<1>4. CASE C!GenerateInsert(s)
  <2> DEFINE v == spending[s]
             done == [pc |-> "inserted", run |-> C!Success(v)]
  <2>1. /\ UNCHANGED <<clock, ledger, budget, policies, coreStatus, forecasts>>
        /\ forecastStamp < MaxForecastStamp /\ forecastStamp' = forecastStamp + 1
             /\ v.pc = "derived"
        /\ \/ spending' = [spending EXCEPT ![s] = done]
           \/ spending' = [spending EXCEPT ![s] = C!Aborted(v)]
    BY <1>4 DEF C!GenerateInsert
  <2>2. /\ done.pc = "inserted" /\ done.run.outcome = "succeeded" /\ done.run.inputs = v
        /\ done.run.summary = C!derive_forecast(v) /\ done.run.created_at = forecastStamp + 1
    BY DEF C!Success
  <2>3. C!Aborted(v).pc = "aborted"
    BY DEF C!Aborted
  <2>4. InputsFit(v) /\ forecastStamp + 1 \in 1..(forecastStamp + 1)
    BY <1>0, <2>1 DEF SpendingFits, BooksFit
  <2> HIDE DEF done
  <2>5. SpendingFits(done) /\ SpendingFits(C!Aborted(v))
    BY <2>2, <2>3, <2>4 DEF SpendingFits, RowFits
  <2> QED BY <1>0, <2>1, <2>2, <2>3, <2>4, <2>5, TurnFits, BooksStay DEF CostInv
<1> QED BY <1>1, <1>2, <1>3, <1>4

\* A forecast that commits, or is refused at its commit.
LEMMA ForecastCommitKeeps ==
    ASSUME C!Parameters, CostInv, NEW s \in Callers, C!GenerateCommit(s) PROVE CostInv'
<1> DEFINE run == spending[s].run
<1>0. BooksFit /\ SpendingsFit /\ KeysDrawn /\ SpendingFits(spending[s])
  BY DEF CostInv, SpendingsFit
<1>1. /\ spending[s].pc = "inserted" /\ UNCHANGED <<clock, ledger, budget, policies, coreStatus,
           forecastStamp>>
      /\ \/ forecasts' = forecasts \cup {run} /\ spending' = [spending EXCEPT ![s] = C!Idle]
         \/ forecasts' = forecasts /\ spending' = [spending EXCEPT ![s] = C!Aborted(run.inputs)]
  BY DEF C!GenerateCommit
<1>2. RowFits(run) /\ run.created_at \in 1..forecastStamp
  BY <1>0, <1>1 DEF SpendingFits, SpendingsFit
<1> HIDE DEF run
<1>3. BooksFit'
  BY <1>0, <1>1, <1>2 DEF BooksFit
<1>4. SpendingFits(C!Idle) /\ C!Idle.pc = "idle"
  BY DEF SpendingFits, C!Idle
<1>5. SpendingFits(C!Aborted(run.inputs)) /\ C!Aborted(run.inputs).pc = "aborted"
  <2>1. C!Aborted(run.inputs).pc = "aborted"
    BY DEF C!Aborted
  <2> QED BY <2>1 DEF SpendingFits
<1> QED BY <1>0, <1>1, <1>3, <1>4, <1>5, TurnFits DEF CostInv

\* The steps of a gate, and a call that rolls back.
LEMMA GateKeeps ==
    ASSUME C!Parameters, CostInv, NEW s \in Callers,
           C!GateBegin(s) \/ C!GateReadBudget(s) \/ C!GateReadEvents(s) \/ C!GateVerdict(s)
               \/ C!Rollback(s)
    PROVE  CostInv'
<1>0. BooksFit /\ SpendingsFit /\ KeysDrawn /\ SpendingFits(spending[s])
  BY DEF CostInv, SpendingsFit
<1>1. UNCHANGED <<clock, ledger, budget, policies, coreStatus, forecasts, forecastStamp>>
  BY DEF C!GateBegin, C!GateReadBudget, C!GateReadEvents, C!GateVerdict, C!Rollback
<1>2. SpendingFits(C!Idle) /\ C!Idle.pc = "idle"
  BY DEF SpendingFits, C!Idle
<1>3. ASSUME NEW j, SpendingFits(j), spending' = [spending EXCEPT ![s] = j],
             j.pc \in {"idle", "gate_scoped", "gate_budgeted", "gate_counted", "passed"}
      PROVE  CostInv'
  BY <1>0, <1>1, <1>3, TurnFits, BooksStay DEF CostInv
<1>4. CASE C!GateBegin(s)
  <2> DEFINE v == [pc |-> "gate_scoped", asOf |-> clock, core |-> C!LatestCore,
        policy |-> C!LatestPolicy,
                   budget |-> C!NoBudget, events |-> {}, run |-> C!NoRun]
  <2>1. spending' = [spending EXCEPT ![s] = v]
    BY <1>4 DEF C!GateBegin
  <2>2. GateFormed(v) /\ v.pc = "gate_scoped"
    BY DEF GateFormed, GateFields
  <2> HIDE DEF v
  <2>3. SpendingFits(v)
    BY <2>2 DEF SpendingFits
  <2> QED BY <1>3, <2>1, <2>2, <2>3
<1>5. ASSUME spending[s].pc \in {"gate_scoped", "gate_budgeted", "gate_counted"},
             NEW pc \in {"gate_budgeted", "gate_counted", "passed"}, NEW b, NEW e, NEW r
      PROVE  LET w == [spending[s] EXCEPT !.pc = pc, !.budget = b, !.events = e, !.run = r]
             IN  GateFormed(w) /\ w.pc = pc
  <2>1. GateFormed(spending[s])
    BY <1>0, <1>5 DEF SpendingFits
  <2> QED BY <2>1 DEF GateFormed, GateFields
<1>6. CASE C!GateReadBudget(s) \/ C!GateReadEvents(s)
  <2>1. spending[s].pc \in {"gate_scoped", "gate_budgeted"}
    BY <1>6 DEF C!GateReadBudget, C!GateReadEvents
  <2>2. spending = [o \in Callers |-> spending[o]] /\ GateFormed(spending[s])
    BY <1>0, <2>1 DEF SpendingsFit, SpendingFits
  <2> DEFINE jb == [spending[s] EXCEPT !.pc = "gate_budgeted", !.budget = budget]
             je == [spending[s] EXCEPT !.pc = "gate_counted", !.events = ledger]
  <2>a. GateFormed(jb) /\ GateFormed(je) /\ jb.pc = "gate_budgeted" /\ je.pc = "gate_counted"
    BY <2>2 DEF GateFormed, GateFields
  <2>b. spending' = [spending EXCEPT ![s] = jb] \/ spending' = [spending EXCEPT ![s] = je]
    BY <1>6, <2>2 DEF C!GateReadBudget, C!GateReadEvents
  <2>3. PICK j : /\ spending' = [spending EXCEPT ![s] = j] /\ GateFormed(j)
                 /\ j.pc \in {"gate_budgeted", "gate_counted"}
    <3> HIDE DEF jb, je
    <3> QED BY <2>a, <2>b
  <2>4. SpendingFits(j)
    BY <2>3 DEF SpendingFits
  <2> QED BY <1>3, <2>3, <2>4
<1>7. CASE C!GateVerdict(s)
  <2> DEFINE w == [spending[s] EXCEPT !.pc = "passed", !.run = C!LatestRun]
  <2>1. /\ spending[s].pc = "gate_counted"
        /\ \/ spending' = [spending EXCEPT ![s] = w] /\ C!Gate9(spending[s])
           \/ spending' = [spending EXCEPT ![s] = C!Idle]
    BY <1>7 DEF C!GateVerdict
  <2>2. CASE spending' = [spending EXCEPT ![s] = w] /\ C!Gate9(spending[s])
    <3>1. GateFormed(spending[s])
      BY <1>0, <2>1 DEF SpendingFits
    <3>2. Affordable(w)
      BY <1>0, <2>2, <3>1, PassIsAffordable
    <3>3. GateFormed(w) /\ w.pc = "passed"
      BY <3>1 DEF GateFormed, GateFields
    <3> HIDE DEF w
    <3>4. SpendingFits(w)
      BY <3>2, <3>3 DEF SpendingFits
    <3> QED BY <1>3, <2>2, <3>3, <3>4
  <2> QED BY <1>2, <1>3, <2>1, <2>2
<1>8. CASE C!Rollback(s)
  BY <1>2, <1>3, <1>8 DEF C!Rollback
<1> QED BY <1>4, <1>6, <1>7, <1>8

\* A charge is recorded.
LEMMA RecordKeeps ==
    ASSUME C!Parameters, CostInv, NEW s \in Callers,
           \/ \E ref \in Refs \cup {C!NoRef}, charge \in Charges, at \in 0..MaxCostTime :
                C!RecordInsert(s, ref, charge, at)
           \/ C!RecordCommit(s)
    PROVE  CostInv'
<1>0. BooksFit /\ SpendingsFit /\ KeysDrawn /\ SpendingFits(spending[s])
  BY DEF CostInv, SpendingsFit
<1>1. ASSUME NEW ref \in Refs \cup {C!NoRef}, NEW charge \in Charges, NEW at \in 0..MaxCostTime,
             C!RecordInsert(s, ref, charge, at)
      PROVE  CostInv'
  <2> DEFINE e == [id |-> forecastStamp + 1, ref |-> ref, component |-> charge.component,
                   amount |-> charge.amount, at |-> at]
             j == [pc |-> "recording", event |-> e]
  <2>1. /\ UNCHANGED <<clock, ledger, budget, policies, coreStatus, forecasts>>
             /\ forecastStamp < MaxForecastStamp
        /\ forecastStamp' = forecastStamp + 1 /\ spending' = [spending EXCEPT ![s] = j]
             /\ C!KeyFree(ref)
    BY <1>1 DEF C!RecordInsert
  <2>2. e \in C!CostEvent
    <3>1. forecastStamp + 1 \in 1..MaxForecastStamp
      BY <1>0, <2>1 DEF BooksFit, C!Parameters
    <3>2. charge.component \in C!COST_COMPONENTS /\ charge.amount \in Nat
      BY DEF C!Parameters
    <3> QED BY <3>1, <3>2 DEF C!CostEvent
  <2>3. e.ref = ref /\ j.pc = "recording" /\ j.event = e
    OBVIOUS
  <2> HIDE DEF e, j
  <2>4. SpendingFits(j)
    BY <2>2, <2>3 DEF SpendingFits
  <2>5. /\ spending' = [o \in Callers |-> spending'[o]]
        /\ \A o \in Callers : spending'[o] = IF o = s THEN j ELSE spending[o]
    BY <1>0, <2>1 DEF SpendingsFit
  <2>6. \A n \in 1..forecastStamp : n \in 1..forecastStamp'
    BY <1>0, <2>1 DEF BooksFit
  <2>7. SpendingsFit'
    <3>1. \A o \in Callers : SpendingFits(spending'[o])
      BY <1>0, <2>4, <2>5 DEF SpendingsFit
    <3>2. \A o \in Callers : spending'[o].pc = "inserted"
            => spending'[o].run.created_at \in 1..forecastStamp'
      BY <1>0, <2>3, <2>5, <2>6 DEF SpendingsFit
    <3>3. \A o \in Callers : spending'[o].pc \in {"scoped", "budgeted", "derived"} =>
              coreStatus'[spending'[o].core] # "none"
      BY <1>0, <2>1, <2>3, <2>5 DEF SpendingsFit
    <3> QED BY <2>5, <3>1, <3>2, <3>3 DEF SpendingsFit
  <2>8. \/ ref = C!NoRef
        \/ /\ \A f \in ledger : f.ref # ref
           /\ \A o \in Callers : spending[o].pc = "recording" => spending[o].event.ref # ref
    BY <2>1 DEF C!KeyFree, C!Recording
  <2>9. KeysDrawn'
    <3>1. C!ChargeCountsOnce'
      BY <1>0, <2>1 DEF KeysDrawn, C!ChargeCountsOnce
    <3>2. ASSUME NEW o \in Callers, spending'[o].pc = "recording", NEW f \in ledger,
                 f.ref = spending'[o].event.ref
          PROVE  f.ref = C!NoRef
      BY <1>0, <2>3, <2>5, <2>8, <3>2 DEF KeysDrawn
    <3>3. ASSUME NEW o \in Callers, NEW q \in Callers,
                 spending'[o].pc = "recording", spending'[q].pc = "recording",
                 spending'[o].event.ref = spending'[q].event.ref, spending'[o].event.ref # C!NoRef
          PROVE  o = q
      BY <1>0, <2>3, <2>5, <2>8, <3>3 DEF KeysDrawn
    <3> QED BY <2>1, <3>1, <3>2, <3>3 DEF KeysDrawn
  <2> QED BY <1>0, <2>1, <2>7, <2>9, BooksStay DEF CostInv
<1>2. CASE C!RecordCommit(s)
  <2> DEFINE e == spending[s].event
  <2>1. /\ UNCHANGED <<clock, budget, policies, coreStatus, forecasts, forecastStamp>>
        /\ spending[s].pc = "recording" /\ ledger' = ledger \cup {e}
        /\ spending' = [spending EXCEPT ![s] = C!Idle]
    BY <1>2 DEF C!RecordCommit
  <2>2. e \in C!CostEvent
    BY <1>0, <2>1 DEF SpendingFits
  <2>3. IsFiniteSet(ledger')
    <3>1. IsFiniteSet(ledger)
      BY <1>0 DEF BooksFit
    <3> HIDE DEF e
    <3> QED BY <2>1, <3>1, FS_AddElement
  <2>4. BooksFit'
    BY <1>0, <2>1, <2>2, <2>3 DEF BooksFit
  <2>5. /\ spending' = [o \in Callers |-> spending'[o]]
        /\ \A o \in Callers : spending'[o] = IF o = s THEN C!Idle ELSE spending[o]
    BY <1>0, <2>1 DEF SpendingsFit
  <2>6. SpendingFits(C!Idle) /\ C!Idle.pc = "idle"
    BY DEF SpendingFits, C!Idle
  <2>7. SpendingsFit'
    <3>1. \A o \in Callers : SpendingFits(spending'[o])
      BY <1>0, <2>6, <2>5 DEF SpendingsFit
    <3>2. \A o \in Callers : spending'[o].pc = "inserted"
            => spending'[o].run.created_at \in 1..forecastStamp'
      BY <1>0, <2>1, <2>6, <2>5 DEF SpendingsFit
    <3>3. \A o \in Callers : spending'[o].pc \in {"scoped", "budgeted", "derived"} =>
              coreStatus'[spending'[o].core] # "none"
      BY <1>0, <2>1, <2>6, <2>5 DEF SpendingsFit
    <3> QED BY <2>5, <3>1, <3>2, <3>3 DEF SpendingsFit
  <2>8. KeysDrawn'
    <3>1. C!ChargeCountsOnce'
      BY <1>0, <2>1 DEF KeysDrawn, C!ChargeCountsOnce
    <3>2. ASSUME NEW o \in Callers, spending'[o].pc = "recording", NEW f \in ledger',
                 f.ref = spending'[o].event.ref
          PROVE  f.ref = C!NoRef
      <4>1. o # s /\ spending'[o] = spending[o]
        BY <2>5, <2>6, <3>2
      <4> QED BY <1>0, <2>1, <3>2, <4>1 DEF KeysDrawn
    <3>3. ASSUME NEW o \in Callers, NEW q \in Callers,
                 spending'[o].pc = "recording", spending'[q].pc = "recording",
                 spending'[o].event.ref = spending'[q].event.ref, spending'[o].event.ref # C!NoRef
          PROVE  o = q
      BY <1>0, <2>5, <2>6, <3>3 DEF KeysDrawn
    <3> QED BY <3>1, <3>2, <3>3 DEF KeysDrawn
  <2> QED BY <2>4, <2>7, <2>8 DEF CostInv
<1> QED BY <1>1, <1>2

\* Money, policies, candidates and time go on.
LEMMA WorldKeeps ==
    ASSUME C!Parameters, CostInv,
           \/ \E b \in Budgets : C!Upsert(b)
           \/ \E p \in CostPolicies : C!RecordPolicy(p)
           \/ \E c \in C!Cores : C!FreezeCore(c) \/ C!RetireCore(c)
           \/ C!Tick
    PROVE  CostInv'
<1>0. BooksFit /\ SpendingsFit /\ KeysDrawn
  BY DEF CostInv
<1>1. UNCHANGED <<ledger, forecasts, forecastStamp, spending>>
  BY DEF C!Upsert, C!RecordPolicy, C!FreezeCore, C!RetireCore, C!Tick
<1>2. clock' \in 0..MaxCostTime
  BY <1>0 DEF C!Upsert, C!RecordPolicy, C!FreezeCore, C!RetireCore, C!Tick, BooksFit, C!Parameters
<1>3. budget' \in C!BudgetRow \cup {C!NoBudget}
  BY <1>0 DEF C!Upsert, C!RecordPolicy, C!FreezeCore, C!RetireCore, C!Tick, BooksFit, C!Parameters
<1>4. policies' \in Seq(C!StructuredCostPolicy)
  BY <1>0 DEF C!Upsert, C!RecordPolicy, C!FreezeCore, C!RetireCore, C!Tick, BooksFit,
              C!parse_structured_policy
<1>5. /\ coreStatus' \in [C!Cores -> {"none", "frozen", "retired"}]
      /\ \A c \in C!Cores : coreStatus[c] # "none" => coreStatus'[c] # "none"
  BY <1>0 DEF C!Upsert, C!RecordPolicy, C!FreezeCore, C!RetireCore, C!Tick, BooksFit
<1>6. BooksFit'
  BY <1>0, <1>1, <1>2, <1>3, <1>4, <1>5 DEF BooksFit
<1>7. \A s \in Callers : spending[s].pc \in {"scoped", "budgeted", "derived"} =>
          spending[s].core \in C!Cores
  BY <1>0 DEF SpendingsFit, SpendingFits
<1>8. SpendingsFit'
  BY <1>0, <1>1, <1>5, <1>7 DEF SpendingsFit
<1>9. KeysDrawn'
  BY <1>0, <1>1 DEF KeysDrawn, C!ChargeCountsOnce
<1> QED BY <1>6, <1>8, <1>9 DEF CostInv

\* Spending begins in its invariant.
LEMMA CostsBegin == ASSUME C!Parameters, C!Init PROVE CostInv
<1>1. BooksFit
  BY FS_EmptySet DEF C!Init, BooksFit, C!Parameters
<1>2. spending = [s \in Callers |-> C!Idle] /\ SpendingFits(C!Idle) /\ C!Idle.pc = "idle"
  BY DEF C!Init, SpendingFits, C!Idle
<1>3. spending = [s \in Callers |-> spending[s]] /\ \A s \in Callers : spending[s] = C!Idle
  BY <1>2
<1>4. SpendingsFit
  BY <1>2, <1>3 DEF SpendingsFit
<1>5. KeysDrawn
  BY <1>2, <1>3 DEF C!Init, KeysDrawn, C!ChargeCountsOnce
<1> QED BY <1>1, <1>4, <1>5 DEF CostInv

\* Every step of spending keeps its invariant.
LEMMA CostsGoOn == ASSUME C!Parameters, CostInv, [C!Next]_C!vars PROVE CostInv'
<1>1. CASE UNCHANGED C!vars
  <2>1. UNCHANGED <<clock, ledger, budget, policies, coreStatus, forecasts, forecastStamp,
          spending>>
    BY <1>1 DEF C!vars
  <2> QED BY <2>1 DEF CostInv, BooksFit, SpendingsFit, KeysDrawn, C!ChargeCountsOnce
<1>2. CASE C!Next
  BY <1>2, GenerateKeeps, ForecastCommitKeeps, GateKeeps, RecordKeeps, WorldKeeps DEF C!Next
<1> QED BY <1>1, <1>2

\* What the invariant says of charges and gates.
LEMMA CostsStand ==
    ASSUME CostInv PROVE C!TypeOK /\ C!ChargeCountsOnce /\ C!PassedGateIsAffordable
<1>1. C!TypeOK
  <2>1. \A r \in forecasts : r.outcome \in {"succeeded", "refused"}
          /\ r.created_at \in 1..forecastStamp
    BY DEF CostInv, BooksFit, RowFits
  <2>2. \A s \in Callers : spending[s].pc \in
           {"idle", "recording", "scoped", "budgeted", "derived", "inserted", "aborted",
            "gate_scoped", "gate_budgeted", "gate_counted", "passed"}
    BY DEF CostInv, SpendingsFit, SpendingFits
  <2>3. \A i \in DOMAIN policies : policies[i] \in C!StructuredCostPolicy
    BY DEF CostInv, BooksFit
  <2> QED BY <2>1, <2>2, <2>3 DEF C!TypeOK, CostInv, BooksFit
<1>2. C!ChargeCountsOnce
  BY DEF CostInv, KeysDrawn
<1>3. C!PassedGateIsAffordable
  <2>1. \A s \in Callers : spending[s].pc = "passed" => Affordable(spending[s])
    BY DEF CostInv, SpendingsFit, SpendingFits
  <2> QED BY <2>1 DEF C!PassedGateIsAffordable, Affordable
<1> QED BY <1>1, <1>2, <1>3

\* Every limit of a dimension is positive.
LEMMA LimitsPositive ==
    ASSUME NEW v, InputsFit(v) PROVE \A d \in C!Dimensions(v) : d.limit \in Nat \ {0}
<1>1. /\ v.budget.total \in Nat \ {0} /\ v.budget.daily \in Nat \ {0}
      /\ v.policy.model_total \in Nat \ {0} /\ v.policy.model_daily \in Nat \ {0}
      /\ v.policy.cloud_total \in Nat \ {0} /\ v.policy.ci_daily \in Nat \ {0}
  BY PolicyColumns DEF InputsFit, C!BudgetRow, C!NoCap, C!Positive
<1> QED BY <1>1 DEF C!Dimensions

\* What may explain that a session's attempt left no row.
Explained(v) ==
    \/ ~C!Positive(v.budget)
    \/ \E d \in v.dims : C!Utilization(d) > C!MaxUtilization
    \/ v.budget # budget \/ v.events # ledger
    \/ \E c \in C!Cores : coreStatus[c] = "retired"

\* A refusal aborts on a budget with a zero cap only.
LEMMA RefusalExplained ==
    ASSUME spending = [o \in Callers |-> spending[o]], NEW s \in Callers, NEW b, NEW reason,
           C!Refuse(s, b, reason), spending'[s].pc = "aborted"
    PROVE  Explained(spending'[s])
<1> DEFINE run == C!Refusal(b, reason)
           j == IF C!BoundsCheck(run) THEN [pc |-> "inserted", run |-> run]
                ELSE [pc |-> "aborted", budget |-> b, events |-> ledger, dims |-> {}]
<1>1. spending'[s] = j
  BY DEF C!Refuse
<1>2. run.outcome = "refused" /\ run.budget = b
  BY DEF C!Refusal
<1> HIDE DEF run
<1>3. ~C!BoundsCheck(run) /\ j.budget = b
  BY <1>1
<1>4. ~C!Positive(b)
  BY <1>2, <1>3 DEF C!BoundsCheck
<1> QED BY <1>1, <1>3, <1>4 DEF Explained

\* An insert aborts on a scope or a budget that moved, or on a utilization its
\* column cannot hold.
LEMMA InsertExplained ==
    ASSUME BooksFit, SpendingsFit, NEW s \in Callers, C!GenerateInsert(s),
           spending'[s].pc = "aborted"
    PROVE  Explained(spending'[s])
<1> DEFINE v == spending[s]
<1>0. v.pc = "derived" /\ spending = [o \in Callers |-> spending[o]]
  BY DEF C!GenerateInsert, SpendingsFit
<1>1. v.core \in C!Cores /\ coreStatus[v.core] # "none" /\ InputsFit(v)
  BY <1>0 DEF SpendingsFit, SpendingFits
<1>2. ~(C!RunGuard(v) /\ \A d \in C!Dimensions(v) : C!Utilization(d) <= C!MaxUtilization)
  BY <1>0 DEF C!GenerateInsert
<1>3. spending'[s] = C!Aborted(v)
  BY <1>0, <1>2 DEF C!GenerateInsert
<1>4. /\ C!Aborted(v).budget = v.budget /\ C!Aborted(v).events = v.events
      /\ C!Aborted(v).dims = C!Dimensions(v)
  BY DEF C!Aborted
<1>5. CASE ~C!RunGuard(v)
  <2>1. coreStatus[v.core] = "retired" \/ v.budget # budget
    BY <1>1, <1>5 DEF C!RunGuard, BooksFit
  <2> QED BY <1>1, <1>3, <1>4, <2>1 DEF Explained
<1>6. CASE \E d \in C!Dimensions(v) : ~(C!Utilization(d) <= C!MaxUtilization)
  <2>1. PICK d \in C!Dimensions(v) : ~(C!Utilization(d) <= C!MaxUtilization)
    BY <1>6
  <2>2. d.value \in Int /\ d.limit \in Nat \ {0}
    BY <1>1, DimensionsTyped, LimitsPositive
  <2>3. C!Utilization(d) \in Int
    <3>1. 2 * d.limit \in Nat \ {0} /\ 2 * C!Whole * d.value + d.limit \in Int
      BY <2>2 DEF C!Whole
    <3>2. \A m \in Int, n \in Nat \ {0} : m \div n \in Int
      OBVIOUS
    <3> QED BY <3>1, <3>2 DEF C!Utilization
  <2>4. C!Utilization(d) > C!MaxUtilization
    BY <2>1, <2>3 DEF C!MaxUtilization, C!Whole
  <2> QED BY <1>3, <1>4, <2>4 DEF Explained
<1> QED BY <1>2, <1>5, <1>6

\* A commit aborts on a ledger that moved: the derivations agree.
LEMMA CommitExplained ==
    ASSUME BooksFit, SpendingsFit, NEW s \in Callers, C!GenerateCommit(s),
           spending'[s].pc = "aborted"
    PROVE  Explained(spending'[s])
<1> DEFINE run == spending[s].run
<1>0. spending[s].pc = "inserted" /\ spending = [o \in Callers |-> spending[o]]
  BY DEF C!GenerateCommit, SpendingsFit
<1>1. RowFits(run)
  BY <1>0 DEF SpendingsFit, SpendingFits
<1>2. C!Idle.pc = "idle"
  BY DEF C!Idle
<1>3. run.outcome = "succeeded" /\ ~(C!SourceInventory(run) /\ C!Verified(run))
  BY <1>0, <1>2 DEF C!GenerateCommit
<1>4. spending'[s] = C!Aborted(run.inputs)
  BY <1>0, <1>3 DEF C!GenerateCommit
<1>5. run.inputs.events # ledger
  BY <1>1, <1>3, DerivationsAgree DEF C!SourceInventory, C!Cardinality
<1>6. C!Aborted(run.inputs).events = run.inputs.events
  BY DEF C!Aborted
<1> QED BY <1>4, <1>5, <1>6 DEF Explained

\* Every attempt that leaves no row is explained.
LEMMA AttemptsExplained ==
    ASSUME C!Parameters, CostInv, [C!Next]_C!vars PROVE C!AttemptStep
<1>0. BooksFit /\ SpendingsFit
  BY DEF CostInv
<1>1. spending = [o \in Callers |-> spending[o]]
  BY <1>0 DEF SpendingsFit
<1>2. ASSUME NEW s \in Callers, spending'[s].pc = "aborted", spending[s].pc # "aborted"
      PROVE  Explained(spending'[s])
  <2>1. C!Next /\ spending' # spending
    BY <1>2 DEF C!vars
  <2>2. PICK o \in Callers :
          \/ \E ref \in Refs \cup {C!NoRef}, charge \in Charges, at \in 0..MaxCostTime :
                 C!RecordInsert(o, ref, charge, at)
          \/ C!RecordCommit(o) \/ C!Rollback(o)
          \/ \E plan \in Plans : C!GenerateBegin(o, plan)
          \/ C!GenerateReadBudget(o) \/ C!GenerateReadEvents(o)
          \/ C!GenerateInsert(o) \/ C!GenerateCommit(o)
          \/ C!GateBegin(o) \/ C!GateReadBudget(o) \/ C!GateReadEvents(o) \/ C!GateVerdict(o)
    BY <2>1 DEF C!Next, C!Upsert, C!RecordPolicy, C!FreezeCore, C!RetireCore, C!Tick
  <2>4. o = s
    <3>1. ASSUME o # s PROVE spending'[s] = spending[s]
      <4>1. CASE \/ \E ref \in Refs \cup {C!NoRef}, charge \in Charges, at \in 0..MaxCostTime :
                   C!RecordInsert(o, ref, charge, at)
                 \/ C!RecordCommit(o) \/ C!Rollback(o) \/ C!GateVerdict(o) \/ C!GateBegin(o)
        BY <1>1, <3>1, <4>1 DEF C!RecordInsert, C!RecordCommit, C!Rollback, C!GateBegin,
                                C!GateVerdict
      <4>2. CASE \/ \E plan \in Plans : C!GenerateBegin(o, plan)
                 \/ C!GenerateReadBudget(o) \/ C!GenerateReadEvents(o)
        BY <1>1, <3>1, <4>2 DEF C!GenerateBegin, C!GenerateReadBudget, C!GenerateReadEvents,
                                C!Refuse
      <4>3. CASE C!GenerateInsert(o) \/ C!GenerateCommit(o)
        BY <1>1, <3>1, <4>3 DEF C!GenerateInsert, C!GenerateCommit
      <4>4. CASE C!GateReadBudget(o) \/ C!GateReadEvents(o)
        BY <1>1, <3>1, <4>4 DEF C!GateReadBudget, C!GateReadEvents
      <4> QED BY <2>2, <4>1, <4>2, <4>3, <4>4
    <3> QED BY <1>2, <3>1
  <2>5. CASE \/ \E plan \in Plans : C!GenerateBegin(o, plan)
             \/ C!GenerateReadBudget(o) \/ C!GenerateReadEvents(o)
    <3>1. \/ \E b, reason : C!Refuse(s, b, reason)
          \/ spending'[s].pc \in {"scoped", "budgeted", "derived"}
      <4>1. CASE \E plan \in Plans : C!GenerateBegin(o, plan)
        BY <1>1, <2>4, <4>1 DEF C!GenerateBegin
      <4>2. CASE C!GenerateReadBudget(o)
        <5>1. ForecastFormed(spending[s])
          BY <1>0, <2>4, <4>2 DEF C!GenerateReadBudget, SpendingsFit, SpendingFits
        <5> QED BY <1>1, <2>4, <4>2, <5>1 DEF C!GenerateReadBudget, ForecastFormed, ForecastFields
      <4>3. CASE C!GenerateReadEvents(o)
        <5>1. ForecastFormed(spending[s])
          BY <1>0, <2>4, <4>3 DEF C!GenerateReadEvents, SpendingsFit, SpendingFits
        <5> QED BY <1>1, <2>4, <4>3, <5>1 DEF C!GenerateReadEvents, ForecastFormed, ForecastFields
      <4> QED BY <2>5, <4>1, <4>2, <4>3
    <3> QED BY <1>1, <1>2, <3>1, RefusalExplained
  <2>6. CASE C!GenerateInsert(o)
    BY <1>0, <1>2, <2>4, <2>6, InsertExplained
  <2>7. CASE C!GenerateCommit(o)
    BY <1>0, <1>2, <2>4, <2>7, CommitExplained
  <2>8. CASE \/ \E ref \in Refs \cup {C!NoRef}, charge \in Charges, at \in 0..MaxCostTime :
                 C!RecordInsert(o, ref, charge, at)
             \/ C!RecordCommit(o) \/ C!Rollback(o)
             \/ C!GateBegin(o) \/ C!GateReadBudget(o) \/ C!GateReadEvents(o) \/ C!GateVerdict(o)
    <3>1. C!Idle.pc = "idle"
      BY DEF C!Idle
    <3>2. CASE \/ \E ref \in Refs \cup {C!NoRef}, charge \in Charges, at \in 0..MaxCostTime :
                   C!RecordInsert(o, ref, charge, at)
               \/ C!RecordCommit(o) \/ C!Rollback(o) \/ C!GateBegin(o)
      BY <1>1, <1>2, <2>4, <3>1, <3>2 DEF C!RecordInsert, C!RecordCommit, C!Rollback, C!GateBegin
    <3>3. CASE C!GateReadBudget(o) \/ C!GateReadEvents(o) \/ C!GateVerdict(o)
      <4>1. GateFormed(spending[s])
        BY <1>0, <2>4, <3>3 DEF C!GateReadBudget, C!GateReadEvents, C!GateVerdict, SpendingsFit,
                                SpendingFits
      <4>2. CASE C!GateReadBudget(o)
        BY <1>1, <1>2, <2>4, <4>1, <4>2 DEF C!GateReadBudget, GateFormed, GateFields
      <4>3. CASE C!GateReadEvents(o)
        BY <1>1, <1>2, <2>4, <4>1, <4>3 DEF C!GateReadEvents, GateFormed, GateFields
      <4>4. CASE C!GateVerdict(o)
        BY <1>1, <1>2, <2>4, <3>1, <4>1, <4>4 DEF C!GateVerdict, GateFormed, GateFields
      <4> QED BY <3>3, <4>2, <4>3, <4>4
    <3> QED BY <2>8, <3>2, <3>3
  <2> QED BY <2>2, <2>5, <2>6, <2>7, <2>8
<1> QED BY <1>2 DEF C!AttemptStep, Explained

-----------------------------------------------------------------------------
(* Signal collection.                                                        *)

\* A collection has its six fields.
Formed(c) ==
    \E g, k, q, t, n, v : c = [stage |-> g, key |-> k, request |-> q, as_of |-> t,
                               attempt |-> n, seen |-> v]

\* Every collection written out as a record is formed.
LEMMA Forms ==
    ASSUME NEW g, NEW k, NEW q, NEW t, NEW n, NEW v
    PROVE  Formed([stage |-> g, key |-> k, request |-> q, as_of |-> t, attempt |-> n, seen |-> v])
BY Zenon DEF Formed

\* A collection in flight: the samples it was given parse, its snapshot is made
\* of recorded charges, and a second attempt sees the winner of its key.
CollectionFits(c) ==
    /\ Formed(c)
    /\ c.stage \in {"idle", "reading"} /\ c.attempt \in 0..2
    /\ c.stage = "reading" =>
         /\ c.key \in SignalKeys /\ c.request \in SampleLists /\ S!parse_samples(c.request)
         /\ c.as_of \in 0..MaxTick
         /\ c.attempt = 1 \/ \E r \in c.seen.runs : r.key = c.key
         /\ c.seen.ledger \subseteq LedgerCharges /\ IsFiniteSet(c.seen.ledger)
         /\ c.seen.budget \in LedgerBudgets \cup {S!NoBudget}

\* Every session holds a fitting collection.
CollectionsFit ==
    /\ collecting = [s \in Callers |-> collecting[s]]
    /\ \A s \in Callers : CollectionFits(collecting[s])

\* The ledgers and the recorded collections have their types.
LedgersFit ==
    /\ tick \in 0..MaxTick
    /\ charged \subseteq LedgerCharges /\ IsFiniteSet(charged)
    /\ \A f \in failed : f.run \in FailedRuns /\ f.at \in 0..MaxTick
    /\ caps \in LedgerBudgets \cup {S!NoBudget}
    /\ \A r \in observations : r.key \in SignalKeys /\ r.request \in SampleLists

\* What a collection keeps.
SignalsInv == LedgersFit /\ CollectionsFit

\* What a collection computes passes the checks of migration 0055.
LEMMA SpendTyped ==
    ASSUME S!Parameters, NEW entries \in SUBSET LedgerCharges, IsFiniteSet(entries), NEW as_of
    PROVE  /\ S!cost_spend_as_of(entries, as_of).total \in Int
           /\ S!cost_spend_as_of(entries, as_of).daily \in Int
<1> DEFINE all == {e \in entries : S!cost_event_in_total(e, as_of)}
           day == {e \in entries : S!cost_event_in_daily(e, as_of)}
<1>1. all \in SUBSET entries /\ day \in SUBSET entries
  OBVIOUS
<1> HIDE DEF all, day
<1>2. IsFiniteSet(all) /\ IsFiniteSet(day)
  BY <1>1, FS_Subset
<1>3. \A e \in entries : Amt(e) \in Int
  BY DEF S!Parameters, Amt
<1>4. MapThenSumSet(Amt, all) \in Int /\ MapThenSumSet(Amt, day) \in Int
  BY <1>1, <1>2, <1>3, SumTyped
<1>5. S!cost_spend_as_of(entries, as_of) =
        [total |-> MapThenSumSet(Amt, all), daily |-> MapThenSumSet(Amt, day)]
  BY DEF S!cost_spend_as_of, S!MapThenSumSet, S!MapThenFoldSet, MapThenSumSet, MapThenFoldSet,
         Amt, all, day
<1> QED BY <1>4, <1>5

\* The row of cost_anomalies passes the checks of its class.
LEMMA CostRowFits ==
    ASSUME S!Parameters, NEW spend, spend.total \in Int, spend.daily \in Int,
           NEW b \in LedgerBudgets \cup {S!NoBudget}, NEW as_of \in 0..MaxTick
    PROVE  LET r == S!cost_anomalies_row(spend, b, as_of)
           IN  /\ S!CostShape(r) /\ r.status = "observed" /\ r.start = -1 /\ r.end = as_of
               /\ S!CallerShape(r)
<1> DEFINE r == S!cost_anomalies_row(spend, b, as_of)
           stop == S!stop_decision_for_snapshot(spend, b)
<1>1. b.present \in BOOLEAN /\ b.total \in Int /\ b.daily \in Int
  <2>1. CASE b \in LedgerBudgets
    BY <2>1 DEF S!Parameters
  <2>2. CASE b = S!NoBudget
    <3>1. b.present = FALSE /\ b.total = 0 /\ b.daily = -1
      BY <2>2 DEF S!NoBudget
    <3>2. b.present \in BOOLEAN
      BY <3>1
    <3>3. b.total \in Int /\ b.daily \in Int
      BY <3>1
    <3> QED BY <3>2, <3>3
  <2> QED BY <2>1, <2>2
<1>2. /\ r.status = "observed" /\ r.start = -1 /\ r.end = as_of
      /\ r.metric = spend.total /\ r.daily = spend.daily
      /\ r.threshold = b.total /\ r.cap = b.daily
      /\ r.reason = CASE stop = "no_budget" -> "cost_no_budget"
                      [] stop = "budget_exceeded" -> "cost_budget_exceeded"
                      [] stop = "daily_budget_exceeded" -> "cost_daily_budget_exceeded"
                      [] OTHER -> "cost_within_budget"
      /\ r.state = CASE stop = "no_budget" -> "not_evaluable"
                     [] stop = "none" -> "ok"
                     [] OTHER -> "breached"
  BY DEF S!cost_anomalies_row
<1>3. \/ stop = "no_budget"
      \/ stop = "budget_exceeded" /\ spend.total >= b.total
      \/ /\ stop = "daily_budget_exceeded" /\ spend.total < b.total
         /\ b.daily # -1 /\ spend.daily >= b.daily
      \/ /\ stop = "none" /\ spend.total < b.total
         /\ b.daily # -1 => spend.daily < b.daily
  BY <1>1 DEF S!stop_decision_for_snapshot
<1> HIDE DEF r, stop
<1>4. \/ r.reason = "cost_no_budget" /\ r.state = "not_evaluable"
      \/ r.reason = "cost_budget_exceeded" /\ r.state = "breached" /\ r.metric >= r.threshold
      \/ /\ r.reason = "cost_daily_budget_exceeded" /\ r.state = "breached"
         /\ r.metric < r.threshold /\ r.cap # -1 /\ r.daily >= r.cap
      \/ /\ r.reason = "cost_within_budget" /\ r.state = "ok" /\ r.metric < r.threshold
         /\ r.cap # -1 => r.daily < r.cap
  <2>1. CASE stop = "no_budget"
    BY <1>2, <2>1
  <2>2. CASE stop = "budget_exceeded"
    BY <1>2, <1>3, <2>2
  <2>3. CASE stop = "daily_budget_exceeded"
    BY <1>2, <1>3, <2>3
  <2>4. CASE stop = "none"
    BY <1>2, <1>3, <2>4
  <2> QED BY <1>3, <2>1, <2>2, <2>3, <2>4
<1>5. S!CostShape(r)
  BY <1>4 DEF S!CostShape
<1> QED BY <1>2, <1>5 DEF r, S!CallerShape

\* The row of a caller-supplied sample passes the checks of its class.
LEMMA SampleRowFits ==
    ASSUME NEW x, x.metric \in Int, x.threshold \in Int, NEW as_of, S!SampleWindowValid(x, as_of)
    PROVE  LET r == S!evaluate_caller_threshold(x)
           IN  S!CallerShape(r) /\ S!WindowGuard(r, as_of)
               /\ r.status = "caller_supplied_unverified"
<1> DEFINE r == S!evaluate_caller_threshold(x)
<1>1. /\ r.status = "caller_supplied_unverified" /\ r.metric = x.metric
      /\ r.threshold = x.threshold /\ r.start = x.start /\ r.end = x.end
      /\ \/ r.state = "breached" /\ r.reason = "caller_threshold_breached" /\ x.metric > x.threshold
         \/ r.state = "ok" /\ r.reason = "caller_threshold_ok" /\ x.metric <= x.threshold
  BY DEF S!evaluate_caller_threshold
<1> HIDE DEF r
<1>2. S!CallerShape(r)
  BY <1>1 DEF S!CallerShape
<1>3. S!WindowGuard(r, as_of)
  BY <1>1 DEF S!WindowGuard, S!SampleWindowValid
<1> QED BY <1>1, <1>2, <1>3 DEF r

\* The eleven rows of a collection that is ready to insert.
LEMMA AssessedFits ==
    ASSUME S!Parameters, SignalsInv, NEW s \in Callers, S!Ready(s) PROVE S!Insertable(S!Assessed(s))
<1> DEFINE run == S!Assessed(s)
           rows == run.rows
           seen == collecting[s].seen
           as_of == collecting[s].as_of
           samples == collecting[s].request
           spend == S!cost_spend_as_of(seen.ledger, as_of)
<1>1. /\ samples \in SampleLists /\ S!parse_samples(samples) /\ as_of \in 0..MaxTick
      /\ seen.ledger \in SUBSET LedgerCharges /\ IsFiniteSet(seen.ledger)
      /\ seen.budget \in LedgerBudgets \cup {S!NoBudget}
      /\ \A x \in samples : S!SampleWindowValid(x, as_of)
  BY DEF S!Ready, S!NotReplayed, SignalsInv, CollectionsFit, CollectionFits
<1> DEFINE base(c) ==
      CASE c = "job_failures" ->
             S!job_failures_row(S!failed_run_ids_as_of(seen.failed, as_of), as_of)
        [] c = "cost_anomalies" -> S!cost_anomalies_row(spend, seen.budget, as_of)
        [] OTHER -> S!not_observed_row(c)
<1>2. /\ run.as_of = as_of /\ run.counters = S!compute_counters(rows)
      /\ rows = [c \in S!SIGNAL_CLASSES |->
                   IF \E x \in samples : x.class = c
                     THEN S!evaluate_caller_threshold(CHOOSE x \in samples : x.class = c)
                     ELSE [d \in S!SIGNAL_CLASSES |-> base(d)][c]]
  BY Zenon DEF S!Assessed, S!build_assessment, S!merge_samples
<1>3. ASSUME NEW c \in S!SIGNAL_CLASSES
      PROVE  rows[c] = IF \E x \in samples : x.class = c
                         THEN S!evaluate_caller_threshold(CHOOSE x \in samples : x.class = c)
                         ELSE base(c)
  BY <1>2
<1>4. /\ spend.total \in Int /\ spend.daily \in Int
  BY <1>1, SpendTyped
<1>5. DOMAIN rows = S!SIGNAL_CLASSES
  BY <1>2
<1> HIDE DEF run, rows, spend, samples
<1>6. ASSUME NEW c \in S!SIGNAL_CLASSES
      PROVE  /\ S!CallerShape(rows[c]) /\ S!ClassShape(c, rows[c]) /\ S!WindowGuard(rows[c], as_of)
             /\ c = "cost_anomalies" => S!CostShape(rows[c])
  <2>1. CASE \E x \in samples : x.class = c
    <3>1. PICK x \in samples : x.class = c /\ rows[c] = S!evaluate_caller_threshold(x)
      BY <1>3, <2>1
    <3>2. x.metric \in Int /\ x.threshold \in Int /\ S!SampleWindowValid(x, as_of)
          /\ c \in S!ALLOWED_SAMPLE_CLASSES
      BY <1>1, <3>1 DEF S!Parameters, S!parse_samples
    <3>3. S!CallerShape(rows[c]) /\ S!WindowGuard(rows[c], as_of)
          /\ rows[c].status = "caller_supplied_unverified"
      BY <3>1, <3>2, SampleRowFits
    <3> QED BY <3>2, <3>3 DEF S!ClassShape, S!ALLOWED_SAMPLE_CLASSES, S!STRUCTURALLY_UNOBSERVED,
                              S!LEDGER_CLASSES
  <2>2. CASE ~ \E x \in samples : x.class = c
    <3>1. CASE c = "job_failures"
      <4>1. rows[c] = S!job_failures_row(S!failed_run_ids_as_of(seen.failed, as_of), as_of)
        BY <1>3, <2>2, <3>1
      <4>2. /\ rows[c].status = "observed" /\ rows[c].start = -1 /\ rows[c].end = as_of
        BY <4>1 DEF S!job_failures_row
      <4>3. as_of <= as_of /\ as_of # -1
        BY <1>1
      <4> QED BY <3>1, <4>2, <4>3 DEF S!CallerShape, S!ClassShape, S!WindowGuard,
                                      S!ALLOWED_SAMPLE_CLASSES, S!STRUCTURALLY_UNOBSERVED,
                                      S!LEDGER_CLASSES
    <3>2. CASE c = "cost_anomalies"
      <4>1. rows[c] = S!cost_anomalies_row(spend, seen.budget, as_of)
        BY <1>3, <2>2, <3>2
      <4>2. /\ rows[c].status = "observed" /\ rows[c].start = -1 /\ rows[c].end = as_of
            /\ S!CallerShape(rows[c]) /\ S!CostShape(rows[c])
        BY <1>1, <1>4, <4>1, CostRowFits
      <4>3. as_of <= as_of /\ as_of # -1
        BY <1>1
      <4> QED BY <3>2, <4>2, <4>3 DEF S!ClassShape, S!WindowGuard, S!ALLOWED_SAMPLE_CLASSES,
                                      S!STRUCTURALLY_UNOBSERVED, S!LEDGER_CLASSES
    <3>3. CASE c \notin {"job_failures", "cost_anomalies"}
      <4>1. rows[c] = S!not_observed_row(c)
        BY <1>3, <2>2, <3>3
      <4>2. /\ rows[c].status = "not_observed" /\ rows[c].start = -1 /\ rows[c].end = -1
            /\ rows[c].state = "not_evaluable"
        BY <4>1 DEF S!not_observed_row
      <4> QED BY <3>3, <4>2 DEF S!CallerShape, S!ClassShape, S!WindowGuard,
                                S!ALLOWED_SAMPLE_CLASSES, S!STRUCTURALLY_UNOBSERVED,
                                S!LEDGER_CLASSES
    <3> QED BY <3>1, <3>2, <3>3
  <2> QED BY <2>1, <2>2
<1>7. "cost_anomalies" \in S!SIGNAL_CLASSES
  BY DEF S!SIGNAL_CLASSES
<1>8. S!CountMatch(run)
  BY <1>2, <1>5 DEF S!CountMatch, rows
<1>9. S!Insertable(run)
  BY <1>2, <1>6, <1>7, <1>8 DEF S!Insertable, rows
<1> QED BY <1>9 DEF run

\* One collection moves, or none does.
LEMMA CollectionSet ==
    ASSUME CollectionsFit, NEW s \in Callers, NEW c, CollectionFits(c),
           collecting' = [collecting EXCEPT ![s] = c]
    PROVE  CollectionsFit'
<1>1. /\ collecting' = [o \in Callers |-> collecting'[o]]
      /\ \A o \in Callers : collecting'[o] = IF o = s THEN c ELSE collecting[o]
  BY DEF CollectionsFit
<1>2. \A o \in Callers : CollectionFits(collecting'[o])
  BY <1>1 DEF CollectionsFit
<1>3. (\A o \in Callers : CollectionFits(collecting[o]))'
  BY <1>2 DEF CollectionFits, Formed, S!parse_samples
<1> QED BY <1>1, <1>3 DEF CollectionsFit

\* A session that collects nothing fits.
LEMMA IdleCollectionFits == CollectionFits(S!Idle)
<1>1. S!Idle.stage = "idle" /\ S!Idle.attempt = 0
  BY DEF S!Idle
<1>2. Formed(S!Idle)
  BY Forms DEF S!Idle
<1> QED BY <1>1, <1>2 DEF CollectionFits

\* Every step leaves every session with a fitting collection.
LEMMA CollectionsKeep == ASSUME S!Parameters, SignalsInv, S!Next PROVE CollectionsFit'
<1>1. LedgersFit /\ CollectionsFit /\ \A s \in Callers : CollectionFits(collecting[s])
  BY DEF SignalsInv, CollectionsFit
<1>2. ASSUME NEW s \in Callers, NEW k \in SignalKeys, NEW samples \in SampleLists,
               S!Begin(s, k, samples)
      PROVE  CollectionsFit'
  <2> DEFINE c == [stage |-> "reading", key |-> k, request |-> samples, as_of |-> tick,
                   attempt |-> 1, seen |-> S!Committed]
  <2>1. collecting' = [collecting EXCEPT ![s] = c] /\ S!parse_samples(samples)
    BY <1>2 DEF S!Begin
  <2>3. Formed(c)
    BY Forms
  <2>2. CollectionFits(c)
    BY <1>1, <2>1, <2>3 DEF CollectionFits, LedgersFit, S!Committed
  <2> HIDE DEF c
  <2> QED BY <1>1, <2>1, <2>2, CollectionSet
<1>3. ASSUME NEW s \in Callers, S!Replay(s) \/ S!RefuseWindow(s) \/ S!Record(s)
      PROVE  CollectionsFit'
  BY <1>1, <1>3, IdleCollectionFits, CollectionSet DEF S!Replay, S!RefuseWindow, S!Record, S!Settle
<1>4. ASSUME NEW s \in Callers, S!Collide(s) PROVE CollectionsFit'
  <2> DEFINE c == S!Retried(s)
  <2>1. /\ collecting' = [collecting EXCEPT ![s] = c] /\ collecting[s].stage = "reading"
        /\ \E r \in observations : r.key = collecting[s].key
        /\ ~ \E r \in collecting[s].seen.runs : r.key = collecting[s].key
    BY <1>4 DEF S!Collide, S!Ready, S!NotReplayed, S!KeyFree
  <2>2. collecting[s].attempt = 1
    BY <1>1, <2>1 DEF CollectionFits
  <2>3. c = [stage |-> "reading", key |-> collecting[s].key, request |-> collecting[s].request,
             as_of |-> tick, attempt |-> 2, seen |-> S!Committed]
    <3>1. PICK g, k, q, t, n, v :
            collecting[s] = [stage |-> g, key |-> k, request |-> q, as_of |-> t,
                          attempt |-> n, seen |-> v]
      BY <1>1 DEF CollectionFits, Formed
    <3>2. g = "reading" /\ n = 1 /\ k = collecting[s].key /\ q = collecting[s].request
      BY <2>1, <2>2, <3>1
    <3> DEFINE r == [stage |-> g, key |-> k, request |-> q, as_of |-> t, attempt |-> n,
                     seen |-> v]
    <3>3. c = [r EXCEPT !.attempt = @ + 1, !.as_of = tick, !.seen = S!Committed]
      BY <3>1 DEF S!Retried
    <3>4. c = [stage |-> g, key |-> k, request |-> q, as_of |-> tick, attempt |-> n + 1,
               seen |-> S!Committed]
      BY <3>3
    <3> HIDE DEF c
    <3>5. n + 1 = 2
      BY <3>2
    <3> QED BY <3>2, <3>4, <3>5
  <2>5. /\ collecting[s].key \in SignalKeys /\ collecting[s].request \in SampleLists
        /\ S!parse_samples(collecting[s].request)
    BY <1>1, <2>1 DEF CollectionFits
  <2>6. /\ c.stage = "reading" /\ c.key = collecting[s].key /\ c.request = collecting[s].request
        /\ c.as_of = tick /\ c.attempt = 2 /\ c.seen.runs = observations /\ c.seen.ledger = charged
        /\ c.seen.budget = caps
    BY <2>3 DEF S!Committed
  <2>7. Formed(c)
    BY <2>3, Forms
  <2>4. CollectionFits(c)
    BY <1>1, <2>1, <2>5, <2>6, <2>7 DEF CollectionFits, LedgersFit
  <2> HIDE DEF c
  <2> QED BY <1>1, <2>1, <2>4, CollectionSet
<1>5. ASSUME UNCHANGED collecting PROVE CollectionsFit'
  BY <1>1, <1>5 DEF CollectionsFit
<1>6. ASSUME \/ \E e \in LedgerCharges : S!RecordCharge(e)
             \/ \E r \in FailedRuns : S!RecordFailure(r)
             \/ \E b \in LedgerBudgets : S!SetBudget(b)
             \/ S!Tick
      PROVE  UNCHANGED collecting
  BY <1>6 DEF S!RecordCharge, S!RecordFailure, S!SetBudget, S!Tick
<1> QED BY <1>2, <1>3, <1>4, <1>5, <1>6 DEF S!Next

\* Every step keeps the types of the ledgers.
LEMMA LedgersKeep == ASSUME S!Parameters, SignalsInv, S!Next PROVE LedgersFit'
<1>1. LedgersFit /\ CollectionsFit /\ \A s \in Callers : CollectionFits(collecting[s])
  BY DEF SignalsInv, CollectionsFit
<1>2. ASSUME NEW s \in Callers,
             \/ \E k \in SignalKeys, samples \in SampleLists : S!Begin(s, k, samples)
             \/ S!Replay(s) \/ S!RefuseWindow(s) \/ S!Collide(s)
      PROVE  LedgersFit'
  <2>1. UNCHANGED <<tick, charged, failed, caps, observations>>
    BY <1>2 DEF S!Begin, S!Replay, S!RefuseWindow, S!Collide
  <2> QED BY <1>1, <2>1 DEF LedgersFit
<1>3. ASSUME NEW s \in Callers, S!Record(s) PROVE LedgersFit'
  <2>1. /\ UNCHANGED <<tick, charged, failed, caps>>
        /\ observations' = observations \cup {S!Assessed(s)}
        /\ collecting[s].stage = "reading"
    BY <1>3 DEF S!Record, S!Ready, S!NotReplayed
  <2>2. S!Assessed(s).key \in SignalKeys /\ S!Assessed(s).request \in SampleLists
    BY <1>1, <2>1 DEF S!Assessed, CollectionFits
  <2> QED BY <1>1, <2>1, <2>2 DEF LedgersFit
<1>4. ASSUME NEW e \in LedgerCharges, S!RecordCharge(e) PROVE LedgersFit'
  <2>1. IsFiniteSet(charged \cup {e})
    BY <1>1, FS_AddElement DEF LedgersFit
  <2> QED BY <1>1, <1>4, <2>1 DEF S!RecordCharge, LedgersFit
<1>5. ASSUME NEW r \in FailedRuns, S!RecordFailure(r) PROVE LedgersFit'
  BY <1>1, <1>5 DEF S!RecordFailure, LedgersFit
<1>6. ASSUME \/ \E b \in LedgerBudgets : S!SetBudget(b)
             \/ S!Tick
      PROVE  LedgersFit'
  BY <1>1, <1>6 DEF S!SetBudget, S!Tick, LedgersFit, S!Parameters
<1> QED BY <1>2, <1>3, <1>4, <1>5, <1>6 DEF S!Next

\* The signals begin in their invariant.
LEMMA SignalsBegin == ASSUME S!Parameters, S!Init PROVE SignalsInv
<1>1. LedgersFit
  BY FS_EmptySet DEF S!Init, LedgersFit, S!Parameters
<1>2. CollectionsFit
  BY IdleCollectionFits DEF S!Init, CollectionsFit
<1> QED BY <1>1, <1>2 DEF SignalsInv

\* Every step of the signals keeps their invariant.
LEMMA SignalsGoOn == ASSUME S!Parameters, SignalsInv, [S!Next]_S!vars PROVE SignalsInv'
<1>1. CASE UNCHANGED S!vars
  BY <1>1 DEF S!vars, SignalsInv, LedgersFit, CollectionsFit
<1>2. CASE S!Next
  BY <1>2, LedgersKeep, CollectionsKeep DEF SignalsInv
<1> QED BY <1>1, <1>2

\* What the invariant says of the collections.
LEMMA SignalsHold ==
    ASSUME S!Parameters, SignalsInv
    PROVE  S!TypeOK /\ S!CollectionFitsChecks /\ S!SecondCollectionSettles
<1>1. S!TypeOK
  BY DEF SignalsInv, LedgersFit, CollectionsFit, CollectionFits, S!TypeOK
<1>2. S!CollectionFitsChecks
  BY AssessedFits DEF S!CollectionFitsChecks
<1>3. S!SecondCollectionSettles
  BY DEF SignalsInv, CollectionsFit, CollectionFits, S!SecondCollectionSettles
<1> QED BY <1>1, <1>2, <1>3

-----------------------------------------------------------------------------
(* Stabilization windows and closure attempts.                               *)

\* What a transaction sees, and what the sessions hold.
Views == [declaration : Declarations, monitoring : [Targets -> SUBSET Evidence],
          coverage : Coverages, inventory : Inventories, handovers : SUBSET W!Handover,
          windows : SUBSET W!OpsStabilizationWindow]

\* A closure attempt about to be recorded.
Refusals == [window : 1..MaxWindowStamp, code : W!CLOSURE_RESULTS]

\* What a session of the windows holds.
Assessments ==
    [op : {"idle", "assessing", "written", "refused", "closing"},
     actor : Actors \cup {W!Idle.actor},
     key : WindowKeys \cup {""}, extends : -1..MaxWindowStamp, attempt : Nat, seen : SUBSET Views,
     row : SUBSET (W!OpsStabilizationWindow \cup Refusals)]

\* What the ladders give has the columns of the tables.
LEMMA MonitoringTyped ==
    ASSUME W!Parameters, NEW target, NEW snapshots \in SUBSET Evidence
    PROVE  LET c == W!evaluate_monitoring_criterion(target, snapshots)
           IN  /\ c \in W!CriterionChild /\ c.status # "passed"
               /\ c.cites = IF c.reason \in {"no_monitoring_declaration",
                                             "monitoring_declared_but_no_evidence"}
                            THEN W!NoCitation ELSE "snapshot"
               /\ c.cites = "snapshot" => target # W!NoTarget /\ snapshots # {}
<1> DEFINE c == W!evaluate_monitoring_criterion(target, snapshots)
<1>1. CASE target = W!NoTarget
  <2>1. c = W!Child("not_observed", "no_monitoring_declaration", W!NoCitation)
    BY <1>1 DEF W!evaluate_monitoring_criterion
  <2> QED BY <2>1 DEF W!Child, W!CriterionChild, W!Statuses, W!NoCitation
<1>2. CASE target # W!NoTarget /\ snapshots = {}
  <2>1. c = W!Child("not_observed", "monitoring_declared_but_no_evidence", W!NoCitation)
    BY <1>2 DEF W!evaluate_monitoring_criterion
  <2> QED BY <2>1 DEF W!Child, W!CriterionChild, W!Statuses, W!NoCitation
<1>3. CASE target # W!NoTarget /\ snapshots # {}
  <2> DEFINE e == CHOOSE e \in snapshots : TRUE
  <2>1. e \in snapshots
    BY <1>3
  <2>2. /\ e.verified \in BOOLEAN /\ e.fresh \in BOOLEAN /\ e.readable \in BOOLEAN
        /\ e.active \in BOOLEAN
    BY <2>1 DEF W!Parameters
  <2>3. c = CASE ~e.verified -> W!Child("failed", "monitoring_observed_unverified", "snapshot")
              [] e.verified /\ ~e.fresh -> W!Child("failed", "monitoring_evidence_stale",
                  "snapshot")
              [] e.verified /\ e.fresh /\ ~e.readable ->
                   W!Child("not_evaluable", "monitoring_evidence_unreadable", "snapshot")
              [] e.verified /\ e.fresh /\ e.readable /\ ~e.active ->
                   W!Child("failed", "monitoring_or_alerts_inactive", "snapshot")
              [] OTHER -> W!Child("not_evaluable",
                                "monitoring_active_app_derived_not_db_provable", "snapshot")
    BY <1>3 DEF W!evaluate_monitoring_criterion
  <2> HIDE DEF e, c
  <2>4. \/ c = W!Child("failed", "monitoring_observed_unverified", "snapshot")
        \/ c = W!Child("failed", "monitoring_evidence_stale", "snapshot")
        \/ c = W!Child("not_evaluable", "monitoring_evidence_unreadable", "snapshot")
        \/ c = W!Child("failed", "monitoring_or_alerts_inactive", "snapshot")
        \/ c = W!Child("not_evaluable", "monitoring_active_app_derived_not_db_provable", "snapshot")
    <3>1. CASE ~e.verified
      BY <2>3, <3>1
    <3>2. CASE e.verified /\ ~e.fresh
      BY <2>3, <3>2
    <3>3. CASE e.verified /\ e.fresh /\ ~e.readable
      BY <2>3, <3>3
    <3>4. CASE e.verified /\ e.fresh /\ e.readable /\ ~e.active
      BY <2>3, <3>4
    <3>5. CASE e.verified /\ e.fresh /\ e.readable /\ e.active
      BY <2>3, <3>5
    <3> QED BY <2>2, <3>1, <3>2, <3>3, <3>4, <3>5
  <2> QED BY <1>3, <2>4 DEF W!Child, W!CriterionChild, W!Statuses, W!NoCitation, c
<1> QED BY <1>1, <1>2, <1>3

\* The rollback criterion has its columns; it is never passed.
LEMMA RollbackTyped ==
    ASSUME W!Parameters, NEW c0 \in Coverages
    PROVE  LET c == W!evaluate_rollback_criterion(c0)
           IN  /\ c \in W!CriterionChild /\ c.status # "passed"
               /\ c.cites = IF c.reason = "no_rollback_run" THEN W!NoCitation ELSE "run"
<1> DEFINE c == W!evaluate_rollback_criterion(c0)
<1>1. \/ c = W!Child("not_observed", "no_rollback_run", W!NoCitation)
      \/ c = W!Child("failed", "rollback_path_not_current", "run")
      \/ c = W!Child("not_evaluable", "rollback_currency_app_derived_not_db_provable", "run")
  BY DEF W!evaluate_rollback_criterion
<1> QED BY <1>1 DEF W!Child, W!CriterionChild, W!Statuses, W!NoCitation

\* The handover criterion has its columns; it is passed on a complete handover only.
LEMMA HandoverTyped ==
    ASSUME NEW rows
    PROVE  LET c == W!evaluate_handover_criterion(rows)
           IN  /\ c \in W!CriterionChild
               /\ <<c.status, c.reason, c.cites>> \in
                    {<<"not_observed", "no_handover_record", W!NoCitation>>,
                     <<"passed", "handover_recorded_complete", "handover">>,
                     <<"failed", "handover_recorded_incomplete", "handover">>}
               /\ c.status = "passed" => \E h \in W!latest_handover(rows) : h.complete
<1> DEFINE c == W!evaluate_handover_criterion(rows)
<1>1. \/ c = W!Child("not_observed", "no_handover_record", W!NoCitation)
      \/ /\ c = W!Child("passed", "handover_recorded_complete", "handover")
         /\ \E h \in W!latest_handover(rows) : h.complete
      \/ c = W!Child("failed", "handover_recorded_incomplete", "handover")
  BY DEF W!evaluate_handover_criterion
<1> QED BY <1>1 DEF W!Child, W!CriterionChild, W!Statuses, W!NoCitation

\* A criterion nothing observes has its columns.
LEMMA FixedTyped ==
    ASSUME NEW seq
    PROVE  LET c == W!fixed_criterion(seq)
           IN  /\ c \in W!CriterionChild /\ c.status # "passed" /\ c.cites = W!NoCitation
               /\ seq \in {1, 2} => c.status = "not_evaluable"
               /\ seq \notin {1, 2} => c.status = "not_observed"
BY DEF W!fixed_criterion, W!Child, W!CriterionChild, W!Statuses, W!NoCitation

\* The eight criteria of a view.
LEMMA CriteriaOf ==
    ASSUME W!Parameters, NEW v \in Views
    PROVE  LET d == v.declaration.target
               c == W!assemble_criteria(v)
           IN  /\ DOMAIN c = 1..8
               /\ c[3] = W!evaluate_monitoring_criterion(d, IF d = W!NoTarget THEN {}
                                                          ELSE v.monitoring[d])
               /\ c[4] = W!evaluate_rollback_criterion(v.coverage)
               /\ c[5] = W!evaluate_handover_criterion(v.handovers)
               /\ \A seq \in 1..8 : seq \notin {3, 4, 5} => c[seq] = W!fixed_criterion(seq)
BY DEF W!assemble_criteria

\* Every criterion passes its check, and only the handover can pass.
LEMMA CriteriaTyped ==
    ASSUME W!Parameters, NEW v \in Views
    PROVE  LET d == v.declaration.target
               c == W!assemble_criteria(v)
           IN  /\ c \in [1..8 -> W!CriterionChild]
               /\ \A seq \in 1..8 : W!CriterionCheck(seq, c[seq])
               /\ \A seq \in 1..8 : c[seq].status = "passed" => seq = 5
               /\ c[3].cites = "snapshot" => d # W!NoTarget /\ v.monitoring[d] # {}
               /\ c[5].status = "passed" => \E h \in W!latest_handover(v.handovers) : h.complete
<1> DEFINE d == v.declaration.target
           c == W!assemble_criteria(v)
           snapshots == IF d = W!NoTarget THEN {} ELSE v.monitoring[d]
<1>1. /\ v.coverage \in Coverages /\ snapshots \in SUBSET Evidence
  <2>1. v.declaration \in Declarations /\ v.monitoring \in [Targets -> SUBSET Evidence]
        /\ v.coverage \in Coverages
    BY DEF Views
  <2>2. d \in Targets \cup {W!NoTarget}
    BY <2>1 DEF W!Parameters
  <2> QED BY <2>1, <2>2
<1>2. /\ DOMAIN c = 1..8
      /\ c[3] = W!evaluate_monitoring_criterion(d, snapshots)
      /\ c[4] = W!evaluate_rollback_criterion(v.coverage)
      /\ c[5] = W!evaluate_handover_criterion(v.handovers)
      /\ \A seq \in 1..8 : seq \notin {3, 4, 5} => c[seq] = W!fixed_criterion(seq)
  BY CriteriaOf
<1>12. c = [seq \in 1..8 |-> c[seq]]
  BY DEF W!assemble_criteria
<1> HIDE DEF d, c, snapshots
<1>3. /\ c[3] \in W!CriterionChild /\ c[3].status # "passed"
      /\ c[3].cites = IF c[3].reason \in {"no_monitoring_declaration",
                                          "monitoring_declared_but_no_evidence"}
                      THEN W!NoCitation ELSE "snapshot"
      /\ c[3].cites = "snapshot" => d # W!NoTarget /\ snapshots # {}
  BY <1>1, <1>2, MonitoringTyped
<1>4. /\ c[4] \in W!CriterionChild /\ c[4].status # "passed"
      /\ c[4].cites = IF c[4].reason = "no_rollback_run" THEN W!NoCitation ELSE "run"
  BY <1>1, <1>2, RollbackTyped
<1>5. /\ c[5] \in W!CriterionChild
      /\ <<c[5].status, c[5].reason, c[5].cites>> \in
           {<<"not_observed", "no_handover_record", W!NoCitation>>,
            <<"passed", "handover_recorded_complete", "handover">>,
            <<"failed", "handover_recorded_incomplete", "handover">>}
      /\ c[5].status = "passed" => \E h \in W!latest_handover(v.handovers) : h.complete
  BY <1>2, HandoverTyped
<1>6. ASSUME NEW seq \in 1..8, seq \notin {3, 4, 5}
      PROVE  /\ c[seq] \in W!CriterionChild /\ c[seq].status # "passed"
             /\ c[seq].cites = W!NoCitation
             /\ seq \in {1, 2} => c[seq].status = "not_evaluable"
             /\ seq \notin {1, 2} => c[seq].status = "not_observed"
  BY <1>2, <1>6, FixedTyped
<1>7. c \in [1..8 -> W!CriterionChild]
  <2>1. \A seq \in 1..8 : c[seq] \in W!CriterionChild
    BY <1>3, <1>4, <1>5, <1>6
  <2> QED BY <1>12, <2>1
<1>8. \A seq \in 1..8 : c[seq].status = "passed" => seq = 5
  BY <1>3, <1>4, <1>6
<1>9. ASSUME NEW seq \in 1..8 PROVE W!CriterionCheck(seq, c[seq])
  <2>1. CASE seq = 3
    BY <1>3, <2>1 DEF W!CriterionCheck
  <2>2. CASE seq = 4
    BY <1>4, <2>2 DEF W!CriterionCheck
  <2>3. CASE seq = 5
    BY <1>5, <2>3 DEF W!CriterionCheck
  <2>4. CASE seq \notin {3, 4, 5}
    BY <1>6, <2>4 DEF W!CriterionCheck
  <2> QED BY <2>1, <2>2, <2>3, <2>4
<1>10. c[3].cites = "snapshot" => d # W!NoTarget /\ v.monitoring[d] # {}
  BY <1>3 DEF snapshots
<1> QED BY <1>5, <1>7, <1>8, <1>9, <1>10 DEF c, d

\* The row of one improvement source.
Improvement(observed, cites, metric) ==
    [observed |-> observed, cites |-> cites, metric |-> metric]

\* Such a row has its columns.
LEMMA ImprovementTyped ==
    ASSUME NEW o \in BOOLEAN, NEW k \in {W!NoCitation, "findings", "forecast"}, NEW m \in Int
    PROVE  LET r == Improvement(o, k, m)
           IN  r \in W!ImprovementChild /\ r.observed = o /\ r.cites = k /\ r.metric = m
BY DEF Improvement, W!ImprovementChild

\* The eight improvement rows pass the checks of migration 0058.
LEMMA ImprovementsTyped ==
    ASSUME W!Parameters, NEW i \in Inventories
    PROVE  /\ W!assemble_improvements(i) \in [1..8 -> W!ImprovementChild]
           /\ \A seq \in 1..8 : W!ImprovementCheck(seq, W!assemble_improvements(i)[seq])
<1> DEFINE c == W!assemble_improvements(i)
           gaps == IF i.gaps >= 0 THEN "findings" ELSE W!NoCitation
           forecast == IF i.forecast THEN "forecast" ELSE W!NoCitation
<1>1. i.recurrence \in Nat /\ i.domain \in BOOLEAN /\ i.gaps \in Int /\ i.forecast \in BOOLEAN
  BY DEF W!Parameters
<1>2. /\ DOMAIN c = 1..8 /\ c = [seq \in 1..8 |-> c[seq]]
      /\ c[2] = Improvement(TRUE, W!NoCitation, i.recurrence)
      /\ c[5] = Improvement(i.domain, W!NoCitation, -1)
      /\ c[6] = Improvement(i.gaps >= 0, gaps, i.gaps)
      /\ c[7] = Improvement(i.forecast, forecast, -1)
      /\ \A seq \in 1..8 : seq \notin {2, 5, 6, 7} => c[seq] = Improvement(FALSE, W!NoCitation, -1)
  BY DEF W!assemble_improvements, Improvement
<1>3. /\ gaps \in {W!NoCitation, "findings", "forecast"} /\ (gaps = "findings") = (i.gaps >= 0)
      /\ forecast \in {W!NoCitation, "findings", "forecast"} /\ (forecast = "forecast") = i.forecast
      /\ (i.gaps >= 0) \in BOOLEAN /\ -1 \in Int /\ i.recurrence \in Int
      /\ W!NoCitation \in {W!NoCitation, "findings", "forecast"}
  BY <1>1 DEF W!NoCitation
<1> HIDE DEF c, gaps, forecast
<1>4. /\ c[2] \in W!ImprovementChild /\ c[2].observed = TRUE /\ c[2].cites = W!NoCitation
      /\ c[2].metric = i.recurrence
  <2>1. c[2] = Improvement(TRUE, W!NoCitation, i.recurrence)
    BY <1>2
  <2>2. i.recurrence \in Int
    BY <1>1
  <2> QED BY <2>1, <2>2 DEF Improvement, W!ImprovementChild, W!NoCitation
<1>5. c[5] \in W!ImprovementChild /\ c[5].cites = W!NoCitation
  BY <1>1, <1>2, <1>3, ImprovementTyped
<1>6. /\ c[6] \in W!ImprovementChild /\ c[6].observed = (i.gaps >= 0) /\ c[6].cites = gaps
      /\ c[6].metric = i.gaps
  <2>1. c[6] = Improvement(i.gaps >= 0, gaps, i.gaps)
    BY <1>2
  <2> QED BY <1>1, <1>3, <2>1 DEF Improvement, W!ImprovementChild
<1>7. c[7] \in W!ImprovementChild /\ c[7].observed = i.forecast /\ c[7].cites = forecast
  BY <1>1, <1>2, <1>3, ImprovementTyped
<1>8. ASSUME NEW seq \in 1..8, seq \notin {2, 5, 6, 7}
      PROVE  c[seq] \in W!ImprovementChild /\ c[seq].observed = FALSE /\ c[seq].cites = W!NoCitation
  <2>1. c[seq] = Improvement(FALSE, W!NoCitation, -1)
    BY <1>2, <1>8
  <2> QED BY <2>1 DEF Improvement, W!ImprovementChild, W!NoCitation
<1>9. ASSUME NEW seq \in 1..8
      PROVE  c[seq] \in W!ImprovementChild /\ W!ImprovementCheck(seq, c[seq])
  <2>1. CASE seq = 2
    BY <1>1, <1>4, <2>1 DEF W!ImprovementCheck
  <2>2. CASE seq = 5
    BY <1>5, <2>2 DEF W!ImprovementCheck
  <2>3. CASE seq = 6
    BY <1>3, <1>6, <2>3 DEF W!ImprovementCheck
  <2>4. CASE seq = 7
    BY <1>3, <1>7, <2>4 DEF W!ImprovementCheck
  <2>5. CASE seq \notin {2, 5, 6, 7}
    BY <1>8, <2>5 DEF W!ImprovementCheck
  <2> QED BY <2>1, <2>2, <2>3, <2>4, <2>5
<1> QED BY <1>2, <1>9 DEF c

\* The counters tally the criteria.
LEMMA CountersTyped ==
    ASSUME NEW c \in [1..8 -> W!CriterionChild], \A seq \in 1..8 : c[seq].status = "passed"
        => seq = 5
    PROVE  /\ W!compute_status_counters(c) \in [W!Statuses -> 0..8]
           /\ \A st \in W!Statuses : W!compute_status_counters(c)[st] =
                Cardinality({seq \in 1..8 : c[seq].status = st})
           /\ W!compute_status_counters(c)["passed"] < 8
<1>1. IsFiniteSet(1..8) /\ Cardinality(1..8) = 8
  <2>1. 8 - 1 + 1 = 8 /\ ~(1 > 8) /\ 1 \in Int /\ 8 \in Int
    OBVIOUS
  <2>2. /\ IsFiniteSet(1..8)
        /\ Cardinality(1..8) = IF 1 > 8 THEN 0 ELSE 8 - 1 + 1
    BY <2>1, FS_Interval, Zenon
  <2> QED BY <2>1, <2>2
<1>2. \A st \in W!Statuses : Cardinality({seq \in 1..8 : c[seq].status = st}) \in 0..8
  <2> TAKE st \in W!Statuses
  <2> DEFINE ones == {seq \in 1..8 : c[seq].status = st}
  <2> DEFINE all == 1..8
  <2>1. ones \in SUBSET all /\ IsFiniteSet(all) /\ Cardinality(all) = 8
    BY <1>1
  <2> HIDE DEF ones, all
  <2>2. IsFiniteSet(ones) /\ Cardinality(ones) <= 8
    BY <2>1, FS_Subset
  <2>3. Cardinality(ones) \in Nat
    BY <2>2, FS_CardinalityType
  <2> QED BY <2>2, <2>3 DEF ones
<1>3. Cardinality({seq \in 1..8 : c[seq].status = "passed"}) < 8
  <2> DEFINE ones == {seq \in 1..8 : c[seq].status = "passed"}
  <2> DEFINE one == {5}
  <2>1. ones \in SUBSET one
    OBVIOUS
  <2>2. IsFiniteSet(one) /\ Cardinality(one) = 1
    BY FS_Singleton
  <2> HIDE DEF ones, one
  <2>3. IsFiniteSet(ones) /\ Cardinality(ones) <= 1
    BY <2>1, <2>2, FS_Subset
  <2>4. Cardinality(ones) \in Nat
    BY <2>3, FS_CardinalityType
  <2>5. Cardinality(ones) < 8
    BY <2>3, <2>4
  <2> QED BY <2>5 DEF ones
<1> QED BY <1>2, <1>3, SameCards DEF W!compute_status_counters, W!Statuses

\* The caller of j brought what no column takes, as a transaction that sees v knows.
Misfit(j, v) ==
    \/ j.extends = W!UnknownWindow
    \/ j.actor.subject \in Long \cup Untrimmed
    \/ v.declaration.target \in Untrimmed

\* What a call holds at its step.
AssessmentFits(j) ==
    /\ j.op \in {"assessing", "written", "refused"} =>
         j.actor \in Actors /\ j.key \in WindowKeys /\ \E v \in Views : j.seen = {v}
    /\ j.op = "assessing" =>
         \A v \in j.seen :
             /\ j.extends \in 1..MaxWindowStamp => \E w \in v.windows : w.stamp = j.extends
             /\ j.attempt # 1 => j.attempt = 2 /\ \E w \in v.windows : w.key = j.key
    /\ j.op = "refused" => \A v \in j.seen : Misfit(j, v)
    /\ j.op = "written" =>
         /\ \A v \in j.seen : ~Misfit(j, v)
         /\ \A w \in j.row : w \in W!OpsStabilizationWindow /\ W!CountMatch(w)
    /\ j.op = "closing" => j.row \subseteq Refusals

\* Every session holds a fitting assessment.
AssessmentsFit ==
    assessing \in [Callers -> Assessments] /\ \A s \in Callers : AssessmentFits(assessing[s])

\* The tables have their types.
WindowsFit ==
    /\ declaration \in Declarations /\ monitoring \in [Targets -> SUBSET Evidence]
    /\ coverage \in Coverages /\ inventory \in Inventories
    /\ handovers \subseteq W!Handover /\ windows \subseteq W!OpsStabilizationWindow
    /\ attempts \subseteq W!ClosureAttempt
    /\ \A e \in latch : e.stamp \in 1..MaxWindowStamp /\ e.active \in BOOLEAN
    /\ windowStamp \in 0..MaxWindowStamp

\* The newest stop event before n engages the stop.
LatchedBefore(n) ==
    \E e \in {e \in latch : e.stamp < n} :
        e.active /\ \A x \in {x \in latch : x.stamp < n} : x.stamp <= e.stamp

\* ClosureNamesLatch through LatchedBefore, in this state and in the next.
LEMMA NamesTheLatch ==
    /\ W!ClosureNamesLatch <=>
         \A c \in attempts : c.code = "refused_latch_active" <=> LatchedBefore(c.stamp)
    /\ W!ClosureNamesLatch' <=>
         \A c \in attempts' : c.code = "refused_latch_active" <=> (LatchedBefore(c.stamp))'
<1>1. ASSUME NEW c
      PROVE  /\ (c.code = "refused_latch_active") \in BOOLEAN
             /\ LatchedBefore(c.stamp) \in BOOLEAN /\ (LatchedBefore(c.stamp))' \in BOOLEAN
  BY DEF LatchedBefore
<1>2. /\ W!ClosureNamesLatch <=>
           \A c \in attempts : (c.code = "refused_latch_active") = LatchedBefore(c.stamp)
      /\ W!ClosureNamesLatch' <=>
           \A c \in attempts' : (c.code = "refused_latch_active") = (LatchedBefore(c.stamp))'
  BY Zenon DEF W!ClosureNamesLatch, LatchedBefore
<1> QED BY <1>1, <1>2, Zenon

\* Stop events newer than n do not matter before n.
LEMMA LatchStays ==
    ASSUME NEW n, \A e \in latch' \ latch : ~(e.stamp < n), latch \subseteq latch'
    PROVE  (LatchedBefore(n))' <=> LatchedBefore(n)
<1>1. {e \in latch' : e.stamp < n} = {e \in latch : e.stamp < n}
  OBVIOUS
<1> QED BY <1>1, Zenon DEF LatchedBefore

\* Before a stamp no event has reached, the latch was as it is now.
LEMMA LatchedNow ==
    ASSUME NEW n, \A e \in latch : e.stamp < n PROVE LatchedBefore(n) <=> W!StopActive
<1>1. {e \in latch : e.stamp < n} = latch
  OBVIOUS
<1> QED BY <1>1, Zenon DEF LatchedBefore, W!StopActive

\* A closure holds the project row alone from the latch it read to its commit,
\* and its result says whether the latch was engaged; attempts and stop events
\* are numbered in the order they commit, and no snapshot shows a window that
\* is not committed.
ClosuresAgree ==
    /\ latchRow = {} \/ \E s \in Callers : latchRow = {s}
    /\ \A s \in Callers : assessing[s].op = "closing" =>
         /\ latchRow = {s}
         /\ \A r \in assessing[s].row : r.code = "refused_latch_active" <=> W!StopActive
    /\ \A s \in Callers : \A v \in assessing[s].seen : v.windows \subseteq windows
    /\ \A e \in latch : e.stamp <= windowStamp
    /\ \A c \in attempts : c.stamp <= windowStamp
    /\ W!ClosureNamesLatch

\* What windows and closure attempts keep.
WindowInv == WindowsFit /\ AssessmentsFit /\ ClosuresAgree

\* One session moves to one task.
LEMMA AssessmentSet ==
    ASSUME AssessmentsFit, NEW s \in Callers, NEW j \in Assessments, AssessmentFits(j),
           assessing' = [assessing EXCEPT ![s] = j]
    PROVE  /\ AssessmentsFit' /\ assessing'[s] = j
           /\ \A o \in Callers \ {s} : assessing'[o] = assessing[o]
<1>1. assessing \in [Callers -> Assessments]
  BY DEF AssessmentsFit
<1>2. /\ assessing' \in [Callers -> Assessments]
      /\ \A o \in Callers : assessing'[o] = IF o = s THEN j ELSE assessing[o]
  BY <1>1
<1>3. \A o \in Callers : AssessmentFits(assessing'[o])
  BY <1>2 DEF AssessmentsFit
<1>4. (\A o \in Callers : AssessmentFits(assessing[o]))'
  BY <1>3 DEF AssessmentFits, W!CountMatch
<1> QED BY <1>2, <1>4 DEF AssessmentsFit

\* A transaction of a state with its types sees rows with theirs.
LEMMA ViewFits == ASSUME WindowsFit PROVE W!View \in Views
BY DEF WindowsFit, W!View, Views

\* A session that assesses nothing fits.
LEMMA IdleAssessmentFits ==
    ASSUME W!Parameters, WindowsFit
    PROVE  W!Idle \in Assessments /\ AssessmentFits(W!Idle) /\ W!Idle.op = "idle"
<1>1. /\ W!Idle.op = "idle" /\ W!Idle.key = "" /\ W!Idle.extends = 0 /\ W!Idle.attempt = 0
      /\ W!Idle.seen = {} /\ W!Idle.row = {}
  BY DEF W!Idle, W!NoWindow
<1>2. 0 \in -1..MaxWindowStamp
  BY DEF W!Parameters
<1>3. W!Idle = [op |-> W!Idle.op, actor |-> W!Idle.actor, key |-> W!Idle.key,
        extends |-> W!Idle.extends,
              attempt |-> W!Idle.attempt, seen |-> W!Idle.seen, row |-> W!Idle.row]
  BY DEF W!Idle
<1>4. W!Idle \in Assessments
  <2> DEFINE a == W!Idle.actor
  <2>1. W!Idle = [op |-> "idle", actor |-> a, key |-> "", extends |-> 0, attempt |-> 0,
                seen |-> {}, row |-> {}]
    BY <1>1, <1>3
  <2>2. a \in Actors \cup {W!Idle.actor} /\ {} \in SUBSET Views
        /\ {} \in SUBSET (W!OpsStabilizationWindow \cup Refusals)
    OBVIOUS
  <2> HIDE DEF a
  <2>3. [op |-> "idle", actor |-> a, key |-> "", extends |-> 0, attempt |-> 0,
         seen |-> {}, row |-> {}] \in Assessments
    BY <1>2, <2>2 DEF Assessments
  <2> QED BY <2>1, <2>3
<1> QED BY <1>1, <1>4 DEF AssessmentFits

\* The row an assessment writes has its type, its children are accepted, and it
\* is refused for what its caller brought only.
LEMMA WindowRowFits ==
    ASSUME W!Parameters, WindowsFit, NEW s \in Callers, NEW v \in Views,
           assessing[s] \in Assessments, AssessmentFits(assessing[s]),
               assessing[s].op = "assessing",
           assessing[s].seen = {v}
    PROVE  /\ windowStamp < MaxWindowStamp => W!WindowRow(s, v) \in W!OpsStabilizationWindow
           /\ W!CountMatch(W!WindowRow(s, v)) /\ W!Accepted(W!WindowRow(s, v), v)
           /\ W!RowAccepted(W!WindowRow(s, v), v) <=> ~Misfit(assessing[s], v)
<1> DEFINE w == W!WindowRow(s, v)
           c == W!assemble_criteria(v)
<1>1. /\ assessing[s].actor \in Actors /\ assessing[s].key \in WindowKeys
      /\ assessing[s].extends \in -1..MaxWindowStamp
      /\ assessing[s].extends \in 1..MaxWindowStamp =>
           \E p \in v.windows : p.stamp = assessing[s].extends
  BY DEF AssessmentFits, Assessments
<1>2. /\ v.declaration \in Declarations /\ v.inventory \in Inventories
      /\ v.handovers \in SUBSET W!Handover
      /\ \A p \in v.windows : p.stamp \in 1..MaxWindowStamp
  BY DEF Views, W!OpsStabilizationWindow
<1>3. v.declaration.target \in Targets \cup {W!NoTarget}
  BY <1>2 DEF W!Parameters
<1>4. /\ c \in [1..8 -> W!CriterionChild]
      /\ \A seq \in 1..8 : W!CriterionCheck(seq, c[seq])
      /\ \A seq \in 1..8 : c[seq].status = "passed" => seq = 5
      /\ c[3].cites = "snapshot" =>
           v.declaration.target # W!NoTarget /\ v.monitoring[v.declaration.target] # {}
      /\ c[5].status = "passed" => \E h \in W!latest_handover(v.handovers) : h.complete
  BY CriteriaTyped
<1>5. /\ W!assemble_improvements(v.inventory) \in [1..8 -> W!ImprovementChild]
      /\ \A seq \in 1..8 : W!ImprovementCheck(seq, W!assemble_improvements(v.inventory)[seq])
  BY <1>2, ImprovementsTyped
<1>6. /\ W!compute_status_counters(c) \in [W!Statuses -> 0..8]
      /\ \A st \in W!Statuses : W!compute_status_counters(c)[st] =
           Cardinality({seq \in 1..8 : c[seq].status = st})
      /\ W!compute_status_counters(c)["passed"] < 8
  BY <1>4, CountersTyped
<1>7. W!latest_handover(v.handovers) \in SUBSET W!Handover
  BY <1>2 DEF W!latest_handover
<1>8. windowStamp < MaxWindowStamp => windowStamp + 1 \in 1..MaxWindowStamp
  BY DEF W!Parameters, WindowsFit
<1>9. /\ w.key = assessing[s].key /\ w.target = v.declaration.target
      /\ w.extends = assessing[s].extends /\ w.assessor = assessing[s].actor
      /\ w.criteria = c /\ w.improvements = W!assemble_improvements(v.inventory)
      /\ w.handover = W!latest_handover(v.handovers)
      /\ w.counters = W!compute_status_counters(c)
  BY DEF W!WindowRow
<1>10. windowStamp < MaxWindowStamp => w \in W!OpsStabilizationWindow
  BY <1>1, <1>3, <1>4, <1>5, <1>6, <1>7, <1>8 DEF W!WindowRow, W!OpsStabilizationWindow,
       W!request_digest
<1> HIDE DEF w, c
<1>11. W!CountMatch(w)
  BY <1>6, <1>9, SameCards DEF W!CountMatch
<1>12. W!CriterionGuard(w, v)
  <2>1. w.criteria[5].status = "passed" =>
          \E h \in w.handover : h.complete /\ \A x \in v.handovers : x.stamp <= h.stamp
    BY <1>4, <1>9 DEF W!latest_handover
  <2> QED BY <1>4, <1>9, <2>1 DEF W!CriterionGuard
<1>13. W!Accepted(w, v)
  BY <1>4, <1>5, <1>9, <1>12 DEF W!Accepted
<1>14. W!ColumnCheck(w) <=> /\ assessing[s].actor.subject \notin Long \cup Untrimmed
                           /\ v.declaration.target \notin Untrimmed
  BY <1>9 DEF W!ColumnCheck
<1>15. W!ExtendsGuard(w, v) <=> assessing[s].extends # W!UnknownWindow
  <2>1. W!ExtendsGuard(w, v) <=>
          (assessing[s].extends # 0 => \E p \in v.windows : p.stamp = assessing[s].extends)
    BY <1>9 DEF W!ExtendsGuard, W!NoWindow
  <2>2. CASE assessing[s].extends = -1
    BY <1>2, <2>1, <2>2 DEF W!UnknownWindow
  <2>3. CASE assessing[s].extends = 0
    BY <2>1, <2>3 DEF W!UnknownWindow
  <2>4. CASE assessing[s].extends \in 1..MaxWindowStamp
    BY <1>1, <2>1, <2>4 DEF W!UnknownWindow
  <2> QED BY <1>1, <2>2, <2>3, <2>4 DEF W!Parameters
<1>16. W!RowAccepted(w, v) <=> ~Misfit(assessing[s], v)
  BY <1>9, <1>14, <1>15 DEF W!RowAccepted, W!TargetGuard, Misfit
<1> QED BY <1>10, <1>11, <1>13, <1>16 DEF w

\* There is a latest window.
LEMMA LatestExists ==
    ASSUME W!Parameters, WindowsFit, windows # {}
    PROVE  W!LatestWindow \in windows /\ W!LatestWindow.stamp \in 1..MaxWindowStamp
<1>1. \A w \in windows : w.stamp \in 1..MaxWindowStamp
  BY DEF WindowsFit, W!OpsStabilizationWindow
<1>2. PICK w \in windows : TRUE
  OBVIOUS
<1> DEFINE Ms == {MaxWindowStamp - x.stamp : x \in windows}
<1>3. Ms \in SUBSET Nat /\ Ms # {}
  BY <1>1, <1>2 DEF W!Parameters
<1> HIDE DEF Ms
<1>4. PICK m \in Ms : \A n \in Ms : m <= n
  BY <1>3, NatLeast
<1>5. PICK l \in windows : m = MaxWindowStamp - l.stamp
  BY <1>4 DEF Ms
<1>6. ASSUME NEW x \in windows PROVE x.stamp <= l.stamp
  <2>1. MaxWindowStamp - l.stamp <= MaxWindowStamp - x.stamp
    BY <1>4, <1>5 DEF Ms
  <2> QED BY <1>1, <2>1 DEF W!Parameters
<1>7. W!LatestWindow \in windows
  BY <1>6 DEF W!LatestWindow
<1> QED BY <1>1, <1>7

\* A closure has a code of the table, the one of the latch exactly under a stop.
LEMMA ResultCodes ==
    ASSUME NEW latched \in BOOLEAN, NEW a, NEW w
    PROVE  /\ W!closure_result(latched, a, w) \in W!CLOSURE_RESULTS
           /\ W!closure_result(latched, a, w) = "refused_latch_active" <=> latched
<1>1. CASE latched
  <2>1. W!closure_result(latched, a, w) = "refused_latch_active"
    BY <1>1 DEF W!closure_result
  <2> QED BY <1>1, <2>1 DEF W!CLOSURE_RESULTS
<1>2. CASE ~latched
  <2>1. W!closure_result(latched, a, w) \in
          {"refused_unauthenticated", "refused_same_actor", "refused_incomplete_criteria"}
    BY <1>2 DEF W!closure_result
  <2> QED BY <1>2, <2>1 DEF W!CLOSURE_RESULTS
<1> QED BY <1>1, <1>2

\* The steps, as far as the assessments go.
LEMMA AssessmentsKeep ==
    ASSUME W!Parameters, WindowInv, W!Next PROVE AssessmentsFit'
<1>1. /\ WindowsFit /\ AssessmentsFit /\ ClosuresAgree
      /\ \A s \in Callers : assessing[s] \in Assessments /\ AssessmentFits(assessing[s])
  BY DEF WindowInv, AssessmentsFit
<1>2. ASSUME NEW s \in Callers, NEW a \in Actors, NEW k \in WindowKeys, NEW x \in -1..MaxWindowStamp,
             W!AssessBegin(s, a, k, x)
      PROVE  AssessmentsFit'
  <2> DEFINE j == [op |-> "assessing", actor |-> a, key |-> k, extends |-> x, attempt |-> 1,
                   seen |-> {W!View}, row |-> {}]
  <2>1. /\ x \in 1..MaxWindowStamp => \E w \in windows : w.stamp = x
        /\ assessing' = [assessing EXCEPT ![s] = j]
    BY <1>2 DEF W!AssessBegin, W!Start, W!NoWindow, W!UnknownWindow
  <2>2. W!View \in Views /\ W!View.windows = windows
    BY <1>1, ViewFits DEF W!View
  <2>3. j \in Assessments
    BY <2>2 DEF Assessments
  <2>4. AssessmentFits(j)
    BY <2>1, <2>2 DEF AssessmentFits
  <2> HIDE DEF j
  <2> QED BY <1>1, <2>1, <2>3, <2>4, AssessmentSet
<1>3. ASSUME NEW s \in Callers,
             \/ W!AssessUndeclared(s) \/ W!AssessCommit(s) \/ W!AssessFails(s) \/ W!AssessReplay(s)
             \/ W!ClosureRecord(s)
      PROVE  AssessmentsFit'
  <2>1. assessing' = [assessing EXCEPT ![s] = W!Idle]
    BY <1>3 DEF W!AssessUndeclared, W!AssessCommit, W!AssessFails, W!AssessReplay, W!ClosureRecord,
                W!Settle
  <2> QED BY <1>1, <2>1, IdleAssessmentFits, AssessmentSet
<1>4. ASSUME NEW s \in Callers, W!AssessInsert(s) PROVE AssessmentsFit'
  <2>0. assessing[s].op = "assessing" /\ windowStamp < MaxWindowStamp
    BY <1>4 DEF W!AssessInsert, W!AssessArrives, W!Draw
  <2>1. PICK v \in Views : assessing[s].seen = {v}
    BY <1>1, <2>0 DEF AssessmentFits
  <2>2. W!Seen(s) = v
    BY <2>1 DEF W!Seen
  <2> DEFINE w == W!WindowRow(s, v)
             j == [assessing[s] EXCEPT !.op = "written", !.row = {w}]
  <2>3. /\ w \in W!OpsStabilizationWindow /\ W!CountMatch(w) /\ W!Accepted(w, v)
        /\ W!RowAccepted(w, v) <=> ~Misfit(assessing[s], v)
    BY <1>1, <2>0, <2>1, WindowRowFits
  <2>10. ~Misfit(assessing[s], v)
    BY <1>4, <2>2, <2>3 DEF W!AssessInsert, W!AssessArrives, W!TriggerView
  <2> HIDE DEF w
  <2>4. assessing' = [assessing EXCEPT ![s].op = "written", ![s].row = {w}]
    BY <1>4, <2>2, <2>3 DEF W!AssessInsert, W!TriggerView, w
  <2>5. assessing' = [assessing EXCEPT ![s] = j]
    BY <1>1, <2>4 DEF AssessmentsFit
  <2>6. j \in Assessments
    BY <1>1, <2>3 DEF Assessments
  <2>7. /\ j.op = "written" /\ j.row = {w} /\ j.actor = assessing[s].actor
        /\ j.key = assessing[s].key /\ j.seen = assessing[s].seen
        /\ j.extends = assessing[s].extends
    BY <1>1 DEF Assessments
  <2>8. /\ assessing[s].actor \in Actors /\ assessing[s].key \in WindowKeys
    BY <1>1, <2>0 DEF AssessmentFits
  <2>11. ~Misfit(j, v)
    BY <2>7, <2>10 DEF Misfit
  <2>9. AssessmentFits(j)
    BY <2>1, <2>3, <2>7, <2>8, <2>11 DEF AssessmentFits
  <2> HIDE DEF j
  <2> QED BY <1>1, <2>5, <2>6, <2>9, AssessmentSet
<1>9. ASSUME NEW s \in Callers, W!AssessRefused(s) PROVE AssessmentsFit'
  <2> DEFINE j == [assessing[s] EXCEPT !.op = "refused"]
  <2>1. assessing[s].op = "assessing" /\ assessing' = [assessing EXCEPT ![s] = j]
    BY <1>1, <1>9 DEF W!AssessRefused, AssessmentsFit
  <2>2. PICK v \in Views : assessing[s].seen = {v}
    BY <1>1, <2>1 DEF AssessmentFits
  <2>3. W!Seen(s) = v
    BY <2>2 DEF W!Seen
  <2>4. Misfit(assessing[s], v)
    BY <1>1, <1>9, <2>1, <2>2, <2>3, WindowRowFits DEF W!AssessRefused, W!TriggerView
  <2>5. /\ j \in Assessments /\ j.op = "refused" /\ j.actor = assessing[s].actor
        /\ j.key = assessing[s].key /\ j.seen = {v} /\ j.extends = assessing[s].extends
    BY <1>1, <2>2 DEF Assessments
  <2>6. assessing[s].actor \in Actors /\ assessing[s].key \in WindowKeys
    BY <1>1, <2>1 DEF AssessmentFits
  <2> HIDE DEF j
  <2>7. Misfit(j, v)
    BY <2>4, <2>5 DEF Misfit
  <2>8. AssessmentFits(j)
    BY <2>5, <2>6, <2>7 DEF AssessmentFits
  <2> QED BY <1>1, <2>1, <2>5, <2>8, AssessmentSet
<1>5. ASSUME NEW s \in Callers, W!AssessCollide(s) PROVE AssessmentsFit'
  <2> DEFINE j == [assessing[s] EXCEPT !.attempt = @ + 1, !.seen = {W!View}]
  <2>1. PICK v \in Views : assessing[s].seen = {v}
    BY <1>1, <1>5 DEF W!AssessCollide, W!AssessLost, W!AssessArrives, AssessmentFits
  <2>2. /\ assessing[s].op = "assessing" /\ ~ \E w \in v.windows : w.key = assessing[s].key
        /\ \E w \in windows : w.key = assessing[s].key
        /\ assessing' = [assessing EXCEPT ![s].attempt = @ + 1, ![s].seen = {W!View}]
    <3>1. W!Seen(s) = v
      BY <2>1 DEF W!Seen
    <3> QED BY <1>5, <3>1 DEF W!AssessCollide, W!AssessLost, W!AssessArrives, W!KeyTaken, W!Retry
  <2>3. /\ assessing[s].attempt = 1 /\ assessing[s].actor \in Actors
             /\ assessing[s].key \in WindowKeys
        /\ assessing[s].extends \in 1..MaxWindowStamp =>
             \E w \in v.windows : w.stamp = assessing[s].extends
    BY <1>1, <2>1, <2>2 DEF AssessmentFits
  <2>4. W!View \in Views /\ W!View.windows = windows
    BY <1>1, ViewFits DEF W!View
  <2>5. v.windows \subseteq windows
    BY <1>1, <2>1, <2>2 DEF ClosuresAgree
  <2>6. assessing' = [assessing EXCEPT ![s] = j]
    BY <1>1, <2>2 DEF AssessmentsFit
  <2>10. assessing[s].attempt + 1 = 2 /\ 2 \in Nat
    BY <2>3
  <2>7. j \in Assessments
    BY <1>1, <2>10, <2>4 DEF Assessments
  <2>8. /\ j.op = "assessing" /\ j.attempt = 2 /\ j.actor = assessing[s].actor
        /\ j.key = assessing[s].key /\ j.seen = {W!View} /\ j.extends = assessing[s].extends
    BY <1>1, <2>2, <2>10 DEF Assessments
  <2>9. AssessmentFits(j)
    BY <2>2, <2>3, <2>4, <2>5, <2>8 DEF AssessmentFits
  <2> HIDE DEF j
  <2> QED BY <1>1, <2>6, <2>7, <2>9, AssessmentSet
<1>6. ASSUME NEW s \in Callers, NEW a \in Actors, W!ClosureBegin(s, a) PROVE AssessmentsFit'
  <2> DEFINE r == [window |-> W!LatestWindow.stamp,
                   code |-> W!closure_result(W!StopActive, a, W!LatestWindow)]
             j == [W!Idle EXCEPT !.op = "closing", !.actor = a, !.row = {r}]
  <2>1. assessing' = [assessing EXCEPT ![s] = j]
    BY <1>6 DEF W!ClosureBegin
  <2>2. r \in Refusals
    <3>1. W!LatestWindow.stamp \in 1..MaxWindowStamp
      BY <1>1, <1>6, LatestExists DEF W!ClosureBegin
    <3>2. W!StopActive \in BOOLEAN
      BY DEF W!StopActive
    <3>3. W!closure_result(W!StopActive, a, W!LatestWindow) \in W!CLOSURE_RESULTS
      BY <3>2, ResultCodes
    <3> QED BY <3>1, <3>3 DEF Refusals
  <2> HIDE DEF r
  <2>3. W!Idle \in Assessments
    BY <1>1, IdleAssessmentFits
  <2>4. j \in Assessments /\ j.op = "closing" /\ j.row = {r}
    BY <2>2, <2>3 DEF Assessments
  <2>5. AssessmentFits(j)
    BY <2>2, <2>4 DEF AssessmentFits
  <2> HIDE DEF j
  <2> QED BY <1>1, <2>1, <2>4, <2>5, AssessmentSet
<1>7. ASSUME UNCHANGED assessing PROVE AssessmentsFit'
  BY <1>1, <1>7 DEF AssessmentsFit, AssessmentFits, Misfit, W!CountMatch
<1>8. ASSUME \/ \E engaged \in BOOLEAN : W!StopEvent(engaged)
             \/ \E a \in Actors, by \in {x.subject : x \in Actors}, complete \in BOOLEAN :
                  W!record_handover(a, by, complete)
             \/ \E d \in Declarations : W!Declare(d)
             \/ \E t \in Targets, e \in Evidence : W!Observe(t, e)
      PROVE  UNCHANGED assessing
  BY <1>8 DEF W!StopEvent, W!record_handover, W!Declare, W!Observe
<1> QED BY <1>2, <1>3, <1>4, <1>5, <1>6, <1>7, <1>8, <1>9 DEF W!Next

\* The steps, as far as the tables go.
LEMMA TablesKeep ==
    ASSUME W!Parameters, WindowInv, W!Next PROVE WindowsFit'
<1>1. /\ WindowsFit /\ AssessmentsFit
      /\ \A s \in Callers : assessing[s] \in Assessments /\ AssessmentFits(assessing[s])
      /\ MaxWindowStamp \in Nat /\ windowStamp \in 0..MaxWindowStamp
  BY DEF WindowInv, AssessmentsFit, WindowsFit, W!Parameters
<1>9. W!Draw => windowStamp' = windowStamp + 1 /\ windowStamp' \in 0..MaxWindowStamp
        /\ windowStamp + 1 \in 1..MaxWindowStamp
  BY <1>1 DEF W!Draw
<1>2. ASSUME NEW s \in Callers, W!AssessCommit(s) PROVE WindowsFit'
  <2>1. assessing[s].row \subseteq W!OpsStabilizationWindow
    BY <1>1, <1>2 DEF W!AssessCommit, AssessmentFits
  <2> QED BY <1>1, <1>2, <2>1 DEF W!AssessCommit, WindowsFit, W!world
<1>3. ASSUME NEW s \in Callers, W!ClosureRecord(s) PROVE WindowsFit'
  <2>1. assessing[s].row \subseteq Refusals
    BY <1>1, <1>3 DEF W!ClosureRecord, AssessmentFits
  <2> DEFINE new == {[window |-> r.window, code |-> r.code, stamp |-> windowStamp + 1] :
                       r \in assessing[s].row}
  <2>2. windowStamp + 1 \in 1..MaxWindowStamp
    BY <1>3, <1>9 DEF W!ClosureRecord
  <2>3. new \subseteq W!ClosureAttempt
    BY <2>1, <2>2 DEF W!ClosureAttempt, Refusals
  <2>4. attempts' = attempts \cup new /\ windowStamp' \in 0..MaxWindowStamp
    BY <1>3, <1>9 DEF W!ClosureRecord
  <2> HIDE DEF new
  <2> QED BY <1>1, <1>3, <2>3, <2>4 DEF W!ClosureRecord, WindowsFit, W!world
<1>4. ASSUME NEW s \in Callers,
             \/ \E a \in Actors, k \in WindowKeys, x \in -1..MaxWindowStamp :
                  W!AssessBegin(s, a, k, x)
             \/ W!AssessUndeclared(s) \/ W!AssessRefused(s) \/ W!AssessFails(s) \/ W!AssessReplay(s)
             \/ W!AssessCollide(s)
             \/ \E a \in Actors : W!ClosureBegin(s, a)
      PROVE  WindowsFit'
  <2>1. UNCHANGED <<W!world, handovers, windows, attempts, latch, windowStamp>>
    BY <1>4 DEF W!AssessBegin, W!AssessUndeclared, W!AssessRefused, W!AssessFails, W!AssessReplay,
                W!AssessCollide, W!ClosureBegin
  <2> QED BY <1>1, <2>1 DEF WindowsFit, W!world
<1>5. ASSUME NEW s \in Callers, W!AssessInsert(s) PROVE WindowsFit'
  BY <1>1, <1>5, <1>9 DEF W!AssessInsert, WindowsFit, W!world
<1>6. ASSUME NEW engaged \in BOOLEAN, W!StopEvent(engaged) PROVE WindowsFit'
  <2>1. \A e \in latch' : e.stamp \in 1..MaxWindowStamp /\ e.active \in BOOLEAN
    BY <1>1, <1>6, <1>9 DEF W!StopEvent, WindowsFit
  <2> QED BY <1>1, <1>6, <1>9, <2>1 DEF W!StopEvent, WindowsFit, W!world
<1>7. ASSUME NEW a \in Actors, NEW by, NEW complete \in BOOLEAN, W!record_handover(a, by, complete)
      PROVE  WindowsFit'
  <2>1. a.authenticated \in BOOLEAN
    BY DEF W!Parameters
  <2>2. [stamp |-> windowStamp + 1, complete |-> complete, authenticated |-> a.authenticated]
          \in W!Handover
    BY <1>7, <1>9, <2>1 DEF W!record_handover, W!Handover
  <2> QED BY <1>1, <1>7, <1>9, <2>2 DEF W!record_handover, WindowsFit, W!world
<1>8. ASSUME \/ \E d \in Declarations : W!Declare(d)
             \/ \E t \in Targets, e \in Evidence : W!Observe(t, e)
      PROVE  WindowsFit'
  BY <1>1, <1>8 DEF W!Declare, W!Observe, WindowsFit
<1> QED BY <1>2, <1>3, <1>4, <1>5, <1>6, <1>7, <1>8 DEF W!Next

\* Closure attempts name the latch as long as neither changes.
LEMMA NamesStay ==
    ASSUME UNCHANGED <<attempts, latch>>, W!ClosureNamesLatch PROVE W!ClosureNamesLatch'
BY DEF W!ClosureNamesLatch

\* A closure recorded now says what the committed stop events say.
LEMMA ClosureRecorded ==
    ASSUME W!Parameters, WindowInv, NEW s \in Callers, W!ClosureRecord(s)
    PROVE  /\ W!ClosureNamesLatch'
           /\ \A c \in attempts' : c.stamp <= windowStamp'
<1>1. /\ ClosuresAgree /\ windowStamp \in Nat
      /\ \A c \in attempts : c.stamp <= windowStamp /\ c.stamp \in Nat
      /\ \A e \in latch : e.stamp <= windowStamp /\ e.stamp \in Nat
  BY DEF WindowInv, WindowsFit, ClosuresAgree, W!Parameters, W!ClosureAttempt
<1>2. /\ windowStamp' = windowStamp + 1 /\ latch' = latch
      /\ attempts' = attempts \cup
           {[window |-> r.window, code |-> r.code, stamp |-> windowStamp + 1] :
               r \in assessing[s].row}
      /\ \A r \in assessing[s].row : r.code = "refused_latch_active" <=> W!StopActive
  BY <1>1 DEF W!ClosureRecord, W!Draw, ClosuresAgree
<1>4. \A c : (LatchedBefore(c.stamp))' <=> LatchedBefore(c.stamp)
  BY <1>2, LatchStays
<1>3. ASSUME NEW c \in attempts'
      PROVE  /\ c.stamp <= windowStamp'
             /\ c.code = "refused_latch_active" <=> LatchedBefore(c.stamp)
  <2>1. CASE c \in attempts
    BY <1>1, <1>2, <2>1, NamesTheLatch DEF ClosuresAgree
  <2>2. CASE c \notin attempts
    <3>1. PICK r \in assessing[s].row :
            c = [window |-> r.window, code |-> r.code, stamp |-> windowStamp + 1]
      BY <1>2, <2>2
    <3>2. c.stamp = windowStamp + 1 /\ c.code = r.code
      BY <3>1
    <3>3. LatchedBefore(windowStamp + 1) <=> W!StopActive
      BY <1>1, LatchedNow
    <3> QED BY <1>1, <1>2, <3>2, <3>3
  <2> QED BY <2>1, <2>2
<1> QED BY <1>3, <1>4, NamesTheLatch

\* A stop event is newer than every attempt recorded.
LEMMA StopRecorded ==
    ASSUME W!Parameters, WindowInv, NEW engaged \in BOOLEAN, W!StopEvent(engaged)
    PROVE  /\ W!ClosureNamesLatch'
           /\ \A e \in latch' : e.stamp <= windowStamp'
           /\ \A c \in attempts' : c.stamp <= windowStamp'
<1>1. /\ ClosuresAgree /\ windowStamp \in Nat
      /\ \A c \in attempts : c.stamp <= windowStamp /\ c.stamp \in Nat
      /\ \A e \in latch : e.stamp <= windowStamp /\ e.stamp \in Nat
  BY DEF WindowInv, WindowsFit, ClosuresAgree, W!Parameters, W!ClosureAttempt
<1>2. /\ windowStamp' = windowStamp + 1 /\ attempts' = attempts
      /\ latch' = latch \cup {[stamp |-> windowStamp + 1, active |-> engaged]}
  BY DEF W!StopEvent, W!Draw
<1>3. \A e \in latch' : e \in latch \/ e.stamp = windowStamp + 1
  BY <1>2
<1>4. ASSUME NEW c \in attempts
      PROVE  (LatchedBefore(c.stamp))' <=> LatchedBefore(c.stamp)
  <2>1. \A e \in latch' \ latch : ~(e.stamp < c.stamp)
    BY <1>1, <1>3
  <2> QED BY <1>2, <2>1, LatchStays
<1>5. W!ClosureNamesLatch'
  BY <1>1, <1>2, <1>4, NamesTheLatch DEF ClosuresAgree
<1> QED BY <1>1, <1>2, <1>3, <1>5

\* The steps, as far as closures and the latch go.
LEMMA ClosuresKeep ==
    ASSUME W!Parameters, WindowInv, W!Next PROVE ClosuresAgree'
<1>1. /\ WindowsFit /\ AssessmentsFit /\ ClosuresAgree
      /\ assessing \in [Callers -> Assessments]
      /\ \A s \in Callers : assessing[s] \in Assessments /\ AssessmentFits(assessing[s])
      /\ MaxWindowStamp \in Nat /\ windowStamp \in Nat
      /\ \A c \in attempts : c.stamp <= windowStamp /\ c.stamp \in Nat
      /\ \A e \in latch : e.stamp <= windowStamp /\ e.stamp \in Nat
  BY DEF WindowInv, AssessmentsFit, WindowsFit, W!Parameters, ClosuresAgree, W!ClosureAttempt
<1> DEFINE Held == /\ latchRow = {} \/ \E s \in Callers : latchRow = {s}
                   /\ \A s \in Callers : assessing[s].op = "closing" =>
                        /\ latchRow = {s}
                        /\ \A r \in assessing[s].row :
                             r.code = "refused_latch_active" <=> W!StopActive
           Shown == \A s \in Callers : \A v \in assessing[s].seen : v.windows \subseteq windows
           Named == /\ \A e \in latch : e.stamp <= windowStamp
                    /\ \A c \in attempts : c.stamp <= windowStamp
                    /\ W!ClosureNamesLatch
<1>2. Held /\ Shown /\ Named
  BY <1>1 DEF ClosuresAgree
<1>3. ASSUME NEW s \in Callers,
             \/ \E a \in Actors, k \in WindowKeys, x \in -1..MaxWindowStamp :
                  W!AssessBegin(s, a, k, x)
             \/ W!AssessUndeclared(s) \/ W!AssessRefused(s) \/ W!AssessInsert(s) \/ W!AssessCommit(s)
             \/ W!AssessFails(s) \/ W!AssessReplay(s) \/ W!AssessCollide(s)
      PROVE  Held' /\ Shown' /\ Named'
  <2>1. /\ UNCHANGED <<attempts, latch, latchRow>>
        /\ windows \subseteq windows' /\ windowStamp <= windowStamp' /\ windowStamp' \in Nat
    BY <1>1, <1>3 DEF W!AssessBegin, W!AssessUndeclared, W!AssessRefused, W!AssessInsert,
                      W!AssessCommit, W!AssessFails, W!AssessReplay, W!AssessCollide, W!Draw
  <2>2. PICK j : /\ assessing' = [assessing EXCEPT ![s] = j] /\ j.op # "closing"
                 /\ j.seen \subseteq assessing[s].seen \cup {W!View}
    <3>1. CASE \E a \in Actors, k \in WindowKeys, x \in -1..MaxWindowStamp :
                 W!AssessBegin(s, a, k, x)
      <4>1. PICK a \in Actors, k \in WindowKeys, x \in -1..MaxWindowStamp : W!AssessBegin(s, a, k, x)
        BY <3>1
      <4> DEFINE j == [op |-> "assessing", actor |-> a, key |-> k, extends |-> x, attempt |-> 1,
                       seen |-> {W!View}, row |-> {}]
      <4>2. assessing' = [assessing EXCEPT ![s] = j] /\ j.op = "assessing" /\ j.seen = {W!View}
        BY <4>1 DEF W!AssessBegin, W!Start
      <4> HIDE DEF j
      <4> QED BY <4>2
    <3>2. CASE W!AssessUndeclared(s) \/ W!AssessCommit(s) \/ W!AssessFails(s) \/ W!AssessReplay(s)
      <4>1. assessing' = [assessing EXCEPT ![s] = W!Idle]
        BY <3>2 DEF W!AssessUndeclared, W!AssessCommit, W!AssessFails, W!AssessReplay, W!Settle
      <4>2. W!Idle.op # "closing" /\ W!Idle.seen = {}
        BY DEF W!Idle
      <4> QED BY <4>1, <4>2
    <3>3. CASE W!AssessInsert(s)
      <4> DEFINE w == W!WindowRow(s, W!Seen(s))
                 op == IF W!Accepted(w, W!TriggerView(s)) THEN "written" ELSE "refused"
                 j == [assessing[s] EXCEPT !.op = op, !.row = {w}]
      <4>1. assessing' = [assessing EXCEPT ![s].op = op, ![s].row = {w}]
        BY <3>3 DEF W!AssessInsert
      <4>2. op # "closing"
        OBVIOUS
      <4> HIDE DEF op, w
      <4>3. assessing' = [assessing EXCEPT ![s] = j] /\ j.op # "closing"
              /\ j.seen = assessing[s].seen
        BY <1>1, <4>1, <4>2 DEF Assessments
      <4> HIDE DEF j
      <4> QED BY <4>3
    <3>4. CASE W!AssessCollide(s)
      <4> DEFINE j == [assessing[s] EXCEPT !.attempt = @ + 1, !.seen = {W!View}]
      <4>1. assessing' = [assessing EXCEPT ![s].attempt = @ + 1, ![s].seen = {W!View}]
            /\ assessing[s].op = "assessing"
        BY <3>4 DEF W!AssessCollide, W!AssessLost, W!AssessArrives, W!Retry
      <4>2. assessing' = [assessing EXCEPT ![s] = j] /\ j.op # "closing" /\ j.seen = {W!View}
        BY <1>1, <4>1 DEF Assessments
      <4> HIDE DEF j
      <4> QED BY <4>2
    <3>5. CASE W!AssessRefused(s)
      <4> DEFINE j == [assessing[s] EXCEPT !.op = "refused"]
      <4>1. assessing' = [assessing EXCEPT ![s] = j]
        BY <1>1, <3>5 DEF W!AssessRefused
      <4>2. j.op = "refused" /\ j.seen = assessing[s].seen
        BY <1>1 DEF Assessments
      <4> HIDE DEF j
      <4> QED BY <4>1, <4>2
    <3> QED BY <1>3, <3>1, <3>2, <3>3, <3>4, <3>5
  <2>3. /\ assessing'[s] = j
        /\ \A o \in Callers : assessing'[o] = IF o = s THEN j ELSE assessing[o]
    BY <1>1, <2>2
  <2>4. W!View.windows = windows
    BY DEF W!View
  <2>5. Shown'
    BY <1>2, <2>1, <2>2, <2>3, <2>4
  <2>8. W!StopActive' <=> W!StopActive
    BY <2>1 DEF W!StopActive
  <2>6. Held'
    BY <1>2, <2>1, <2>2, <2>3, <2>8
  <2>7. Named'
    BY <1>1, <1>2, <2>1, NamesStay
  <2> QED BY <2>5, <2>6, <2>7
<1>4. ASSUME NEW s \in Callers, NEW a \in Actors, W!ClosureBegin(s, a)
      PROVE  Held' /\ Shown' /\ Named'
  <2> DEFINE r == [window |-> W!LatestWindow.stamp,
                   code |-> W!closure_result(W!StopActive, a, W!LatestWindow)]
             j == [W!Idle EXCEPT !.op = "closing", !.actor = a, !.row = {r}]
  <2>1. /\ assessing' = [assessing EXCEPT ![s] = j] /\ latchRow = {} /\ latchRow' = {s}
        /\ UNCHANGED <<windows, attempts, latch, windowStamp>>
    BY <1>4 DEF W!ClosureBegin, W!lock_project_row
  <2>2. r.code = "refused_latch_active" <=> W!StopActive
    <3>1. W!StopActive \in BOOLEAN
      BY DEF W!StopActive
    <3> QED BY <3>1, ResultCodes
  <2> HIDE DEF r
  <2>3. j.op = "closing" /\ j.row = {r} /\ j.seen = {}
    BY DEF W!Idle
  <2> HIDE DEF j
  <2>4. \A o \in Callers : assessing'[o] = IF o = s THEN j ELSE assessing[o]
    BY <1>1, <2>1
  <2>7. W!StopActive' <=> W!StopActive
    BY <2>1 DEF W!StopActive
  <2>5. Held'
    BY <1>2, <2>1, <2>2, <2>3, <2>4, <2>7
  <2>6. Shown' /\ Named'
    BY <1>2, <2>1, <2>3, <2>4, NamesStay
  <2> QED BY <2>5, <2>6
<1>5. ASSUME NEW s \in Callers, W!ClosureRecord(s) PROVE Held' /\ Shown' /\ Named'
  <2>1. /\ assessing' = [assessing EXCEPT ![s] = W!Idle] /\ latchRow = {s}
        /\ latchRow' = latchRow \ {s} /\ UNCHANGED <<windows, latch>>
        /\ windowStamp' = windowStamp + 1
    BY <1>2, <1>5 DEF W!ClosureRecord, W!Settle, W!Draw
  <2>2. W!Idle.op = "idle" /\ W!Idle.seen = {}
    BY DEF W!Idle
  <2>3. \A o \in Callers : assessing'[o] = IF o = s THEN W!Idle ELSE assessing[o]
    BY <1>1, <2>1
  <2>4. \A o \in Callers : assessing'[o].op # "closing"
    BY <1>2, <2>1, <2>2, <2>3
  <2>5. Held'
    BY <2>1, <2>4
  <2>6. Shown'
    BY <1>2, <2>1, <2>2, <2>3
  <2>7. Named'
    BY <1>1, <1>5, <2>1, ClosureRecorded
  <2> QED BY <2>5, <2>6, <2>7
<1>6. ASSUME NEW engaged \in BOOLEAN, W!StopEvent(engaged) PROVE Held' /\ Shown' /\ Named'
  <2>1. latchRow = {} /\ UNCHANGED <<assessing, latchRow, windows>>
    BY <1>6 DEF W!StopEvent
  <2>2. \A s \in Callers : assessing[s].op # "closing"
    BY <1>2, <2>1
  <2>3. Held' /\ Shown'
    BY <1>2, <2>1, <2>2
  <2> QED BY <1>6, <2>3, StopRecorded
<1>7. ASSUME NEW a \in Actors, NEW by, NEW complete \in BOOLEAN, W!record_handover(a, by, complete)
      PROVE  Held' /\ Shown' /\ Named'
  <2>1. UNCHANGED <<assessing, latchRow, windows, attempts, latch>>
          /\ windowStamp' = windowStamp + 1
    BY <1>7 DEF W!record_handover, W!Draw
  <2>4. W!StopActive' <=> W!StopActive
    BY <2>1 DEF W!StopActive
  <2>2. Held' /\ Shown'
    BY <1>2, <2>1, <2>4
  <2>3. Named'
    BY <1>1, <1>2, <2>1, NamesStay
  <2> QED BY <2>2, <2>3
<1>8. ASSUME \/ \E d \in Declarations : W!Declare(d)
             \/ \E t \in Targets, e \in Evidence : W!Observe(t, e)
      PROVE  Held' /\ Shown' /\ Named'
  <2>1. UNCHANGED <<assessing, latchRow, windows, attempts, latch, windowStamp>>
    BY <1>8 DEF W!Declare, W!Observe
  <2>2. W!StopActive' <=> W!StopActive
    BY <2>1 DEF W!StopActive
  <2> QED BY <1>2, <2>1, <2>2, NamesStay
<1>9. (Held /\ Shown /\ Named)' => ClosuresAgree'
  BY DEF ClosuresAgree
<1> HIDE DEF Held, Shown, Named
<1> QED BY <1>3, <1>4, <1>5, <1>6, <1>7, <1>8, <1>9 DEF W!Next

\* The windows begin in their invariant.
LEMMA WindowsBegin == ASSUME W!Parameters, W!Init PROVE WindowInv
<1>1. \A s \in Callers : assessing[s] = W!Idle
  BY DEF W!Init
<1>2. WindowsFit
  BY DEF W!Init, WindowsFit, W!Parameters
<1>3. AssessmentsFit
  <2>1. assessing = [s \in Callers |-> W!Idle]
    BY DEF W!Init
  <2> QED BY <1>2, <2>1, IdleAssessmentFits DEF AssessmentsFit
<1>4. W!Idle.op = "idle" /\ W!Idle.seen = {}
  BY DEF W!Idle
<1>5. ClosuresAgree
  BY <1>1, <1>4 DEF W!Init, ClosuresAgree, W!ClosureNamesLatch
<1> QED BY <1>2, <1>3, <1>5 DEF WindowInv

\* Every step of the windows keeps their invariant.
LEMMA WindowsGoOn == ASSUME W!Parameters, WindowInv, [W!Next]_W!vars PROVE WindowInv'
<1>1. CASE UNCHANGED W!vars
  <2>1. WindowsFit' /\ AssessmentsFit'
    BY <1>1 DEF W!vars, W!world, WindowInv, WindowsFit, AssessmentsFit, AssessmentFits, Misfit,
       W!CountMatch
  <2>2. ClosuresAgree'
    BY <1>1 DEF W!vars, W!world, WindowInv, ClosuresAgree, W!ClosureNamesLatch, W!StopActive
  <2> QED BY <2>1, <2>2 DEF WindowInv
<1>2. CASE W!Next
  BY <1>2, TablesKeep, AssessmentsKeep, ClosuresKeep DEF WindowInv
<1> QED BY <1>1, <1>2

\* What the invariant says of assessments and closures.
LEMMA WindowsHold ==
    ASSUME W!Parameters, WindowInv
    PROVE  /\ W!TypeOK /\ W!AssessmentFitsGuards /\ W!ClosureNamesLatch /\ W!SecondAssessmentSettles
<1>1. W!TypeOK
  <2>1. latchRow = {} \/ \E s \in Callers : latchRow = {s}
    BY DEF WindowInv, ClosuresAgree
  <2>2. latchRow \subseteq Callers /\ W!Cardinality(latchRow) <= 1
    <3>1. CASE latchRow = {}
      <4>1. W!Cardinality(latchRow) = 0
        BY <3>1, FS_EmptySet, SameCards
      <4> QED BY <3>1, <4>1
    <3>2. CASE \E s \in Callers : latchRow = {s}
      <4>1. PICK s \in Callers : latchRow = {s}
        BY <3>2
      <4>2. W!Cardinality(latchRow) = 1
        BY <4>1, FS_Singleton, SameCards
      <4> QED BY <4>1, <4>2
    <3> QED BY <2>1, <3>1, <3>2
  <2> QED BY <2>2 DEF WindowInv, WindowsFit, W!TypeOK
<1>2. W!AssessmentFitsGuards
  <2>1. ASSUME NEW s \in Callers, assessing[s].op \in {"written", "refused"}
        PROVE  /\ W!BroughtMisfit(s) <=> assessing[s].op = "refused"
               /\ assessing[s].op = "written" => \A w \in assessing[s].row : W!CountMatch(w)
    <3>1. AssessmentFits(assessing[s])
      BY DEF WindowInv, AssessmentsFit
    <3>2. PICK v \in Views : assessing[s].seen = {v}
      BY <2>1, <3>1 DEF AssessmentFits
    <3>3. W!BroughtMisfit(s) <=> Misfit(assessing[s], v)
      BY <3>2 DEF W!BroughtMisfit, W!Seen, Misfit
    <3> QED BY <2>1, <3>1, <3>2, <3>3 DEF AssessmentFits
  <2> QED BY <2>1 DEF W!AssessmentFitsGuards
<1>3. W!SecondAssessmentSettles
  <2> SUFFICES ASSUME NEW s \in Callers, assessing[s].op = "assessing"
               PROVE  assessing[s].attempt <= 2
    BY DEF W!SecondAssessmentSettles
  <2>1. AssessmentFits(assessing[s])
    BY DEF WindowInv, AssessmentsFit
  <2>2. PICK v \in Views : assessing[s].seen = {v}
    BY <2>1 DEF AssessmentFits
  <2>3. assessing[s].attempt \in {1, 2}
    BY <2>1, <2>2 DEF AssessmentFits
  <2> QED BY <2>3
<1> QED BY <1>1, <1>2, <1>3 DEF WindowInv, ClosuresAgree

-----------------------------------------------------------------------------
(* Incidents, tickets and hotfix runs.                                       *)

\* What the sessions of the incident services hold.
Snapshots == [policy : Policies, incidents : SUBSET I!OpsIncident,
              tickets : SUBSET I!OpsIncidentTicket]

\* The calls whose transaction is still open.
Calls == {"open", "transition", "evaluate", "hotfix", "decided"}

\* What a session of the incident services holds.
Tasks == [op : Calls \cup {"idle", "stop"}, id : Incidents \cup {""},
          arg : Payloads \cup I!STATUSES \cup HotfixKeys \cup {""}, attempt : Nat,
          active : BOOLEAN, seen : Snapshots]

\* The arguments a call came with.
TaskFits(j) ==
    /\ j.op \in Calls => j.id \in Incidents
    /\ j.op = "open" => j.arg \in Payloads
    /\ j.op = "transition" => j.arg \in I!STATUSES
    /\ j.op \in {"hotfix", "decided"} => j.arg \in HotfixKeys

\* Every session holds a fitting task.
TasksFit == responding \in [Callers -> Tasks] /\ \A s \in Callers : TaskFits(responding[s])

\* The project row is held by the one session whose call needs it.
RowHeld ==
    /\ projectRow = {} \/ \E s \in Callers : projectRow = {s}
    /\ \A s \in Callers : responding[s].op \in {"hotfix", "decided", "stop"} => projectRow = {s}

\* The tables have their types.
RecordsFit ==
    /\ policy \in Policies /\ context \in Contexts
    /\ incidents \subseteq I!OpsIncident
    /\ \A i \in Incidents : events[i] \in Seq(I!EventTypes) /\ Len(events[i]) <= MaxEvents
    /\ DOMAIN events = Incidents
    /\ tickets \subseteq I!OpsIncidentTicket
    /\ evaluations \subseteq I!OpsIncidentActionEvaluation
    /\ hotfixes \subseteq I!OpsSelfHealingRun
    /\ \A e \in stops : e.stamp \in 1..MaxIncidentStamp /\ e.active \in BOOLEAN
    /\ incidentStamp \in 0..MaxIncidentStamp

\* Rows, sessions and the lock together.
OpsFit == RecordsFit /\ TasksFit /\ RowHeld

\* One session moves to one task, or none does.
LEMMA TaskSet ==
    ASSUME TasksFit, NEW s \in Callers, NEW j \in Tasks, TaskFits(j),
           responding' = [responding EXCEPT ![s] = j]
    PROVE  /\ TasksFit' /\ responding'[s] = j
           /\ \A o \in Callers \ {s} : responding'[o] = responding[o]
<1>1. responding \in [Callers -> Tasks]
  BY DEF TasksFit
<1>2. /\ responding' \in [Callers -> Tasks]
      /\ \A o \in Callers : responding'[o] = IF o = s THEN j ELSE responding[o]
  BY <1>1
<1>3. \A o \in Callers : TaskFits(responding'[o])
  BY <1>2 DEF TasksFit
<1>4. (\A o \in Callers : TaskFits(responding[o]))'
  BY <1>3 DEF TaskFits
<1> QED BY <1>2, <1>4 DEF TasksFit

\* A snapshot of rows with their types has its type.
LEMMA SnapshotFits == ASSUME RecordsFit PROVE I!Committed \in Snapshots
BY DEF RecordsFit, I!Committed, Snapshots

\* A session that does nothing fits.
LEMMA IdleFits == ASSUME RecordsFit PROVE I!Idle \in Tasks /\ TaskFits(I!Idle) /\ I!Idle.op = "idle"
<1>1. I!Nothing \in Policies
  BY DEF RecordsFit, I!Nothing
<1> QED BY <1>1 DEF I!Idle, Tasks, TaskFits, Calls, Snapshots

\* A session that starts a call fits.
LEMMA StartFits ==
    ASSUME RecordsFit, NEW s \in Callers, NEW op, NEW i \in Incidents, NEW arg,
           I!Start(s, op, i, arg),
           \/ op = "open" /\ arg \in Payloads
           \/ op = "transition" /\ arg \in I!STATUSES
           \/ op = "evaluate" /\ arg = ""
           \/ op = "hotfix" /\ arg \in HotfixKeys
    PROVE  LET j == [op |-> op, id |-> i, arg |-> arg, attempt |-> 1, active |-> FALSE,
                     seen |-> I!Committed]
           IN  j \in Tasks /\ TaskFits(j) /\ responding' = [responding EXCEPT ![s] = j]
                 /\ responding[s].op = "idle"
<1>1. I!Committed \in Snapshots
  BY SnapshotFits
<1> QED BY <1>1 DEF I!Start, Tasks, TaskFits, Calls

\* A session that retries its call fits.
LEMMA RetryFits ==
    ASSUME RecordsFit, TasksFit, NEW s \in Callers, I!Retry(s)
    PROVE  LET j == [responding[s] EXCEPT !.attempt = @ + 1, !.seen = I!Committed]
           IN  j \in Tasks /\ TaskFits(j) /\ responding' = [responding EXCEPT ![s] = j]
<1> DEFINE j == [responding[s] EXCEPT !.attempt = @ + 1, !.seen = I!Committed]
<1>1. I!Committed \in Snapshots /\ responding[s] \in Tasks /\ TaskFits(responding[s])
  BY SnapshotFits DEF TasksFit
<1>2. responding \in [Callers -> Tasks]
  BY DEF TasksFit
<1>8. responding[s].attempt \in Nat
  BY <1>1 DEF Tasks
<1>3. responding[s].attempt + 1 \in Nat
  BY <1>8
<1>6. j \in Tasks
  BY <1>1, <1>3 DEF Tasks
<1>7. j.op = responding[s].op /\ j.arg = responding[s].arg /\ j.id = responding[s].id
  BY <1>1 DEF Tasks
<1>4. responding' = [responding EXCEPT ![s] = j]
  BY <1>2 DEF I!Retry
<1>5. TaskFits(j)
  BY <1>1, <1>7 DEF TaskFits
<1> QED BY <1>6, <1>4, <1>5

\* The steps of sessions, as far as sessions go.
LEMMA TasksKeep == ASSUME I!Parameters, OpsFit, I!Next PROVE TasksFit'
<1>1. RecordsFit /\ TasksFit /\ RowHeld
  BY DEF OpsFit
<1>2. ASSUME NEW s \in Callers, NEW i \in Incidents,
             \/ \E d \in Payloads : I!OpenBegin(s, i, d)
             \/ \E to \in I!STATUSES : I!TransitionBegin(s, i, to)
             \/ I!EvaluateBegin(s, i)
             \/ \E k \in HotfixKeys : I!HotfixBegin(s, i, k)
      PROVE  TasksFit'
  <2>1. ASSUME NEW d \in Payloads, I!OpenBegin(s, i, d) PROVE TasksFit'
    <3>1. I!Start(s, "open", i, d)
      BY <2>1 DEF I!OpenBegin
    <3> QED BY <1>1, <3>1, StartFits, TaskSet
  <2>2. ASSUME NEW to \in I!STATUSES, I!TransitionBegin(s, i, to) PROVE TasksFit'
    <3>1. I!Start(s, "transition", i, to)
      BY <2>2 DEF I!TransitionBegin
    <3> QED BY <1>1, <3>1, StartFits, TaskSet
  <2>3. ASSUME I!EvaluateBegin(s, i) PROVE TasksFit'
    <3>1. I!Start(s, "evaluate", i, "")
      BY <2>3 DEF I!EvaluateBegin
    <3> QED BY <1>1, <3>1, StartFits, TaskSet
  <2>4. ASSUME NEW k \in HotfixKeys, I!HotfixBegin(s, i, k) PROVE TasksFit'
    <3>1. I!Start(s, "hotfix", i, k)
      BY <2>4 DEF I!HotfixBegin
    <3> QED BY <1>1, <3>1, StartFits, TaskSet
  <2> QED BY <1>2, <2>1, <2>2, <2>3, <2>4
<1>3. ASSUME NEW s \in Callers,
             \/ I!OpenReplay(s) \/ I!Open(s) \/ I!TransitionRefused(s) \/ I!Transition(s)
             \/ I!EvaluateNow(s) \/ I!EvaluateLost(s) \/ I!HotfixRecord(s) \/ I!HotfixReplay(s)
             \/ I!StopCommit(s)
      PROVE  TasksFit'
  <2>1. responding' = [responding EXCEPT ![s] = I!Idle]
    BY <1>3 DEF I!OpenReplay, I!Open, I!TransitionRefused, I!Transition, I!EvaluateNow,
                I!EvaluateLost, I!HotfixRecord, I!HotfixReplay, I!StopCommit, I!Settle
  <2> QED BY <1>1, <2>1, IdleFits, TaskSet
<1>4. ASSUME NEW s \in Callers, I!OpenCollide(s) \/ I!TransitionConflict(s) PROVE TasksFit'
  BY <1>1, <1>4, RetryFits, TaskSet DEF I!OpenCollide, I!TransitionConflict
<1>5. ASSUME NEW s \in Callers, I!HotfixDecide(s) PROVE TasksFit'
  <2> DEFINE j == [responding[s] EXCEPT !.op = "decided", !.seen.policy = policy]
  <2>1. responding[s] \in Tasks /\ TaskFits(responding[s]) /\ responding \in [Callers -> Tasks]
        /\ policy \in Policies /\ responding[s].op = "hotfix"
    BY <1>1, <1>5 DEF TasksFit, RecordsFit, I!HotfixDecide
  <2>2. responding' = [responding EXCEPT ![s] = j]
    BY <1>5, <2>1 DEF I!HotfixDecide
  <2>3. j \in Tasks /\ j.op = "decided" /\ j.id = responding[s].id /\ j.arg = responding[s].arg
    BY <2>1 DEF Tasks, Snapshots, Calls
  <2>4. TaskFits(j)
    BY <2>1, <2>3 DEF TaskFits, Calls
  <2> HIDE DEF j
  <2> QED BY <1>1, <2>2, <2>3, <2>4, TaskSet
<1>6. ASSUME NEW s \in Callers, NEW engaged \in BOOLEAN, I!StopInsert(s, engaged) PROVE TasksFit'
  <2> DEFINE j == [I!Idle EXCEPT !.op = "stop", !.active = engaged, !.attempt = incidentStamp + 1]
  <2>1. responding' = [responding EXCEPT ![s] = j] /\ incidentStamp + 1 \in Nat
    BY <1>1, <1>6 DEF I!StopInsert, RecordsFit, I!Parameters
  <2>2. j \in Tasks /\ TaskFits(j)
    BY <1>1, <2>1, IdleFits DEF Tasks, TaskFits, Calls
  <2> HIDE DEF j
  <2> QED BY <1>1, <2>1, <2>2, TaskSet
<1>7. ASSUME UNCHANGED responding PROVE TasksFit'
  BY <1>1, <1>7 DEF TasksFit, TaskFits
<1>8. /\ \A i \in Incidents : I!LogDiagnosisUnavailable(i) => UNCHANGED responding
      /\ \A p \in Policies : I!SetPolicy(p) => UNCHANGED responding
      /\ \A c \in Contexts : I!SetContext(c) => UNCHANGED responding
  BY DEF I!LogDiagnosisUnavailable, I!SetPolicy, I!SetContext
<1> QED BY <1>2, <1>3, <1>4, <1>5, <1>6, <1>7, <1>8 DEF I!Next

\* The project row is taken and given back with the call.
LEMMA HoldersKeep == ASSUME I!Parameters, OpsFit, I!Next PROVE RowHeld'
<1>1. RecordsFit /\ TasksFit /\ RowHeld /\ responding \in [Callers -> Tasks]
  BY DEF OpsFit, TasksFit
<1> DEFINE Holding == {"hotfix", "decided", "stop"}
<1>2. ASSUME NEW s \in Callers, NEW j, responding' = [responding EXCEPT ![s] = j],
             \/ UNCHANGED projectRow /\ (j.op \in Holding => responding[s].op \in Holding)
             \/ projectRow = {} /\ projectRow' = {s}
             \/ responding[s].op \in Holding /\ projectRow' = projectRow \ {s} /\ j.op = "idle"
      PROVE  RowHeld'
  <2>1. \A o \in Callers : responding'[o] = IF o = s THEN j ELSE responding[o]
    BY <1>1, <1>2
  <2>2. CASE UNCHANGED projectRow /\ (j.op \in Holding => responding[s].op \in Holding)
    BY <1>1, <2>1, <2>2 DEF RowHeld
  <2>3. CASE projectRow = {} /\ projectRow' = {s}
    BY <1>1, <2>1, <2>3 DEF RowHeld
  <2>4. CASE responding[s].op \in Holding /\ projectRow' = projectRow \ {s} /\ j.op = "idle"
    <3>1. projectRow = {s} /\ projectRow' = {}
      BY <1>1, <2>4 DEF RowHeld
    <3>2. \A o \in Callers : responding'[o].op \notin Holding
      BY <1>1, <2>1, <2>4, <3>1 DEF RowHeld
    <3> QED BY <3>1, <3>2 DEF RowHeld
  <2> QED BY <1>2, <2>2, <2>3, <2>4
<1>3. ASSUME NEW s \in Callers, NEW i \in Incidents,
             \/ \E d \in Payloads : I!OpenBegin(s, i, d)
             \/ \E to \in I!STATUSES : I!TransitionBegin(s, i, to)
             \/ I!EvaluateBegin(s, i)
      PROVE  RowHeld'
  <2>1. ASSUME NEW op \in {"open", "transition", "evaluate"}, NEW arg, I!Start(s, op, i, arg),
               UNCHANGED projectRow
        PROVE  RowHeld'
    BY <1>2, <2>1 DEF I!Start
  <2>2. ASSUME NEW d \in Payloads, I!OpenBegin(s, i, d) PROVE RowHeld'
    BY <2>1, <2>2 DEF I!OpenBegin
  <2>3. ASSUME NEW to \in I!STATUSES, I!TransitionBegin(s, i, to) PROVE RowHeld'
    BY <2>1, <2>3 DEF I!TransitionBegin
  <2>4. ASSUME I!EvaluateBegin(s, i) PROVE RowHeld'
    BY <2>1, <2>4 DEF I!EvaluateBegin
  <2> QED BY <1>3, <2>2, <2>3, <2>4
<1>4. ASSUME NEW s \in Callers, NEW i \in Incidents, NEW k \in HotfixKeys, I!HotfixBegin(s, i, k)
      PROVE  RowHeld'
  BY <1>2, <1>4 DEF I!HotfixBegin, I!assert_project_not_stopped, I!Start
<1>5. ASSUME NEW s \in Callers,
             \/ I!OpenReplay(s) \/ I!Open(s) \/ I!TransitionRefused(s) \/ I!Transition(s)
             \/ I!EvaluateNow(s) \/ I!EvaluateLost(s)
      PROVE  RowHeld'
  <2>1. responding' = [responding EXCEPT ![s] = I!Idle] /\ UNCHANGED projectRow
    BY <1>5 DEF I!OpenReplay, I!Open, I!TransitionRefused, I!Transition, I!EvaluateNow,
                I!EvaluateLost, I!Settle
  <2> QED BY <1>1, <1>2, <2>1, IdleFits
<1>6. ASSUME NEW s \in Callers, I!HotfixRecord(s) \/ I!HotfixReplay(s) \/ I!StopCommit(s)
      PROVE  RowHeld'
  <2>1. responding' = [responding EXCEPT ![s] = I!Idle] /\ projectRow' = projectRow \ {s}
        /\ responding[s].op \in Holding
    BY <1>6 DEF I!HotfixRecord, I!HotfixReplay, I!StopCommit, I!Settle
  <2> QED BY <1>1, <1>2, <2>1, IdleFits
<1>7. ASSUME NEW s \in Callers, I!OpenCollide(s) \/ I!TransitionConflict(s) PROVE RowHeld'
  <2> DEFINE j == [responding[s] EXCEPT !.attempt = @ + 1, !.seen = I!Committed]
  <2>1. responding' = [responding EXCEPT ![s] = j] /\ UNCHANGED projectRow
    BY <1>1, <1>7, RetryFits DEF I!OpenCollide, I!TransitionConflict
  <2>2. responding[s] \in Tasks
    BY <1>1
  <2>3. j.op = responding[s].op
    BY <2>2 DEF Tasks
  <2> HIDE DEF j
  <2> QED BY <1>2, <2>1, <2>3
<1>8. ASSUME NEW s \in Callers, I!HotfixDecide(s) PROVE RowHeld'
  <2> DEFINE j == [responding[s] EXCEPT !.op = "decided", !.seen.policy = policy]
  <2>1. responding' = [responding EXCEPT ![s] = j] /\ UNCHANGED projectRow
          /\ responding[s].op = "hotfix"
    BY <1>1, <1>8 DEF I!HotfixDecide
  <2> HIDE DEF j
  <2> QED BY <1>2, <2>1
<1>9. ASSUME NEW s \in Callers, NEW engaged \in BOOLEAN, I!StopInsert(s, engaged) PROVE RowHeld'
  <2> DEFINE j == [I!Idle EXCEPT !.op = "stop", !.active = engaged, !.attempt = incidentStamp + 1]
  <2>1. responding' = [responding EXCEPT ![s] = j] /\ projectRow = {} /\ projectRow' = {s}
    BY <1>9 DEF I!StopInsert
  <2> HIDE DEF j
  <2> QED BY <1>2, <2>1
<1>10. ASSUME UNCHANGED <<projectRow, responding>> PROVE RowHeld'
  BY <1>1, <1>10 DEF RowHeld
<1>11. /\ \A i \in Incidents : I!LogDiagnosisUnavailable(i) => UNCHANGED <<projectRow, responding>>
       /\ \A p \in Policies : I!SetPolicy(p) => UNCHANGED <<projectRow, responding>>
       /\ \A c \in Contexts : I!SetContext(c) => UNCHANGED <<projectRow, responding>>
  BY DEF I!LogDiagnosisUnavailable, I!SetPolicy, I!SetContext
<1> QED BY <1>3, <1>4, <1>5, <1>6, <1>7, <1>8, <1>9, <1>10, <1>11 DEF I!Next

-----------------------------------------------------------------------------
\* What the prescriptions of a policy are.
LEMMA Prescriptions ==
    ASSUME I!Parameters, NEW p \in Policies
    PROVE  /\ I!evaluate_actions(p) \in [1..7 -> I!ActionChild]
           /\ I!evaluate_actions(p)[1].decision = p["create_project_tasks"]
           /\ I!evaluate_actions(p)[3].decision = p["create_branches"]
           /\ I!evaluate_actions(p)[4].decision = p["open_pull_requests"]
           /\ I!evaluate_actions(p)[5].decision = p["deploy_staging"]
           /\ I!evaluate_actions(p)[6].decision = p["deploy_production"]
           /\ \A seq \in 1..7 : I!ActionResultCheck(seq, I!evaluate_actions(p)[seq])
           /\ I!ticket_should_exist(I!evaluate_actions(p)) <=> I!evaluate_actions(p)[1].ticketed
<1>1. /\ \A a \in I!MatrixActions : p[a] \in {"allow", "deny", "needs_approval"}
      /\ I!MatrixActions = {"create_project_tasks", "create_branches", "open_pull_requests",
                          "deploy_staging", "deploy_production"}
  BY DEF I!Parameters, I!MatrixActions, I!Decisions
<1> DEFINE c == I!evaluate_actions(p)
           later(a, r) == [decision |-> p[a], reason |-> r, ticketed |-> FALSE]
<1>2. /\ c[1] = IF p["create_project_tasks"] = "allow"
                THEN [decision |-> p["create_project_tasks"], reason |-> "ticket_written",
                      ticketed |-> TRUE]
                ELSE [decision |-> p["create_project_tasks"],
                      reason |-> "ticket_denied_by_policy", ticketed |-> FALSE]
      /\ c[2] = [decision |-> "not_evaluated", reason |-> "no_log_source", ticketed |-> FALSE]
      /\ c[3] = later("create_branches", "deferred_slice58")
      /\ c[4] = later("open_pull_requests", "deferred_slice58")
      /\ c[5] = later("deploy_staging", "deferred_slice58")
      /\ c[6] = later("deploy_production", "production_not_executed")
      /\ c[7] = later("deploy_production", "production_not_executed")
      /\ DOMAIN c = 1..7
  BY DEF I!evaluate_actions
<1>3. c = [seq \in 1..7 |-> c[seq]]
  BY DEF I!evaluate_actions
<1> HIDE DEF c
<1>4. \A seq \in 1..7 : seq = 1 \/ seq = 2 \/ seq = 3 \/ seq = 4 \/ seq = 5 \/ seq = 6 \/ seq = 7
  OBVIOUS
<1>5. c[1] \in I!ActionChild /\ c[2] \in I!ActionChild
  BY <1>1, <1>2 DEF I!ActionChild, I!Decisions
<1>6. c[3] \in I!ActionChild /\ c[4] \in I!ActionChild /\ c[5] \in I!ActionChild
      /\ c[6] \in I!ActionChild /\ c[7] \in I!ActionChild
  BY <1>1, <1>2 DEF I!ActionChild, I!Decisions
<1>7. \A seq \in 1..7 : c[seq] \in I!ActionChild
  BY <1>4, <1>5, <1>6
<1>8. I!ActionResultCheck(1, c[1]) /\ I!ActionResultCheck(2, c[2])
  <2>1. I!ActionResultCheck(2, c[2])
    BY <1>2 DEF I!ActionResultCheck, I!PostureCheck
  <2>2. /\ c[1].ticketed = (c[1].decision = "allow")
        /\ c[1].reason = IF c[1].decision = "allow" THEN "ticket_written"
                         ELSE "ticket_denied_by_policy"
        /\ c[1].decision # "not_evaluated"
    <3>1. CASE p["create_project_tasks"] = "allow"
      <4>1. c[1] = [decision |-> "allow", reason |-> "ticket_written", ticketed |-> TRUE]
        BY <1>2, <3>1
      <4>2. c[1].ticketed = TRUE /\ c[1].decision = "allow" /\ c[1].reason = "ticket_written"
        BY <4>1
      <4> QED BY <4>2
    <3>2. CASE p["create_project_tasks"] # "allow"
      <4>1. c[1] = [decision |-> p["create_project_tasks"],
                    reason |-> "ticket_denied_by_policy", ticketed |-> FALSE]
        BY <1>2, <3>2
      <4>2. c[1].ticketed = FALSE /\ c[1].decision = p["create_project_tasks"]
            /\ c[1].reason = "ticket_denied_by_policy"
        BY <4>1
      <4>3. c[1].decision # "allow" /\ c[1].decision # "not_evaluated"
        BY <1>1, <3>2, <4>2
      <4> QED BY <4>2, <4>3
    <3> QED BY <3>1, <3>2
  <2> QED BY <2>1, <2>2 DEF I!ActionResultCheck, I!PostureCheck
<1>9. I!ActionResultCheck(3, c[3]) /\ I!ActionResultCheck(4, c[4]) /\ I!ActionResultCheck(5, c[5])
      /\ I!ActionResultCheck(6, c[6]) /\ I!ActionResultCheck(7, c[7])
  BY <1>1, <1>2 DEF I!ActionResultCheck, I!PostureCheck
<1>10. \A seq \in 1..7 : I!ActionResultCheck(seq, c[seq])
  BY <1>4, <1>8, <1>9
<1>11. I!ticket_should_exist(c) <=> c[1].ticketed
  BY <1>2 DEF I!ticket_should_exist
<1>12. c \in [1..7 -> I!ActionChild]
  BY <1>3, <1>7
<1> QED BY <1>2, <1>10, <1>11, <1>12 DEF c

\* What the hotfix intents of a policy are.
LEMMA Intents ==
    ASSUME I!Parameters, NEW p \in Policies
    PROVE  /\ I!evaluate_hotfix_actions(p) \in [3..7 -> I!HotfixChild]
           /\ I!evaluate_hotfix_actions(p)[3].decision = p["create_branches"]
           /\ I!evaluate_hotfix_actions(p)[4].plan # I!NoPlan =>
                p["create_branches"] = "allow" /\ p["open_pull_requests"] = "allow"
           /\ I!HotfixPlans(I!evaluate_hotfix_actions(p)) \subseteq I!OpsHotfixPlan
<1>1. /\ \A a \in I!MatrixActions : p[a] \in {"allow", "deny", "needs_approval"}
      /\ I!MatrixActions = {"create_project_tasks", "create_branches", "open_pull_requests",
                          "deploy_staging", "deploy_production"}
  BY DEF I!Parameters, I!MatrixActions, I!Decisions
<1> DEFINE c == I!evaluate_hotfix_actions(p)
           plain(a) == [decision |-> p[a], plan |-> I!NoPlan]
<1>2. /\ c[3] = [decision |-> p["create_branches"],
                 plan |-> IF p["create_branches"] = "allow" THEN "patch_branch" ELSE I!NoPlan]
      /\ c[4] = [decision |-> p["open_pull_requests"],
                 plan |-> IF p["create_branches"] = "allow" /\ p["open_pull_requests"] = "allow"
                          THEN "hotfix_pr" ELSE I!NoPlan]
      /\ c[5] = plain("deploy_staging") /\ c[6] = plain("deploy_production")
      /\ c[7] = plain("deploy_production")
      /\ c = [seq \in 3..7 |-> c[seq]]
  BY DEF I!evaluate_hotfix_actions
<1> HIDE DEF c
<1>3. c[3] \in I!HotfixChild /\ c[4] \in I!HotfixChild
  BY <1>1, <1>2 DEF I!HotfixChild, I!Decisions, I!OpsHotfixPlan, I!NoPlan
<1>4. c[5] \in I!HotfixChild /\ c[6] \in I!HotfixChild /\ c[7] \in I!HotfixChild
  BY <1>1, <1>2 DEF I!HotfixChild, I!Decisions, I!OpsHotfixPlan, I!NoPlan
<1>5. \A seq \in 3..7 : seq = 3 \/ seq = 4 \/ seq = 5 \/ seq = 6 \/ seq = 7
  OBVIOUS
<1>6. \A seq \in 3..7 : c[seq] \in I!HotfixChild
  BY <1>3, <1>4, <1>5
<1>7. c \in [3..7 -> I!HotfixChild]
  BY <1>2, <1>6
<1>8. I!HotfixPlans(c) \subseteq I!OpsHotfixPlan
  BY <1>2 DEF I!HotfixPlans, I!OpsHotfixPlan, I!NoPlan
<1> QED BY <1>2, <1>7, <1>8 DEF c, I!NoPlan

\* What a session holds after a step: what it held, nothing, what a new call or
\* a retry has just read, or a decision.
Started(s) ==
    /\ responding'[s].seen = I!Committed /\ responding'[s].attempt = 1
         /\ responding'[s].op \in Calls
    /\ responding'[s].op \in {"transition", "evaluate"} => I!Known(incidents, responding'[s].id)

\* The session retries.
Retried(s) ==
    /\ responding'[s].seen = I!Committed /\ responding'[s].attempt = responding[s].attempt + 1
    /\ responding'[s].op = responding[s].op /\ responding'[s].id = responding[s].id
    /\ responding'[s].arg = responding[s].arg
    /\ \/ I!OpenCollide(s)
       \/ I!TransitionConflict(s)

\* The session has the decision of its hotfix.
Decided(s) ==
    /\ responding[s].op = "hotfix" /\ responding'[s].op = "decided"
    /\ responding'[s].seen.incidents = responding[s].seen.incidents
    /\ responding'[s].seen.tickets = responding[s].seen.tickets

\* The session holds the project row for a stop.
Stopping(s) ==
    /\ responding'[s].op = "stop" /\ responding'[s].seen.incidents = {}
         /\ responding'[s].seen.tickets = {}
    /\ \E engaged \in BOOLEAN : I!StopInsert(s, engaged)

\* What a step may do to a session.
Steps(s) ==
    \/ responding'[s] = responding[s] \/ responding'[s] = I!Idle
    \/ Started(s) \/ Retried(s) \/ Decided(s) \/ Stopping(s)

\* Every step does one of these to each session.
LEMMA SessionSteps == ASSUME I!Parameters, OpsFit, I!Next PROVE \A s \in Callers : Steps(s)
<1>1. RecordsFit /\ TasksFit /\ responding \in [Callers -> Tasks]
  BY DEF OpsFit, TasksFit
<1>2. ASSUME NEW s \in Callers, NEW j, responding' = [responding EXCEPT ![s] = j],
             responding'[s] = j => Steps(s)
      PROVE  \A o \in Callers : Steps(o)
  <2>1. \A o \in Callers : responding'[o] = IF o = s THEN j ELSE responding[o]
    BY <1>1, <1>2
  <2>2. \A o \in Callers : o # s => Steps(o)
    BY <2>1 DEF Steps
  <2> QED BY <1>2, <2>1, <2>2
<1>3. ASSUME NEW s \in Callers, NEW op \in Calls, NEW i \in Incidents, NEW arg,
               I!Start(s, op, i, arg),
             op \in {"transition", "evaluate"} => I!Known(incidents, i)
      PROVE  \A o \in Callers : Steps(o)
  <2> DEFINE j == [op |-> op, id |-> i, arg |-> arg, attempt |-> 1, active |-> FALSE,
                   seen |-> I!Committed]
  <2>1. responding' = [responding EXCEPT ![s] = j] /\ j.seen = I!Committed /\ j.attempt = 1
        /\ j.op = op /\ j.id = i
    BY <1>3 DEF I!Start
  <2> HIDE DEF j
  <2>2. responding'[s] = j => Steps(s)
    BY <1>3, <2>1 DEF Steps, Started
  <2> QED BY <1>2, <2>1, <2>2
<1>4. ASSUME NEW s \in Callers, NEW i \in Incidents,
             \/ \E d \in Payloads : I!OpenBegin(s, i, d)
             \/ \E to \in I!STATUSES : I!TransitionBegin(s, i, to)
             \/ I!EvaluateBegin(s, i)
             \/ \E k \in HotfixKeys : I!HotfixBegin(s, i, k)
      PROVE  \A o \in Callers : Steps(o)
  <2>1. ASSUME NEW d \in Payloads, I!OpenBegin(s, i, d) PROVE \A o \in Callers : Steps(o)
    BY <1>3, <2>1 DEF I!OpenBegin, Calls
  <2>2. ASSUME NEW to \in I!STATUSES, I!TransitionBegin(s, i, to)
        PROVE  \A o \in Callers : Steps(o)
    BY <1>3, <2>2 DEF I!TransitionBegin, Calls
  <2>3. ASSUME I!EvaluateBegin(s, i) PROVE \A o \in Callers : Steps(o)
    BY <1>3, <2>3 DEF I!EvaluateBegin, Calls
  <2>4. ASSUME NEW k \in HotfixKeys, I!HotfixBegin(s, i, k) PROVE \A o \in Callers : Steps(o)
    BY <1>3, <2>4 DEF I!HotfixBegin, Calls
  <2> QED BY <1>4, <2>1, <2>2, <2>3, <2>4
<1>5. ASSUME NEW s \in Callers,
             \/ I!OpenReplay(s) \/ I!Open(s) \/ I!TransitionRefused(s) \/ I!Transition(s)
             \/ I!EvaluateNow(s) \/ I!EvaluateLost(s) \/ I!HotfixRecord(s) \/ I!HotfixReplay(s)
             \/ I!StopCommit(s)
      PROVE  \A o \in Callers : Steps(o)
  <2>1. responding' = [responding EXCEPT ![s] = I!Idle]
    BY <1>5 DEF I!OpenReplay, I!Open, I!TransitionRefused, I!Transition, I!EvaluateNow,
                I!EvaluateLost, I!HotfixRecord, I!HotfixReplay, I!StopCommit, I!Settle
  <2> QED BY <1>2, <2>1 DEF Steps
<1>6. ASSUME NEW s \in Callers, I!OpenCollide(s) \/ I!TransitionConflict(s)
      PROVE  \A o \in Callers : Steps(o)
  <2> DEFINE j == [responding[s] EXCEPT !.attempt = @ + 1, !.seen = I!Committed]
  <2>1. responding' = [responding EXCEPT ![s] = j]
    BY <1>1, <1>6, RetryFits DEF I!OpenCollide, I!TransitionConflict
  <2>2. responding[s] \in Tasks
    BY <1>1
  <2>3. j.op = responding[s].op /\ j.id = responding[s].id /\ j.arg = responding[s].arg
        /\ j.attempt = responding[s].attempt + 1 /\ j.seen = I!Committed
    BY <2>2 DEF Tasks
  <2> HIDE DEF j
  <2>4. responding'[s] = j => Steps(s)
    BY <1>6, <2>3 DEF Steps, Retried
  <2> QED BY <1>2, <2>1, <2>4
<1>7. ASSUME NEW s \in Callers, I!HotfixDecide(s) PROVE \A o \in Callers : Steps(o)
  <2> DEFINE j == [responding[s] EXCEPT !.op = "decided", !.seen.policy = policy]
  <2>1. responding' = [responding EXCEPT ![s] = j] /\ responding[s].op = "hotfix"
    BY <1>1, <1>7 DEF I!HotfixDecide
  <2>2. responding[s] \in Tasks
    BY <1>1
  <2>3. j.op = "decided" /\ j.seen.incidents = responding[s].seen.incidents
        /\ j.seen.tickets = responding[s].seen.tickets
    BY <2>2 DEF Tasks, Snapshots
  <2> HIDE DEF j
  <2>4. responding'[s] = j => Steps(s)
    BY <2>1, <2>3 DEF Steps, Decided
  <2> QED BY <1>2, <2>1, <2>4
<1>8. ASSUME NEW s \in Callers, NEW engaged \in BOOLEAN, I!StopInsert(s, engaged)
      PROVE  \A o \in Callers : Steps(o)
  <2> DEFINE j == [I!Idle EXCEPT !.op = "stop", !.active = engaged, !.attempt = incidentStamp + 1]
  <2>1. responding' = [responding EXCEPT ![s] = j]
    BY <1>8 DEF I!StopInsert
  <2>2. j.op = "stop" /\ j.seen.incidents = {} /\ j.seen.tickets = {}
    BY DEF I!Idle
  <2> HIDE DEF j
  <2>3. responding'[s] = j => Steps(s)
    BY <1>8, <2>2 DEF Steps, Stopping
  <2> QED BY <1>2, <2>1, <2>3
<1>9. ASSUME UNCHANGED responding PROVE \A o \in Callers : Steps(o)
  BY <1>9 DEF Steps
<1>10. /\ \A i \in Incidents : I!LogDiagnosisUnavailable(i) => UNCHANGED responding
       /\ \A p \in Policies : I!SetPolicy(p) => UNCHANGED responding
       /\ \A c \in Contexts : I!SetContext(c) => UNCHANGED responding
  BY DEF I!LogDiagnosisUnavailable, I!SetPolicy, I!SetContext
<1> QED BY <1>4, <1>5, <1>6, <1>7, <1>8, <1>9, <1>10 DEF I!Next

-----------------------------------------------------------------------------
\* The statuses in the order incidents take them.
Rank == [st \in I!STATUSES |-> IF st = "open" THEN 0 ELSE IF st = "investigating" THEN 1
                             ELSE IF st = "mitigated" THEN 2 ELSE 3]

\* A row as it became.
Later(q, r) == q.id = r.id /\ (q = r \/ Rank[r.status] < Rank[q.status])

\* At most one row has an incident's id.
Unique(rows) == \A q, r \in rows : q.id = r.id => q = r

\* What sessions saw was committed, and the rows have only moved on since.
SeenAgrees(s) ==
    /\ responding[s].op \in {"transition", "evaluate"} => I!Known(incidents, responding[s].id)
    /\ responding[s].op = "transition" => I!Known(responding[s].seen.incidents, responding[s].id)
    /\ responding[s].seen.tickets \subseteq tickets
    /\ Unique(responding[s].seen.incidents)
    /\ \A r \in responding[s].seen.incidents : \E q \in incidents : Later(q, r)

\* Ids are unique, and what sessions saw agrees with the tables.
RowsAgree == Unique(incidents) /\ \A s \in Callers : SeenAgrees(s)

\* A known id has its row.
LEMMA RowOf ==
    ASSUME NEW rows, NEW i, I!Known(rows, i) PROVE I!Row(rows, i) \in rows /\ I!Row(rows, i).id = i
BY DEF I!Known, I!Row

\* A legal transition goes up in rank and never back to open.
LEMMA LegalMove ==
    ASSUME NEW from \in I!STATUSES, NEW to, I!validate_transition(from, to)
    PROVE  to \in I!STATUSES \ {"open"} /\ Rank[from] < Rank[to]
BY DEF I!validate_transition, I!_TRANSITIONS, I!STATUSES, Rank

\* An update moves one row on.
LEMMA StatusSet ==
    ASSUME RecordsFit, Unique(incidents), NEW i, NEW to, I!Known(incidents, i),
           I!validate_transition(I!Row(incidents, i).status, to), I!SetStatus(i, to)
    PROVE  /\ incidents' \subseteq I!OpsIncident /\ Unique(incidents)'
           /\ \A r \in incidents : \E q \in incidents' : Later(q, r)
           /\ to \in I!STATUSES \ {"open"}
<1> DEFINE q == I!Row(incidents, i)
           n == [q EXCEPT !.status = to]
<1>1. q \in incidents /\ q.id = i /\ q \in I!OpsIncident
  BY RowOf DEF RecordsFit
<1>2. q.status \in I!STATUSES
  BY <1>1 DEF I!OpsIncident
<1>3. to \in I!STATUSES \ {"open"} /\ Rank[q.status] < Rank[to]
  BY <1>2, LegalMove
<1>4. n \in I!OpsIncident /\ n.id = i /\ n.status = to
  BY <1>1, <1>3 DEF I!OpsIncident
<1>5. incidents' = (incidents \ {q}) \cup {n}
  BY DEF I!SetStatus
<1> HIDE DEF q, n
<1>6. incidents' \subseteq I!OpsIncident
  BY <1>4, <1>5 DEF RecordsFit
<1>7. \A r \in incidents : r # q => r.id # i
  BY <1>1 DEF Unique
<1>8. Unique(incidents)'
  BY <1>4, <1>5, <1>7 DEF Unique
<1>9. \A r \in incidents : \E m \in incidents' : Later(m, r)
  BY <1>1, <1>3, <1>4, <1>5 DEF Later
<1> QED BY <1>3, <1>6, <1>8, <1>9

\* What a transition finds at the row it saw is legal there.
LEMMA TransitionFacts ==
    ASSUME OpsFit, RowsAgree, NEW s \in Callers, I!Transition(s)
    PROVE  /\ responding[s].id \in Incidents /\ I!Known(incidents, responding[s].id)
           /\ I!validate_transition(I!Row(incidents, responding[s].id).status, responding[s].arg)
           /\ I!SetStatus(responding[s].id, responding[s].arg)
<1>1. responding[s].op = "transition" /\ I!SetStatus(responding[s].id, responding[s].arg)
      /\ I!Row(incidents, responding[s].id) = I!Row(responding[s].seen.incidents, responding[s].id)
      /\ I!validate_transition(I!Row(responding[s].seen.incidents, responding[s].id).status,
                             responding[s].arg)
  BY DEF I!Transition, I!TransitionLegal
<1>2. responding[s].id \in Incidents
  BY <1>1 DEF OpsFit, TasksFit, TaskFits, Calls
<1> QED BY <1>1, <1>2 DEF RowsAgree, SeenAgrees

\* Which steps touch the incidents.
LEMMA IncidentsMove ==
    ASSUME I!Parameters, OpsFit, RowsAgree, I!Next
    PROVE  /\ incidents' \subseteq I!OpsIncident /\ Unique(incidents)'
           /\ \A r \in incidents : \E q \in incidents' : Later(q, r)
           /\ tickets \subseteq tickets'
<1>5. tickets \subseteq tickets'
  BY DEF I!Next, I!OpenBegin, I!TransitionBegin, I!EvaluateBegin, I!HotfixBegin, I!OpenReplay,
         I!OpenCollide, I!TransitionRefused, I!TransitionConflict, I!EvaluateNow, I!EvaluateLost,
         I!HotfixDecide, I!HotfixRecord, I!HotfixReplay, I!StopInsert, I!StopCommit,
         I!LogDiagnosisUnavailable, I!SetPolicy, I!SetContext, I!Open, I!Transition
<1>1. CASE UNCHANGED incidents
  <2>1. \A r \in incidents : r \in incidents' /\ Later(r, r)
    BY <1>1 DEF Later
  <2>2. incidents' \subseteq I!OpsIncident /\ Unique(incidents)'
    BY <1>1 DEF OpsFit, RecordsFit, RowsAgree, Unique
  <2>3. tickets \subseteq tickets'
    BY <1>5
  <2> QED BY <2>1, <2>2, <2>3
<1>2. ASSUME NEW s \in Callers, I!Open(s)
      PROVE  /\ incidents' \subseteq I!OpsIncident /\ Unique(incidents)'
             /\ \A r \in incidents : \E q \in incidents' : Later(q, r)
  <2> DEFINE n == [id |-> responding[s].id, digest |-> responding[s].arg, status |-> "open"]
  <2>1. incidents' = incidents \cup {n} /\ ~I!Known(incidents, responding[s].id)
        /\ responding[s].op = "open"
    BY <1>2 DEF I!Open, I!IncidentKeyFree
  <2>2. n \in I!OpsIncident /\ n.id = responding[s].id
    BY <2>1 DEF OpsFit, TasksFit, TaskFits, Calls, I!OpsIncident, I!STATUSES
  <2> HIDE DEF n
  <2>3. Unique(incidents)'
    BY <2>1, <2>2 DEF RowsAgree, Unique, I!Known
  <2> QED BY <2>1, <2>2, <2>3 DEF OpsFit, RecordsFit, Later
<1>3. ASSUME NEW s \in Callers, I!Transition(s)
      PROVE  /\ incidents' \subseteq I!OpsIncident /\ Unique(incidents)'
             /\ \A r \in incidents : \E q \in incidents' : Later(q, r)
  BY <1>3, TransitionFacts, StatusSet DEF OpsFit, RowsAgree
<1>4. \/ UNCHANGED incidents
      \/ \E s \in Callers : I!Open(s) \/ I!Transition(s)
  BY DEF I!Next, I!OpenBegin, I!TransitionBegin, I!EvaluateBegin, I!HotfixBegin, I!OpenReplay,
         I!OpenCollide, I!TransitionRefused, I!TransitionConflict, I!EvaluateNow, I!EvaluateLost,
         I!HotfixDecide, I!HotfixRecord, I!HotfixReplay, I!StopInsert, I!StopCommit,
         I!LogDiagnosisUnavailable, I!SetPolicy, I!SetContext
<1> QED BY <1>1, <1>2, <1>3, <1>4, <1>5

\* What a session saw agrees with the rows after any step.
LEMMA SeenKeeps == ASSUME I!Parameters, OpsFit, RowsAgree, I!Next PROVE RowsAgree'
<1>1. /\ Unique(incidents)' /\ tickets \subseteq tickets'
      /\ \A r \in incidents : \E q \in incidents' : Later(q, r)
      /\ incidents \subseteq I!OpsIncident /\ incidents' \subseteq I!OpsIncident
  BY IncidentsMove DEF OpsFit, RecordsFit
<1>2. \A i : I!Known(incidents, i) => I!Known(incidents', i)
  BY <1>1 DEF I!Known, Later
<1>3. \A q, r, x : r \in I!OpsIncident /\ q \in I!OpsIncident /\ x \in I!OpsIncident
                     /\ Later(q, r) /\ Later(x, q) => Later(x, r)
  <2>1. \A r \in I!OpsIncident : Rank[r.status] \in Nat
    BY DEF I!OpsIncident, Rank
  <2> QED BY <2>1 DEF Later
<1>4. \A r \in I!OpsIncident : (\E q \in incidents : Later(q, r)) =>
           \E x \in incidents' : Later(x, r)
  BY <1>1, <1>3
<1> SUFFICES ASSUME NEW s \in Callers PROVE SeenAgrees(s)'
  BY <1>1 DEF RowsAgree
<1>0. I!Idle.op = "idle" /\ I!Idle.seen.incidents = {} /\ I!Idle.seen.tickets = {}
  BY DEF I!Idle
<1>5. SeenAgrees(s) /\ Steps(s) /\ responding[s].seen \in Snapshots
  BY SessionSteps DEF RowsAgree, OpsFit, TasksFit, Tasks
<1>6. responding[s].seen.incidents \subseteq I!OpsIncident
  BY <1>5 DEF Snapshots
<1>7. CASE responding'[s] = responding[s]
  BY <1>1, <1>2, <1>4, <1>5, <1>6, <1>7 DEF SeenAgrees
<1>8. CASE responding'[s] = I!Idle
  <2>1. responding'[s].op = "idle" /\ responding'[s].seen.incidents = {}
        /\ responding'[s].seen.tickets = {}
    BY <1>0, <1>8
  <2> QED BY <2>1 DEF SeenAgrees, Unique
<1>9. CASE responding'[s].seen = I!Committed
  <2>1. responding'[s].seen.incidents = incidents /\ responding'[s].seen.tickets = tickets
    BY <1>9 DEF I!Committed
  <2>2. responding'[s].op \in {"transition", "evaluate"} => I!Known(incidents, responding'[s].id)
    <3>1. CASE Started(s)
      BY <3>1 DEF Started
    <3>2. CASE Retried(s)
      BY <1>5, <3>2 DEF Retried, SeenAgrees
    <3>3. CASE responding'[s] = responding[s] \/ responding'[s] = I!Idle \/ Decided(s)
                 \/ Stopping(s)
      BY <1>0, <1>5, <3>3 DEF SeenAgrees, Decided, Stopping
    <3> QED BY <1>5, <3>1, <3>2, <3>3 DEF Steps
  <2> QED BY <1>1, <1>2, <2>1, <2>2 DEF SeenAgrees, RowsAgree
<1>10. CASE Decided(s)
  BY <1>1, <1>4, <1>5, <1>6, <1>10 DEF SeenAgrees, Decided
<1>11. CASE Stopping(s)
  BY <1>11 DEF SeenAgrees, Stopping, Unique
<1> QED BY <1>5, <1>7, <1>8, <1>9, <1>10, <1>11 DEF Steps, Started, Retried

-----------------------------------------------------------------------------
\* A retried call is on its second attempt, and will settle on it: its key is
\* taken, or its row has moved on.
AttemptsFit ==
    \A s \in Callers :
        /\ responding[s].op \in {"open", "transition"} => responding[s].attempt \in {1, 2}
        /\ responding[s].op = "open" /\ responding[s].attempt = 2 =>
               I!Known(responding[s].seen.incidents, responding[s].id)
        /\ responding[s].op = "transition" /\ responding[s].attempt = 2 =>
               ~I!validate_transition(I!Row(responding[s].seen.incidents, responding[s].id).status,
                                    responding[s].arg)

\* A status is left for another by one move only.
LEMMA OnePredecessor ==
    ASSUME NEW a \in I!STATUSES, NEW b \in I!STATUSES, NEW to,
           I!validate_transition(a, to), I!validate_transition(b, to)
    PROVE  a = b
BY DEF I!validate_transition, I!_TRANSITIONS, I!STATUSES

\* Every step keeps the attempts within two.
LEMMA AttemptsKeep ==
    ASSUME I!Parameters, OpsFit, RowsAgree, AttemptsFit, I!Next PROVE AttemptsFit'
<1> SUFFICES ASSUME NEW s \in Callers
             PROVE  (/\ responding[s].op \in {"open", "transition"} =>
                            responding[s].attempt \in {1, 2}
                     /\ responding[s].op = "open" /\ responding[s].attempt = 2 =>
                            I!Known(responding[s].seen.incidents, responding[s].id)
                     /\ responding[s].op = "transition" /\ responding[s].attempt = 2 =>
                            ~I!validate_transition(
                                I!Row(responding[s].seen.incidents, responding[s].id).status,
                                responding[s].arg))'
  BY DEF AttemptsFit
<1>1. Steps(s) /\ responding[s].seen \in Snapshots /\ I!Idle.op = "idle"
  BY SessionSteps DEF OpsFit, TasksFit, Tasks, I!Idle
<1>2. CASE responding'[s] = responding[s] \/ responding'[s] = I!Idle
  BY <1>1, <1>2 DEF AttemptsFit
<1>3. CASE Started(s)
  BY <1>3 DEF Started
<1>4. CASE Decided(s) \/ Stopping(s)
  BY <1>4 DEF Decided, Stopping
<1>5. CASE Retried(s) /\ I!OpenCollide(s)
  <2>1. responding[s].op = "open" /\ ~I!Known(responding[s].seen.incidents, responding[s].id)
        /\ I!Known(incidents, responding[s].id)
    BY <1>5 DEF I!OpenCollide, I!IncidentKeyFree
  <2>2. responding[s].attempt = 1
    BY <2>1 DEF AttemptsFit
  <2>3. responding'[s].attempt = 2 /\ responding'[s].op = "open"
          /\ responding'[s].seen = I!Committed
        /\ responding'[s].id = responding[s].id
    BY <1>5, <2>1, <2>2 DEF Retried
  <2>4. responding'[s].seen.incidents = incidents
    BY <2>3 DEF I!Committed
  <2> QED BY <2>1, <2>3, <2>4
<1>6. CASE Retried(s) /\ I!TransitionConflict(s)
  <2> DEFINE r == I!Row(responding[s].seen.incidents, responding[s].id)
             q == I!Row(incidents, responding[s].id)
  <2>1. responding[s].op = "transition" /\ I!validate_transition(r.status, responding[s].arg)
          /\ q # r
    BY <1>6 DEF I!TransitionConflict, I!TransitionLegal
  <2>2. responding[s].attempt = 1
    BY <2>1 DEF AttemptsFit
  <2>3. responding'[s].attempt = 2 /\ responding'[s].op = "transition"
        /\ responding'[s].seen = I!Committed /\ responding'[s].id = responding[s].id
        /\ responding'[s].arg = responding[s].arg
    BY <1>6, <2>1, <2>2 DEF Retried
  <2>4. responding'[s].seen.incidents = incidents
    BY <2>3 DEF I!Committed
  <2>5. SeenAgrees(s) /\ Unique(incidents) /\ incidents \subseteq I!OpsIncident
        /\ responding[s].seen.incidents \subseteq I!OpsIncident
    BY <1>1 DEF RowsAgree, OpsFit, RecordsFit, Snapshots
  <2>6. r \in responding[s].seen.incidents /\ r.id = responding[s].id
        /\ q \in incidents /\ q.id = responding[s].id
    BY <2>1, <2>5, RowOf DEF SeenAgrees
  <2> HIDE DEF r, q
  <2>7. Later(q, r)
    BY <2>5, <2>6 DEF SeenAgrees, Later, Unique
  <2>8. Rank[r.status] < Rank[q.status] /\ r.status \in I!STATUSES /\ q.status \in I!STATUSES
    BY <2>1, <2>5, <2>6, <2>7 DEF Later, I!OpsIncident
  <2>9. r.status # q.status
    <3>1. Rank[r.status] \in Nat
      BY <2>8 DEF Rank
    <3> QED BY <2>8, <3>1
  <2>10. ~I!validate_transition(q.status, responding[s].arg)
    BY <2>1, <2>8, <2>9, OnePredecessor
  <2> QED BY <2>3, <2>4, <2>10 DEF q
<1> QED BY <1>1, <1>2, <1>3, <1>4, <1>5, <1>6 DEF Steps, Retried

-----------------------------------------------------------------------------
\* What an event is appended to.
LEMMA EventAdded ==
    ASSUME I!Parameters, RecordsFit, NEW i \in Incidents, NEW kind \in I!EventTypes,
        I!Logged(i, kind)
    PROVE  /\ Len(events[i]) \in Nat /\ DOMAIN events[i] = 1..Len(events[i])
           /\ DOMAIN events'[i] = 1..(Len(events[i]) + 1)
           /\ events'[i][Len(events[i]) + 1] = kind
           /\ \A n \in 1..Len(events[i]) : events'[i][n] = events[i][n]
           /\ \A k \in Incidents \ {i} : events'[k] = events[k]
           /\ DOMAIN events' = Incidents
           /\ \A k \in Incidents : events'[k] \in Seq(I!EventTypes) /\ Len(events'[k]) <= MaxEvents
<1>1. /\ \A k \in Incidents : events[k] \in Seq(I!EventTypes) /\ Len(events[k]) <= MaxEvents
      /\ DOMAIN events = Incidents
  BY DEF RecordsFit
<1>2. Len(events[i]) < MaxEvents /\ events' = [events EXCEPT ![i] = Append(events[i], kind)]
  BY DEF I!Logged
<1>3. events'[i] = Append(events[i], kind) /\ \A k \in Incidents \ {i} : events'[k] = events[k]
  BY <1>1, <1>2
<1>4. DOMAIN events' = Incidents
  BY <1>1, <1>2
<1>5. events[i] \in Seq(I!EventTypes)
  BY <1>1
<1>6. /\ events'[i] \in Seq(I!EventTypes) /\ Len(events'[i]) = Len(events[i]) + 1
      /\ Len(events[i]) \in Nat /\ DOMAIN events[i] = 1..Len(events[i])
      /\ DOMAIN events'[i] = 1..(Len(events[i]) + 1)
      /\ events'[i][Len(events[i]) + 1] = kind
      /\ \A n \in 1..Len(events[i]) : events'[i][n] = events[i][n]
  BY <1>3, <1>5
<1>7. Len(events'[i]) <= MaxEvents
  BY <1>2, <1>6 DEF I!Parameters
<1> QED BY <1>1, <1>3, <1>4, <1>6, <1>7

\* An incident nobody opened has no events, and the events of one tell its status.
TrailAgrees ==
    /\ I!TrailTellsStatus
    /\ \A i \in Incidents : ~I!Known(incidents, i) => events[i] = <<>>

\* The events of an incident tell a status.
Tells(i, told) ==
    /\ \E n \in I!Moves(i) : (\A k \in I!Moves(i) : k <= n) /\ told = I!At(i, n)
    /\ \A n, k \in I!Moves(i) : n < k /\ (\A m \in I!Moves(i) : m <= n \/ k <= m) =>
           I!validate_transition(I!At(i, n), I!At(i, k))

\* Events that did not change still tell the status.
LEMMA StillTells ==
    ASSUME NEW i, NEW told, Tells(i, told), events'[i] = events[i] PROVE Tells(i, told)'
<1>1. I!Moves(i)' = I!Moves(i) /\ \A n : I!At(i, n)' = I!At(i, n)
  BY DEF I!Moves, I!At
<1> QED BY <1>1 DEF Tells

\* An event that tells no status.
LEMMA NoteTells ==
    ASSUME I!Parameters, RecordsFit, NEW i \in Incidents, NEW kind \in I!EventTypes,
        I!Logged(i, kind),
           kind \notin I!STATUSES \cup {"opened"}, NEW told, Tells(i, told)
    PROVE  Tells(i, told)'
<1> DEFINE N == Len(events[i])
<1>1. /\ N \in Nat /\ DOMAIN events[i] = 1..N /\ DOMAIN events'[i] = 1..(N + 1)
      /\ events'[i][N + 1] = kind /\ \A n \in 1..N : events'[i][n] = events[i][n]
  BY EventAdded
<1> HIDE DEF N
<1>2. \A n \in 1..(N + 1) : n \in 1..N \/ n = N + 1
  BY <1>1
<1>3. 1..N \subseteq 1..(N + 1)
  BY <1>1
<1>4. I!Moves(i)' = I!Moves(i)
  BY <1>1, <1>2, <1>3 DEF I!Moves
<1>5. \A n \in I!Moves(i) : I!At(i, n)' = I!At(i, n)
  BY <1>1 DEF I!At, I!Moves
<1> QED BY <1>4, <1>5 DEF Tells

\* The event of a transition.
LEMMA MoveTells ==
    ASSUME I!Parameters, RecordsFit, NEW i \in Incidents, NEW to \in I!STATUSES \ {"open"},
           I!Logged(i, to), NEW told, Tells(i, told), I!validate_transition(told, to)
    PROVE  Tells(i, to)'
<1>0. to \in I!EventTypes /\ to # "opened"
  BY DEF I!EventTypes, I!STATUSES
<1>1. PICK N : /\ N \in Nat /\ DOMAIN events[i] = 1..N /\ DOMAIN events'[i] = 1..(N + 1)
               /\ events'[i][N + 1] = to /\ \A n \in 1..N : events'[i][n] = events[i][n]
  BY <1>0, EventAdded
<1>2. \A n \in 1..(N + 1) : n \in 1..N \/ n = N + 1
  BY <1>1
<1>3. 1..N \subseteq 1..(N + 1) /\ N + 1 \in 1..(N + 1) /\ N + 1 \notin 1..N
  BY <1>1
<1>4. I!Moves(i)' = I!Moves(i) \cup {N + 1} /\ I!Moves(i) \subseteq 1..N
  BY <1>1, <1>2, <1>3 DEF I!Moves
<1>5. /\ \A n \in I!Moves(i) : I!At(i, n)' = I!At(i, n)
      /\ I!At(i, N + 1)' = to
  BY <1>0, <1>1 DEF I!At, I!Moves
<1>6. \A n \in I!Moves(i) : n \in Nat /\ n < N + 1
  BY <1>1, <1>4
<1>7. \E n \in I!Moves(i)' : (\A k \in I!Moves(i)' : k <= n) /\ to = I!At(i, n)'
  BY <1>1, <1>4, <1>5, <1>6
<1>8. PICK last \in I!Moves(i) : (\A k \in I!Moves(i) : k <= last) /\ told = I!At(i, last)
  BY DEF Tells
<1>9. ASSUME NEW n \in I!Moves(i)', NEW k \in I!Moves(i)', n < k,
             \A m \in I!Moves(i)' : m <= n \/ k <= m
      PROVE  I!validate_transition(I!At(i, n)', I!At(i, k)')
  <2>1. n \in I!Moves(i)
    BY <1>1, <1>4, <1>6, <1>9
  <2>2. CASE k \in I!Moves(i)
    BY <1>4, <1>5, <1>9, <2>1, <2>2 DEF Tells
  <2>3. CASE k = N + 1
    <3>1. last <= n
      BY <1>4, <1>6, <1>8, <1>9, <2>3
    <3>2. n = last
      BY <1>6, <1>8, <2>1, <3>1
    <3> QED BY <1>5, <1>8, <2>1, <2>3, <3>2
  <2> QED BY <1>4, <2>2, <2>3
<1>10. \A n, k \in I!Moves(i)' : n < k /\ (\A m \in I!Moves(i)' : m <= n \/ k <= m) =>
          I!validate_transition(I!At(i, n)', I!At(i, k)')
  BY <1>9
<1> QED BY <1>7, <1>10 DEF Tells, I!validate_transition

\* The first event of an incident.
LEMMA OpeningTells ==
    ASSUME I!Parameters, RecordsFit, NEW i \in Incidents, events[i] = <<>>, I!Logged(i, "opened")
    PROVE  Tells(i, "open")'
<1>1. /\ Len(events[i]) \in Nat /\ DOMAIN events'[i] = 1..(Len(events[i]) + 1)
      /\ events'[i][Len(events[i]) + 1] = "opened" /\ Len(events[i]) = 0
  BY EventAdded DEF I!EventTypes
<1>2. DOMAIN events'[i] = {1} /\ events'[i][1] = "opened"
  BY <1>1
<1>3. I!Moves(i)' = {1} /\ I!At(i, 1)' = "open"
  BY <1>2 DEF I!Moves, I!At
<1> QED BY <1>3 DEF Tells

\* TrailTellsStatus, incident by incident.
LEMMA TrailParts ==
    I!TrailTellsStatus <=> \A r \in incidents : Tells(r.id, r.status)
BY DEF I!TrailTellsStatus, Tells

\* Which steps append an event, and to what.
LEMMA TrailKeeps ==
    ASSUME I!Parameters, OpsFit, RowsAgree, TrailAgrees, I!Next PROVE TrailAgrees'
<1>1. /\ RecordsFit /\ Unique(incidents) /\ incidents \subseteq I!OpsIncident
      /\ \A r \in incidents : Tells(r.id, r.status)
      /\ \A i \in Incidents : ~I!Known(incidents, i) => events[i] = <<>>
  BY TrailParts DEF TrailAgrees, OpsFit, RecordsFit, RowsAgree
<1>2. ASSUME UNCHANGED <<incidents, events>> PROVE TrailAgrees'
  BY <1>2 DEF TrailAgrees, I!TrailTellsStatus, I!Moves, I!At, I!Known
<1>3. ASSUME NEW i \in Incidents, NEW kind \in I!EventTypes, I!Logged(i, kind),
               I!Known(incidents, i),
             UNCHANGED incidents, kind \notin I!STATUSES \cup {"opened"}
      PROVE  TrailAgrees'
  <2>1. \A k \in Incidents \ {i} : events'[k] = events[k]
    BY <1>1, <1>3, EventAdded
  <2>2. ASSUME NEW r \in incidents PROVE Tells(r.id, r.status)'
    <3>1. r.id \in Incidents /\ Tells(r.id, r.status)
      BY <1>1, <2>2 DEF I!OpsIncident
    <3>2. CASE r.id = i
      <4>1. Tells(i, r.status)
        BY <3>1, <3>2
      <4>2. Tells(i, r.status)'
        BY <1>1, <1>3, <4>1, NoteTells
      <4> QED BY <3>2, <4>2
    <3>3. CASE r.id # i
      BY <2>1, <3>1, <3>3, StillTells
    <3> QED BY <3>2, <3>3
  <2>3. (\A r \in incidents : Tells(r.id, r.status))'
    BY <1>3, <2>2
  <2>4. I!TrailTellsStatus'
    BY <2>3 DEF I!TrailTellsStatus, Tells
  <2>5. \A k \in Incidents : ~I!Known(incidents', k) => events'[k] = <<>>
    BY <1>1, <1>3, <2>1
  <2> QED BY <2>4, <2>5 DEF TrailAgrees
<1>4. ASSUME NEW i \in Incidents, I!LogDiagnosisUnavailable(i) PROVE TrailAgrees'
  <2>1. "log_diagnosis_unavailable" \in I!EventTypes
        /\ "log_diagnosis_unavailable" \notin I!STATUSES \cup {"opened"}
    BY DEF I!EventTypes, I!STATUSES
  <2> QED BY <1>3, <1>4, <2>1 DEF I!LogDiagnosisUnavailable
<1>5. ASSUME NEW s \in Callers, I!EvaluateNow(s) PROVE TrailAgrees'
  <2>1. "actions_evaluated" \in I!EventTypes
          /\ "actions_evaluated" \notin I!STATUSES \cup {"opened"}
    BY DEF I!EventTypes, I!STATUSES
  <2>2. responding[s].op = "evaluate" /\ I!Logged(responding[s].id, "actions_evaluated")
        /\ UNCHANGED incidents
    BY <1>5 DEF I!EvaluateNow
  <2>3. responding[s].id \in Incidents /\ I!Known(incidents, responding[s].id)
    BY <2>2 DEF OpsFit, TasksFit, TaskFits, Calls, RowsAgree, SeenAgrees
  <2> QED BY <1>3, <2>1, <2>2, <2>3
<1>6. ASSUME NEW s \in Callers, I!Open(s) PROVE TrailAgrees'
  <2> DEFINE i == responding[s].id
             new == [id |-> i, digest |-> responding[s].arg, status |-> "open"]
  <2>1. incidents' = incidents \cup {new} /\ ~I!Known(incidents, i) /\ I!Logged(i, "opened")
        /\ responding[s].op = "open"
    BY <1>6 DEF I!Open, I!IncidentKeyFree
  <2>2. i \in Incidents /\ new.id = i /\ new.status = "open"
    BY <2>1 DEF OpsFit, TasksFit, TaskFits, Calls
  <2> HIDE DEF i, new
  <2>3. \A k \in Incidents \ {i} : events'[k] = events[k]
    BY <1>1, <2>1, <2>2, EventAdded DEF I!EventTypes
  <2>4. PICK x \in Incidents : x = i
    BY <2>2
  <2>5. Tells(x, "open")'
    BY <1>1, <2>1, <2>2, <2>4, OpeningTells
  <2>6. ASSUME NEW r \in incidents PROVE Tells(r.id, r.status)'
    <3>1. r.id \in Incidents /\ r.id # i /\ Tells(r.id, r.status)
      BY <1>1, <2>1, <2>6 DEF I!OpsIncident, I!Known
    <3> QED BY <2>3, <3>1, StillTells
  <2>7. PICK m : m = new
    OBVIOUS
  <2>8. incidents' = incidents \cup {m} /\ m.id = x /\ m.status = "open"
    BY <2>1, <2>2, <2>4, <2>7
  <2>9. Tells(m.id, m.status)'
    BY <2>5, <2>8
  <2>10. I!TrailTellsStatus'
    BY <2>6, <2>8, <2>9 DEF I!TrailTellsStatus, Tells
  <2>11. \A k \in Incidents : ~I!Known(incidents', k) => events'[k] = <<>>
    BY <1>1, <2>1, <2>2, <2>3 DEF I!Known
  <2> QED BY <2>10, <2>11 DEF TrailAgrees
<1>7. ASSUME NEW s \in Callers, I!Transition(s) PROVE TrailAgrees'
  <2>1. PICK i, to, q : /\ i = responding[s].id /\ to = responding[s].arg /\ q = I!Row(incidents, i)
    OBVIOUS
  <2>2. /\ i \in Incidents /\ q \in incidents /\ q.id = i /\ I!Known(incidents, i)
        /\ I!validate_transition(q.status, to) /\ I!SetStatus(i, to)
    BY <1>7, <2>1, TransitionFacts, RowOf
  <2>3. /\ incidents' = (incidents \ {q}) \cup {[q EXCEPT !.status = to]} /\ I!Logged(i, to)
        /\ q \in I!OpsIncident
    BY <1>1, <2>1, <2>2 DEF I!SetStatus
  <2>4. to \in I!STATUSES \ {"open"} /\ to \in I!EventTypes
    BY <2>2, <2>3, LegalMove DEF I!OpsIncident, I!EventTypes
  <2>5. PICK m : m = [q EXCEPT !.status = to]
    OBVIOUS
  <2>6. incidents' = (incidents \ {q}) \cup {m} /\ m.id = i /\ m.status = to
    BY <2>2, <2>3, <2>5 DEF I!OpsIncident
  <2>7. \A k \in Incidents \ {i} : events'[k] = events[k]
    BY <1>1, <2>2, <2>3, <2>4, EventAdded
  <2>8. Tells(i, q.status)
    BY <1>1, <2>2
  <2>9. Tells(i, to)'
    BY <1>1, <2>2, <2>3, <2>4, <2>8, MoveTells
  <2>10. ASSUME NEW r \in incidents, r # q PROVE Tells(r.id, r.status)'
    <3>1. r.id \in Incidents /\ r.id # i /\ Tells(r.id, r.status)
      BY <1>1, <2>2, <2>10 DEF I!OpsIncident, Unique
    <3> QED BY <2>7, <3>1, StillTells
  <2>11. Tells(m.id, m.status)'
    BY <2>6, <2>9
  <2>12. I!TrailTellsStatus'
    BY <2>6, <2>10, <2>11 DEF I!TrailTellsStatus, Tells
  <2>13. \A k \in Incidents : ~I!Known(incidents', k) => events'[k] = <<>>
    BY <1>1, <2>2, <2>6, <2>7 DEF I!Known
  <2> QED BY <2>12, <2>13 DEF TrailAgrees
<1>8. \/ UNCHANGED <<incidents, events>>
      \/ \E s \in Callers : I!Open(s) \/ I!Transition(s) \/ I!EvaluateNow(s)
      \/ \E i \in Incidents : I!LogDiagnosisUnavailable(i)
  BY DEF I!Next, I!OpenBegin, I!TransitionBegin, I!EvaluateBegin, I!HotfixBegin, I!OpenReplay,
         I!OpenCollide, I!TransitionRefused, I!TransitionConflict, I!EvaluateLost, I!HotfixDecide,
         I!HotfixRecord, I!HotfixReplay, I!StopInsert, I!StopCommit, I!SetPolicy, I!SetContext
<1> QED BY <1>2, <1>4, <1>5, <1>6, <1>7, <1>8

-----------------------------------------------------------------------------
\* Every evaluation prescribes what its policy decides, and a hotfix run intends it.
PolicyAgrees ==
    /\ \A e \in evaluations : e.policy \in Policies /\ e.children = I!evaluate_actions(e.policy)
    /\ \A r \in hotfixes : r.policy \in Policies /\ r.children = I!evaluate_hotfix_actions(r.policy)

\* One ticket per incident, of an incident that was opened, cited by every
\* evaluation that prescribed one.
TicketsAgree == I!OneTicketCited /\ \A t \in tickets : I!Known(incidents, t.incident)

\* Stamps are drawn for no ticket or for one.
LEMMA IncidentCards == I!Cardinality({}) = 0 /\ \A x : I!Cardinality({x}) = 1
BY SameCards, FS_EmptySet, FS_Singleton

\* An evaluation of one snapshot, and the ticket that comes with it.
LEMMA Evaluated ==
    ASSUME I!Parameters, OpsFit, RowsAgree, NEW s \in Callers,
           I!Open(s) \/ I!EvaluateNow(s), TicketsAgree
    PROVE  \E e, new :
             /\ evaluations' = evaluations \cup {e} /\ tickets' = tickets \cup new
             /\ e \in I!OpsIncidentActionEvaluation /\ e.policy \in Policies
             /\ e.children = I!evaluate_actions(e.policy)
             /\ new = {} \/ new = {[incident |-> e.incident, stamp |-> incidentStamp + 1]}
             /\ new # {} => I!TicketOf(tickets, e.incident) = {}
             /\ I!Known(incidents', e.incident)
             /\ e.children[1].ticketed => e.tickets # {}
                  /\ e.tickets = I!TicketOf(tickets', e.incident)
             /\ incidentStamp' = incidentStamp + (IF new = {} THEN 0 ELSE 1)
                  /\ incidentStamp' \in 0..MaxIncidentStamp
<1> DEFINE i == responding[s].id
           p == responding[s].seen.policy
           children == I!evaluate_actions(p)
           fresh == [incident |-> i, stamp |-> incidentStamp + 1]
<1>1. /\ responding[s].seen \in Snapshots /\ p \in Policies /\ incidentStamp \in 0..MaxIncidentStamp
      /\ MaxIncidentStamp \in Nat /\ tickets \subseteq I!OpsIncidentTicket /\ SeenAgrees(s)
      /\ responding[s].seen.tickets \subseteq I!OpsIncidentTicket
  BY DEF OpsFit, RecordsFit, TasksFit, Tasks, Snapshots, I!Parameters, RowsAgree
<1>2. responding[s].op \in {"open", "evaluate"} /\ i \in Incidents
  BY DEF I!Open, I!EvaluateNow, OpsFit, TasksFit, TaskFits, Calls
<1>3. children \in [1..7 -> I!ActionChild]
        /\ (I!ticket_should_exist(children) <=> children[1].ticketed)
  BY <1>1, Prescriptions
<1>4. I!load_policy_decisions(s) = p /\ I!load_policy_snapshot(s) = p
  BY DEF I!load_policy_decisions, I!load_policy_snapshot
<1>5. fresh.incident = i /\ (incidentStamp + 1 <= MaxIncidentStamp => fresh \in I!OpsIncidentTicket)
  BY <1>1, <1>2 DEF I!OpsIncidentTicket
<1>6. CASE I!Open(s)
  <2>1. PICK new, row :
          /\ new = IF I!ticket_should_exist(children) THEN {fresh} ELSE {}
          /\ row = [id |-> i, digest |-> responding[s].arg, status |-> "open"]
    OBVIOUS
  <2>2. PICK e : e = [incident |-> i, policy |-> p, children |-> children, tickets |-> new]
    OBVIOUS
  <2>3. I!Evaluation(s, i, {fresh}) = e
    BY <1>4, <2>1, <2>2 DEF I!Evaluation
  <2>4. /\ e.incident = i /\ e.policy = p /\ e.children = children /\ e.tickets = new
        /\ new = {} \/ new = {fresh}
        /\ row.id = i
    BY <2>1, <2>2
  <2>5. /\ evaluations' = evaluations \cup {e} /\ tickets' = tickets \cup e.tickets
        /\ I!Draw(I!Cardinality(e.tickets)) /\ ~I!Known(incidents, i)
        /\ incidents' = incidents \cup {row}
    BY <1>6, <2>1, <2>3 DEF I!Open, I!IncidentKeyFree
  <2>6. I!Known(incidents', i)
    BY <2>4, <2>5 DEF I!Known
  <2>7. I!TicketOf(tickets, i) = {}
    BY <2>5 DEF I!TicketOf, TicketsAgree
  <2>8. I!Cardinality(new) = IF new = {} THEN 0 ELSE 1
    BY <2>4, IncidentCards
  <2>9. /\ tickets' = tickets \cup new /\ incidentStamp'
             = incidentStamp + (IF new = {} THEN 0 ELSE 1)
        /\ incidentStamp + (IF new = {} THEN 0 ELSE 1) <= MaxIncidentStamp
    BY <2>4, <2>5, <2>8 DEF I!Draw
  <2>10. incidentStamp' \in 0..MaxIncidentStamp
    BY <1>1, <2>9
  <2>11. new \subseteq I!OpsIncidentTicket
    BY <1>1, <1>5, <2>4, <2>9
  <2>12. e \in I!OpsIncidentActionEvaluation
    BY <1>1, <1>2, <1>3, <2>2, <2>11 DEF I!OpsIncidentActionEvaluation
  <2>13. children[1].ticketed => new = {fresh}
    BY <1>3, <2>1
  <2>14. children[1].ticketed => new # {} /\ new = I!TicketOf(tickets', i)
    BY <1>5, <2>7, <2>9, <2>13 DEF I!TicketOf
  <2> HIDE DEF children, fresh, i, p
  <2>15. new = {} \/ new = {[incident |-> e.incident, stamp |-> incidentStamp + 1]}
    BY <2>4 DEF fresh
  <2>16. e.children = I!evaluate_actions(e.policy) /\ e.policy \in Policies
    BY <1>1, <2>4 DEF children
  <2> QED BY <2>4, <2>5, <2>6, <2>7, <2>9, <2>10, <2>12, <2>14, <2>15, <2>16
<1>7. CASE I!EvaluateNow(s)
  <2> DEFINE old == I!TicketOf(responding[s].seen.tickets, i)
             new == I!NewTicket(s)
             e == [incident |-> i, policy |-> p, children |-> children,
                   tickets |-> IF I!ticket_should_exist(children) THEN new \cup old ELSE {}]
  <2>1. I!Evaluation(s, i, new \cup old) = e
    BY <1>4 DEF I!Evaluation
  <2>2. /\ evaluations' = evaluations \cup {e} /\ tickets' = tickets \cup new
        /\ incidentStamp + I!Cardinality(new) <= MaxIncidentStamp
             /\ incidentStamp' = incidentStamp + I!Cardinality(new)
        /\ responding[s].op = "evaluate" /\ incidents' = incidents
        /\ new # {} => I!TicketSlotFree(i)
    BY <1>7, <2>1 DEF I!EvaluateNow, I!Draw
  <2>3. I!Known(incidents', i)
    BY <1>1, <2>2 DEF SeenAgrees
  <2>4. new # {} => I!TicketOf(tickets, i) = {}
    BY <2>2 DEF I!TicketSlotFree
  <2>5. /\ new = IF I!ticket_should_exist(children) /\ old = {} THEN {fresh} ELSE {}
        /\ new = {} \/ new = {fresh}
    BY <1>4 DEF I!NewTicket
  <2>6. I!Cardinality(new) = IF new = {} THEN 0 ELSE 1
    BY <2>5, IncidentCards
  <2>7. new \subseteq I!OpsIncidentTicket /\ old \subseteq I!OpsIncidentTicket
    BY <1>1, <1>5, <2>2, <2>5, <2>6 DEF I!TicketOf
  <2>8. e \in I!OpsIncidentActionEvaluation /\ e.incident = i /\ e.policy = p
        /\ e.children = children
    BY <1>1, <1>2, <1>3, <2>7 DEF I!OpsIncidentActionEvaluation
  <2>9. old \subseteq I!TicketOf(tickets, i)
    BY <1>1 DEF SeenAgrees, I!TicketOf
  <2>10. \A t, u \in I!TicketOf(tickets, i) : t = u
    BY DEF I!TicketOf, TicketsAgree, I!OneTicketCited
  <2>11. old # {} => old = I!TicketOf(tickets, i)
    BY <2>9, <2>10
  <2>12. I!TicketOf(tickets', i) = I!TicketOf(tickets, i) \cup new
    BY <1>5, <2>2, <2>5 DEF I!TicketOf
  <2>13. children[1].ticketed => e.tickets = new \cup old
    BY <1>3
  <2>14. children[1].ticketed => e.tickets # {} /\ e.tickets = I!TicketOf(tickets', i)
    BY <1>3, <2>4, <2>5, <2>11, <2>12, <2>13
  <2>15. incidentStamp' = incidentStamp + (IF new = {} THEN 0 ELSE 1)
           /\ incidentStamp' \in 0..MaxIncidentStamp
    BY <1>1, <2>2, <2>6
  <2> HIDE DEF new, e
  <2> QED BY <1>1, <2>2, <2>3, <2>4, <2>5, <2>8, <2>14, <2>15
<1> QED BY <1>6, <1>7

\* Which steps leave the evaluations and their tickets alone.
LEMMA EvaluationsMove ==
    ASSUME I!Next
    PROVE  \/ UNCHANGED <<evaluations, tickets>>
           \/ \E s \in Callers : I!Open(s) \/ I!EvaluateNow(s)
BY DEF I!Next, I!OpenBegin, I!TransitionBegin, I!EvaluateBegin, I!HotfixBegin, I!OpenReplay,
       I!OpenCollide, I!TransitionRefused, I!Transition, I!TransitionConflict, I!EvaluateLost,
       I!HotfixDecide, I!HotfixRecord, I!HotfixReplay, I!StopInsert, I!StopCommit,
       I!LogDiagnosisUnavailable, I!SetPolicy, I!SetContext

\* Every step keeps the tickets in agreement.
LEMMA TicketsKeep ==
    ASSUME I!Parameters, OpsFit, RowsAgree, TicketsAgree, I!Next PROVE TicketsAgree'
<1>1. \A r \in incidents : \E q \in incidents' : Later(q, r)
  BY IncidentsMove
<1>2. \A i : I!Known(incidents, i) => I!Known(incidents', i)
  BY <1>1 DEF I!Known, Later
<1>3. CASE UNCHANGED <<evaluations, tickets>>
  BY <1>2, <1>3 DEF TicketsAgree, I!OneTicketCited, I!TicketOf
<1>4. ASSUME NEW s \in Callers, I!Open(s) \/ I!EvaluateNow(s) PROVE TicketsAgree'
  <2>1. PICK e, new :
             /\ evaluations' = evaluations \cup {e} /\ tickets' = tickets \cup new
             /\ new = {} \/ new = {[incident |-> e.incident, stamp |-> incidentStamp + 1]}
             /\ new # {} => I!TicketOf(tickets, e.incident) = {}
             /\ I!Known(incidents', e.incident)
             /\ e.children[1].ticketed => e.tickets # {}
                  /\ e.tickets = I!TicketOf(tickets', e.incident)
    BY <1>4, Evaluated
  <2>2. \A t \in new : t.incident = e.incident /\ \A u \in new : t = u
    BY <2>1
  <2>3. \A t, u \in tickets' : t.incident = u.incident => t = u
    BY <2>1, <2>2 DEF TicketsAgree, I!OneTicketCited, I!TicketOf
  <2>4. \A t \in tickets' : I!Known(incidents', t.incident)
    BY <1>2, <2>1, <2>2 DEF TicketsAgree
  <2>5. ASSUME NEW f \in evaluations, f.children[1].ticketed
        PROVE  f.tickets # {} /\ f.tickets = I!TicketOf(tickets', f.incident)
    <3>1. f.tickets # {} /\ f.tickets = I!TicketOf(tickets, f.incident)
      BY <2>5 DEF TicketsAgree, I!OneTicketCited
    <3>2. I!TicketOf(tickets', f.incident) = I!TicketOf(tickets, f.incident)
                                             \cup {t \in new : t.incident = f.incident}
      BY <2>1 DEF I!TicketOf
    <3>3. {t \in new : t.incident = f.incident} = {}
      BY <2>1, <2>2, <3>1
    <3> QED BY <3>1, <3>2, <3>3
  <2>6. \A f \in evaluations' :
           f.children[1].ticketed => f.tickets # {} /\ f.tickets = I!TicketOf(tickets', f.incident)
    BY <2>1, <2>5
  <2> QED BY <2>3, <2>4, <2>6 DEF TicketsAgree, I!OneTicketCited, I!TicketOf
<1> QED BY <1>3, <1>4, EvaluationsMove

-----------------------------------------------------------------------------
\* The latch as the stops and the runs are numbered: an event that waits for its
\* commit is newer than every committed one, and than every run.
LatchAgrees ==
    /\ \A e \in stops : e.stamp <= incidentStamp
    /\ \A e, f \in stops : e.stamp = f.stamp => e = f
    /\ \A r \in hotfixes : r.stamp <= incidentStamp
    /\ \A s \in Callers : responding[s].op = "stop" =>
           /\ responding[s].attempt \in 1..incidentStamp
           /\ \A e \in stops : e.stamp < responding[s].attempt
           /\ \A r \in hotfixes : r.stamp < responding[s].attempt
    /\ I!NoHotfixUnderStop

\* Which steps number a stop or a run, and what the others leave alone.
LEMMA LatchMoves ==
    ASSUME I!Parameters, OpsFit, RowsAgree, TicketsAgree, I!Next
    PROVE  \/ \E s \in Callers : I!HotfixRecord(s) \/ I!StopCommit(s)
           \/ \E s \in Callers, engaged \in BOOLEAN : I!StopInsert(s, engaged)
           \/ UNCHANGED <<stops, hotfixes>> /\ incidentStamp <= incidentStamp'
                /\ incidentStamp' \in 0..MaxIncidentStamp
<1>1. incidentStamp \in 0..MaxIncidentStamp /\ MaxIncidentStamp \in Nat
  BY DEF OpsFit, RecordsFit, I!Parameters
<1>2. ASSUME NEW s \in Callers, I!Open(s) \/ I!EvaluateNow(s)
      PROVE  UNCHANGED <<stops, hotfixes>> /\ incidentStamp <= incidentStamp'
          /\ incidentStamp' \in 0..MaxIncidentStamp
  <2>1. UNCHANGED <<stops, hotfixes>>
    BY <1>2 DEF I!Open, I!EvaluateNow
  <2>2. PICK n \in {0, 1} : incidentStamp' = incidentStamp + n
                              /\ incidentStamp' \in 0..MaxIncidentStamp
    BY <1>2, Evaluated
  <2> QED BY <1>1, <2>1, <2>2
<1>3. \/ \E s \in Callers : I!HotfixRecord(s) \/ I!StopCommit(s)
      \/ \E s \in Callers, engaged \in BOOLEAN : I!StopInsert(s, engaged)
      \/ \E s \in Callers : I!Open(s) \/ I!EvaluateNow(s)
      \/ UNCHANGED <<stops, hotfixes, incidentStamp>>
  BY DEF I!Next, I!OpenBegin, I!TransitionBegin, I!EvaluateBegin, I!HotfixBegin, I!OpenReplay,
         I!OpenCollide, I!TransitionRefused, I!Transition, I!TransitionConflict, I!EvaluateLost,
         I!HotfixDecide, I!HotfixReplay, I!LogDiagnosisUnavailable, I!SetPolicy, I!SetContext
<1> QED BY <1>1, <1>2, <1>3

\* A session that is about to commit a stop began to before, or begins to now.
LEMMA StopsBegin ==
    ASSUME I!Parameters, OpsFit, I!Next, NEW s \in Callers, responding'[s].op = "stop"
    PROVE  responding'[s] = responding[s] \/ \E engaged \in BOOLEAN : I!StopInsert(s, engaged)
<1>1. Steps(s) /\ I!Idle.op = "idle"
  BY SessionSteps DEF I!Idle
<1> QED BY <1>1 DEF Steps, Started, Retried, Decided, Stopping, Calls, I!OpenCollide,
                    I!TransitionConflict, I!TransitionLegal

\* While the row is free, or another call holds it, nobody is about to commit a stop.
LEMMA RowExcludes ==
    ASSUME RowHeld
    PROVE  /\ projectRow = {} => \A o \in Callers : responding[o].op # "stop"
           /\ \A s, o \in Callers :
                responding[s].op \in {"decided", "stop"} /\ responding[o].op = "stop" => s = o
BY DEF RowHeld

\* Every step keeps hotfix runs clear of the latch.
LEMMA LatchKeeps ==
    ASSUME I!Parameters, OpsFit, RowsAgree, TicketsAgree, LatchAgrees, I!Next PROVE LatchAgrees'
<1>1. /\ incidentStamp \in 0..MaxIncidentStamp /\ MaxIncidentStamp \in Nat /\ RowHeld
      /\ \A e \in stops : e.stamp \in 1..MaxIncidentStamp
      /\ \A r \in hotfixes : r.stamp \in 1..MaxIncidentStamp
      /\ responding \in [Callers -> Tasks]
  BY DEF OpsFit, RecordsFit, I!Parameters, I!OpsSelfHealingRun, TasksFit
<1>2. CASE UNCHANGED <<stops, hotfixes>> /\ incidentStamp <= incidentStamp'
             /\ incidentStamp' \in 0..MaxIncidentStamp
  <2>1. \A e \in stops : e.stamp <= incidentStamp'
    BY <1>1, <1>2 DEF LatchAgrees
  <2>2. \A r \in hotfixes : r.stamp <= incidentStamp'
    BY <1>1, <1>2 DEF LatchAgrees
  <2>3. ASSUME NEW s \in Callers, responding'[s].op = "stop"
        PROVE  /\ responding'[s].attempt \in 1..incidentStamp'
               /\ \A e \in stops : e.stamp < responding'[s].attempt
               /\ \A r \in hotfixes : r.stamp < responding'[s].attempt
    <3>1. CASE responding'[s] = responding[s]
      <4>1. responding[s].attempt \in 1..incidentStamp
        BY <2>3, <3>1 DEF LatchAgrees
      <4>2. responding'[s].attempt \in 1..incidentStamp'
        BY <1>1, <1>2, <3>1, <4>1
      <4> QED BY <2>3, <3>1, <4>2 DEF LatchAgrees
    <3>2. ASSUME NEW engaged \in BOOLEAN, I!StopInsert(s, engaged)
          PROVE  /\ responding'[s].attempt \in 1..incidentStamp'
                 /\ \A e \in stops : e.stamp < responding'[s].attempt
                 /\ \A r \in hotfixes : r.stamp < responding'[s].attempt
      <4>1. responding'[s].attempt = incidentStamp + 1 /\ incidentStamp' = incidentStamp + 1
        BY <1>1, <3>2 DEF I!StopInsert, I!Draw, I!Idle
      <4> QED BY <1>1, <4>1 DEF LatchAgrees
    <3> QED BY <2>3, <3>1, <3>2, StopsBegin
  <2>4. I!NoHotfixUnderStop'
    BY <1>2 DEF LatchAgrees, I!NoHotfixUnderStop
  <2>5. \A e, f \in stops' : e.stamp = f.stamp => e = f
    BY <1>2 DEF LatchAgrees
  <2> QED BY <1>2, <2>1, <2>2, <2>3, <2>4, <2>5 DEF LatchAgrees
<1>3. ASSUME NEW s \in Callers, NEW engaged \in BOOLEAN, I!StopInsert(s, engaged) PROVE LatchAgrees'
  <2>1. UNCHANGED <<stops, hotfixes>> /\ incidentStamp' = incidentStamp + 1
          /\ incidentStamp + 1 <= MaxIncidentStamp
    BY <1>3 DEF I!StopInsert, I!Draw
  <2> QED BY <1>1, <1>2, <2>1
<1>4. ASSUME NEW s \in Callers, I!StopCommit(s) PROVE LatchAgrees'
  <2>1. PICK n : n = [stamp |-> responding[s].attempt, active |-> responding[s].active]
    OBVIOUS
  <2>2. /\ responding[s].op = "stop" /\ stops' = stops \cup {n} /\ n.stamp = responding[s].attempt
        /\ UNCHANGED <<hotfixes, incidentStamp>> /\ responding' = [responding EXCEPT ![s] = I!Idle]
    BY <1>4, <2>1 DEF I!StopCommit, I!Settle
  <2>3. /\ n.stamp \in 1..incidentStamp /\ \A e \in stops : e.stamp < n.stamp
        /\ \A r \in hotfixes : r.stamp < n.stamp
    BY <2>2 DEF LatchAgrees
  <2>4. \A o \in Callers : responding'[o].op # "stop"
    <3>1. I!Idle.op = "idle"
      BY DEF I!Idle
    <3>2. \A o \in Callers : responding'[o] = IF o = s THEN I!Idle ELSE responding[o]
      BY <1>1, <2>2
    <3> QED BY <1>1, <2>2, <3>1, <3>2, RowExcludes
  <2>5. \A e, f \in stops' : e.stamp = f.stamp => e = f
    BY <1>1, <2>2, <2>3 DEF LatchAgrees
  <2>6. \A e \in stops' : e.stamp <= incidentStamp'
    BY <1>1, <2>2, <2>3 DEF LatchAgrees
  <2>7. \A r \in hotfixes : {e \in stops' : e.stamp < r.stamp} = {e \in stops : e.stamp < r.stamp}
    BY <1>1, <2>2, <2>3
  <2>8. I!NoHotfixUnderStop'
    BY <2>2, <2>7 DEF LatchAgrees, I!NoHotfixUnderStop
  <2> QED BY <2>2, <2>4, <2>5, <2>6, <2>8 DEF LatchAgrees
<1>5. ASSUME NEW s \in Callers, I!HotfixRecord(s) PROVE LatchAgrees'
  <2>1. PICK run : run = I!HotfixRun(s)
    OBVIOUS
  <2>2. /\ responding[s].op = "decided" /\ hotfixes' = hotfixes \cup {run} /\ ~I!StopActive
        /\ incidentStamp' = incidentStamp + 1 /\ incidentStamp + 1 <= MaxIncidentStamp
             /\ stops' = stops
        /\ responding' = [responding EXCEPT ![s] = I!Idle]
    BY <1>5, <2>1 DEF I!HotfixRecord, I!Settle, I!Draw, I!HotfixLatchGuard
  <2>3. run.stamp = incidentStamp + 1
    BY <2>1 DEF I!HotfixRun
  <2>4. \A o \in Callers : responding'[o].op # "stop"
    <3>1. I!Idle.op = "idle"
      BY DEF I!Idle
    <3>2. \A o \in Callers : responding'[o] = IF o = s THEN I!Idle ELSE responding[o]
      BY <1>1, <2>2
    <3> QED BY <1>1, <2>2, <3>1, <3>2, RowExcludes
  <2>5. \A e \in stops : e.stamp <= incidentStamp'
    BY <1>1, <2>2 DEF LatchAgrees
  <2>6. \A r \in hotfixes' : r.stamp <= incidentStamp'
    BY <1>1, <2>2, <2>3 DEF LatchAgrees
  <2>7. ~ \E e \in stops : e.active /\ \A x \in stops : x.stamp <= e.stamp
    <3> SUFFICES ASSUME NEW e \in stops, e.active, \A x \in stops : x.stamp <= e.stamp
                 PROVE  FALSE
      OBVIOUS
    <3>1. I!StopHead \in stops /\ \A x \in stops : x.stamp <= I!StopHead.stamp
      BY DEF I!StopHead
    <3>2. I!StopHead.stamp = e.stamp
      BY <1>1, <3>1
    <3>3. I!StopHead = e
      BY <3>1, <3>2 DEF LatchAgrees
    <3> QED BY <2>2, <3>3 DEF I!StopActive
  <2>8. {e \in stops : e.stamp < run.stamp} = stops
    BY <1>1, <2>3 DEF LatchAgrees
  <2>9. I!NoHotfixUnderStop'
    BY <2>2, <2>7, <2>8 DEF LatchAgrees, I!NoHotfixUnderStop
  <2> QED BY <2>2, <2>4, <2>5, <2>6, <2>9 DEF LatchAgrees
<1> QED BY <1>2, <1>3, <1>4, <1>5, LatchMoves

-----------------------------------------------------------------------------
\* A hotfix run as it is inserted.
LEMMA RunRecorded ==
    ASSUME I!Parameters, OpsFit, NEW s \in Callers, I!HotfixRecord(s)
    PROVE  \E run \in I!OpsSelfHealingRun :
             /\ hotfixes' = hotfixes \cup {run} /\ run.policy \in Policies
             /\ run.children = I!evaluate_hotfix_actions(run.policy)
             /\ incidentStamp' \in 0..MaxIncidentStamp
<1>1. PICK run, p : run = I!HotfixRun(s) /\ p = responding[s].seen.policy
  OBVIOUS
<1>2. /\ responding[s].op = "decided" /\ hotfixes' = hotfixes \cup {run}
      /\ incidentStamp + 1 <= MaxIncidentStamp /\ incidentStamp' = incidentStamp + 1
  BY <1>1 DEF I!HotfixRecord, I!Draw
<1>3. /\ responding[s].id \in Incidents /\ responding[s].arg \in HotfixKeys /\ p \in Policies
      /\ incidentStamp \in 0..MaxIncidentStamp /\ MaxIncidentStamp \in Nat /\ context \in Contexts
  BY <1>1, <1>2 DEF OpsFit, RecordsFit, TasksFit, TaskFits, Tasks, Snapshots, Calls, I!Parameters
<1>4. PICK children, plans, fks : /\ children = I!evaluate_hotfix_actions(p)
                                  /\ plans = I!HotfixPlans(children)
                                  /\ fks = I!current_context_fks(context)
  OBVIOUS
<1>5. children \in [3..7 -> I!HotfixChild] /\ plans \subseteq I!OpsHotfixPlan
  BY <1>3, <1>4, Intents
<1>6. fks \in [covered : BOOLEAN, bound : BOOLEAN, authorized : BOOLEAN]
  <2>1. context.covered \in BOOLEAN /\ context.bound \in BOOLEAN /\ context.authorized \in BOOLEAN
    BY <1>3 DEF I!Parameters
  <2>2. (context.bound /\ context.authorized) \in BOOLEAN
    OBVIOUS
  <2> QED BY <1>4, <2>1, <2>2 DEF I!current_context_fks
<1>7. run = [incident |-> responding[s].id, key |-> responding[s].arg, policy |-> p,
             children |-> children, plans |-> plans, context |-> fks, stamp |-> incidentStamp + 1]
  BY <1>1, <1>4 DEF I!HotfixRun
<1>8. incidentStamp + 1 \in 1..MaxIncidentStamp /\ incidentStamp' \in 0..MaxIncidentStamp
  BY <1>2, <1>3
<1>9. run \in I!OpsSelfHealingRun
  BY <1>3, <1>5, <1>6, <1>7, <1>8 DEF I!OpsSelfHealingRun
<1>10. run.policy = p /\ run.children = children
  BY <1>7
<1> QED BY <1>2, <1>3, <1>4, <1>8, <1>9, <1>10

\* Every step keeps evaluations under one policy.
LEMMA PolicyKeeps ==
    ASSUME I!Parameters, OpsFit, RowsAgree, TicketsAgree, PolicyAgrees, I!Next PROVE PolicyAgrees'
<1>1. CASE UNCHANGED <<evaluations, hotfixes>>
  BY <1>1 DEF PolicyAgrees
<1>2. ASSUME NEW s \in Callers, I!Open(s) \/ I!EvaluateNow(s) PROVE PolicyAgrees'
  <2>1. hotfixes' = hotfixes
    BY <1>2 DEF I!Open, I!EvaluateNow
  <2>2. PICK e : /\ evaluations' = evaluations \cup {e} /\ e.policy \in Policies
                 /\ e.children = I!evaluate_actions(e.policy)
    BY <1>2, Evaluated
  <2> QED BY <2>1, <2>2 DEF PolicyAgrees
<1>3. ASSUME NEW s \in Callers, I!HotfixRecord(s) PROVE PolicyAgrees'
  <2>1. evaluations' = evaluations
    BY <1>3 DEF I!HotfixRecord
  <2> QED BY <1>3, <2>1, RunRecorded DEF PolicyAgrees
<1>4. \/ UNCHANGED <<evaluations, hotfixes>>
      \/ \E s \in Callers : I!Open(s) \/ I!EvaluateNow(s) \/ I!HotfixRecord(s)
  BY DEF I!Next, I!OpenBegin, I!TransitionBegin, I!EvaluateBegin, I!HotfixBegin, I!OpenReplay,
         I!OpenCollide, I!TransitionRefused, I!Transition, I!TransitionConflict, I!EvaluateLost,
         I!HotfixDecide, I!HotfixReplay, I!StopInsert, I!StopCommit, I!LogDiagnosisUnavailable,
         I!SetPolicy, I!SetContext
<1> QED BY <1>1, <1>2, <1>3, <1>4

\* The events of every incident have their type.
LEMMA EventsFit ==
    ASSUME I!Parameters, OpsFit, RowsAgree, I!Next
    PROVE  /\ \A i \in Incidents : events'[i] \in Seq(I!EventTypes) /\ Len(events'[i]) <= MaxEvents
           /\ DOMAIN events' = Incidents
<1>1. RecordsFit
  BY DEF OpsFit
<1>2. ASSUME NEW i \in Incidents, NEW kind \in I!EventTypes, I!Logged(i, kind)
      PROVE  /\ \A k \in Incidents : events'[k] \in Seq(I!EventTypes)
                  /\ Len(events'[k]) <= MaxEvents
             /\ DOMAIN events' = Incidents
  BY <1>1, <1>2, EventAdded
<1>3. {"opened", "actions_evaluated", "log_diagnosis_unavailable"} \subseteq I!EventTypes
      /\ I!STATUSES \ {"open"} \subseteq I!EventTypes
  BY DEF I!EventTypes
<1>4. ASSUME NEW s \in Callers, I!Open(s) \/ I!EvaluateNow(s)
      PROVE  \E i \in Incidents, kind \in I!EventTypes : I!Logged(i, kind)
  <2>1. responding[s].id \in Incidents
    BY <1>4 DEF I!Open, I!EvaluateNow, OpsFit, TasksFit, TaskFits, Calls
  <2>2. I!Logged(responding[s].id, "opened") \/ I!Logged(responding[s].id, "actions_evaluated")
    BY <1>4 DEF I!Open, I!EvaluateNow
  <2> QED BY <1>3, <2>1, <2>2 DEF I!Logged
<1>5. ASSUME NEW s \in Callers, I!Transition(s)
      PROVE  \E i \in Incidents, kind \in I!EventTypes : I!Logged(i, kind)
  <2>1. /\ responding[s].id \in Incidents /\ I!SetStatus(responding[s].id, responding[s].arg)
        /\ responding[s].arg \in I!STATUSES \ {"open"}
    BY <1>1, <1>5, TransitionFacts, StatusSet DEF RowsAgree
  <2> QED BY <1>3, <2>1 DEF I!SetStatus, I!Logged
<1>6. ASSUME NEW i \in Incidents, I!LogDiagnosisUnavailable(i)
      PROVE  \E k \in Incidents, kind \in I!EventTypes : I!Logged(k, kind)
  BY <1>3, <1>6 DEF I!LogDiagnosisUnavailable, I!Logged
<1>7. CASE UNCHANGED events
  BY <1>1, <1>7 DEF RecordsFit
<1>8. \/ UNCHANGED events
      \/ \E s \in Callers : I!Open(s) \/ I!Transition(s) \/ I!EvaluateNow(s)
      \/ \E i \in Incidents : I!LogDiagnosisUnavailable(i)
  BY DEF I!Next, I!OpenBegin, I!TransitionBegin, I!EvaluateBegin, I!HotfixBegin, I!OpenReplay,
         I!OpenCollide, I!TransitionRefused, I!TransitionConflict, I!EvaluateLost, I!HotfixDecide,
         I!HotfixRecord, I!HotfixReplay, I!StopInsert, I!StopCommit, I!SetPolicy, I!SetContext
<1> QED BY <1>2, <1>4, <1>5, <1>6, <1>7, <1>8

\* Every step keeps the types of the tables.
LEMMA RecordsKeep ==
    ASSUME I!Parameters, OpsFit, RowsAgree, TicketsAgree, LatchAgrees, I!Next PROVE RecordsFit'
<1>1. RecordsFit /\ TasksFit
  BY DEF OpsFit
<1>2. policy' \in Policies /\ context' \in Contexts
  <2>1. \/ UNCHANGED <<policy, context>>
        \/ \E p \in Policies : I!SetPolicy(p)
        \/ \E c \in Contexts : I!SetContext(c)
    BY DEF I!Next, I!OpenBegin, I!TransitionBegin, I!EvaluateBegin, I!HotfixBegin, I!OpenReplay,
           I!OpenCollide, I!TransitionRefused, I!Transition, I!TransitionConflict, I!EvaluateNow,
           I!EvaluateLost, I!HotfixDecide, I!HotfixRecord, I!HotfixReplay, I!StopInsert,
           I!StopCommit, I!Open, I!LogDiagnosisUnavailable
  <2> QED BY <1>1, <2>1 DEF RecordsFit, I!SetPolicy, I!SetContext
<1>3. evaluations' \subseteq I!OpsIncidentActionEvaluation /\ tickets' \subseteq I!OpsIncidentTicket
  <2>1. CASE UNCHANGED <<evaluations, tickets>>
    BY <1>1, <2>1 DEF RecordsFit
  <2>2. ASSUME NEW s \in Callers, I!Open(s) \/ I!EvaluateNow(s)
        PROVE  evaluations' \subseteq I!OpsIncidentActionEvaluation
               /\ tickets' \subseteq I!OpsIncidentTicket
    <3>1. PICK e, new :
             /\ evaluations' = evaluations \cup {e} /\ tickets' = tickets \cup new
             /\ e \in I!OpsIncidentActionEvaluation
             /\ new = {} \/ new = {[incident |-> e.incident, stamp |-> incidentStamp + 1]}
             /\ incidentStamp' = incidentStamp + (IF new = {} THEN 0 ELSE 1)
                  /\ incidentStamp' \in 0..MaxIncidentStamp
      BY <2>2, Evaluated
    <3>2. e.incident \in Incidents
      BY <3>1 DEF I!OpsIncidentActionEvaluation
    <3>3. new # {} => incidentStamp + 1 \in 1..MaxIncidentStamp
      BY <1>1, <3>1 DEF RecordsFit, I!Parameters
    <3>4. new \subseteq I!OpsIncidentTicket
      BY <3>1, <3>2, <3>3 DEF I!OpsIncidentTicket
    <3> QED BY <1>1, <3>1, <3>4 DEF RecordsFit
  <2> QED BY <2>1, <2>2, EvaluationsMove
<1>4. ASSUME NEW s \in Callers, I!HotfixRecord(s)
      PROVE  hotfixes' \subseteq I!OpsSelfHealingRun /\ incidentStamp' \in 0..MaxIncidentStamp
          /\ stops' = stops
  <2>1. stops' = stops
    BY <1>4 DEF I!HotfixRecord
  <2> QED BY <1>1, <1>4, <2>1, RunRecorded DEF RecordsFit
<1>5. ASSUME NEW s \in Callers, I!StopCommit(s)
      PROVE  /\ hotfixes' = hotfixes /\ incidentStamp' = incidentStamp
             /\ \A e \in stops' : e.stamp \in 1..MaxIncidentStamp /\ e.active \in BOOLEAN
  <2>1. PICK n : n = [stamp |-> responding[s].attempt, active |-> responding[s].active]
    OBVIOUS
  <2>2. /\ responding[s].op = "stop" /\ stops' = stops \cup {n} /\ n.stamp = responding[s].attempt
        /\ n.active = responding[s].active /\ UNCHANGED <<hotfixes, incidentStamp>>
    BY <1>5, <2>1 DEF I!StopCommit
  <2>3. n.stamp \in 1..incidentStamp /\ n.active \in BOOLEAN
    BY <1>1, <2>2 DEF LatchAgrees, TasksFit, Tasks
  <2> QED BY <1>1, <2>2, <2>3 DEF RecordsFit, I!Parameters
<1>6. ASSUME NEW s \in Callers, NEW engaged \in BOOLEAN, I!StopInsert(s, engaged)
      PROVE  UNCHANGED <<stops, hotfixes>> /\ incidentStamp' \in 0..MaxIncidentStamp
  <2>1. UNCHANGED <<stops, hotfixes>> /\ incidentStamp' = incidentStamp + 1
          /\ incidentStamp + 1 <= MaxIncidentStamp
    BY <1>6 DEF I!StopInsert, I!Draw
  <2> QED BY <1>1, <2>1 DEF RecordsFit, I!Parameters
<1>7. /\ hotfixes' \subseteq I!OpsSelfHealingRun /\ incidentStamp' \in 0..MaxIncidentStamp
      /\ \A e \in stops' : e.stamp \in 1..MaxIncidentStamp /\ e.active \in BOOLEAN
  BY <1>1, <1>4, <1>5, <1>6, LatchMoves DEF RecordsFit
<1>8. incidents' \subseteq I!OpsIncident
  BY IncidentsMove
<1> QED BY <1>2, <1>3, <1>7, <1>8, EventsFit DEF RecordsFit

-----------------------------------------------------------------------------

\* What the incident services keep.
IncidentInv ==
    /\ OpsFit /\ RowsAgree /\ AttemptsFit /\ TrailAgrees /\ PolicyAgrees /\ TicketsAgree
    /\ LatchAgrees

\* The incidents begin in their invariant.
LEMMA IncidentsBegin == ASSUME I!Parameters, I!Init PROVE IncidentInv
<1>1. RecordsFit
  BY DEF I!Init, RecordsFit, I!Parameters
<1>2. I!Idle \in Tasks /\ TaskFits(I!Idle)
  BY <1>1, IdleFits
<1>3. /\ I!Idle.op = "idle" /\ I!Idle.seen.incidents = {} /\ I!Idle.seen.tickets = {}
      /\ \A s \in Callers : responding[s] = I!Idle
  BY DEF I!Idle, I!Init
<1>4. TasksFit
  BY <1>2, <1>3 DEF I!Init, TasksFit
<1>5. RowHeld
  BY <1>3 DEF I!Init, RowHeld
<1>6. RowsAgree
  BY <1>3 DEF RowsAgree, I!Init, Unique, SeenAgrees
<1>7. AttemptsFit
  BY <1>3 DEF AttemptsFit
<1>8. TrailAgrees /\ PolicyAgrees /\ TicketsAgree
  BY DEF I!Init, TrailAgrees, I!TrailTellsStatus, PolicyAgrees, TicketsAgree, I!OneTicketCited
<1>9. LatchAgrees
  BY <1>3 DEF I!Init, LatchAgrees, I!NoHotfixUnderStop
<1> QED BY <1>1, <1>4, <1>5, <1>6, <1>7, <1>8, <1>9 DEF IncidentInv, OpsFit

\* Every step of the incident services keeps their invariant.
LEMMA IncidentsGoOn == ASSUME I!Parameters, IncidentInv, [I!Next]_I!vars PROVE IncidentInv'
<1>1. CASE UNCHANGED I!vars
  <2>1. OpsFit'
    BY <1>1 DEF I!vars, IncidentInv, OpsFit, RecordsFit, TasksFit, TaskFits, RowHeld
  <2>2. RowsAgree' /\ AttemptsFit'
    BY <1>1 DEF I!vars, IncidentInv, RowsAgree, SeenAgrees, Unique, AttemptsFit
  <2>3. TrailAgrees' /\ PolicyAgrees' /\ TicketsAgree'
    BY <1>1 DEF I!vars, IncidentInv, TrailAgrees, I!TrailTellsStatus, I!Moves, I!At, I!Known,
                PolicyAgrees, TicketsAgree, I!OneTicketCited, I!TicketOf
  <2>4. LatchAgrees'
    BY <1>1 DEF I!vars, IncidentInv, LatchAgrees, I!NoHotfixUnderStop
  <2> QED BY <2>1, <2>2, <2>3, <2>4 DEF IncidentInv
<1>2. CASE I!Next
  <2>1. OpsFit'
    BY <1>2, TasksKeep, HoldersKeep, RecordsKeep DEF IncidentInv, OpsFit
  <2>2. RowsAgree' /\ AttemptsFit' /\ TrailAgrees'
    BY <1>2, SeenKeeps, AttemptsKeep, TrailKeeps DEF IncidentInv
  <2>3. PolicyAgrees' /\ TicketsAgree' /\ LatchAgrees'
    BY <1>2, PolicyKeeps, TicketsKeep, LatchKeeps DEF IncidentInv
  <2> QED BY <2>1, <2>2, <2>3 DEF IncidentInv
<1> QED BY <1>1, <1>2

\* What the invariant says of the incidents.
LEMMA IncidentsHold ==
    ASSUME I!Parameters, IncidentInv
    PROVE  /\ I!TypeOK /\ I!PrescribedUnderOnePolicy /\ I!OneTicketCited /\ I!TrailTellsStatus
           /\ I!NoHotfixUnderStop /\ I!SecondAttemptSettles
<1>1. I!TypeOK
  <2>1. projectRow \subseteq Callers /\ I!Cardinality(projectRow) <= 1
    <3>1. projectRow = {} \/ \E s \in Callers : projectRow = {s}
      BY DEF IncidentInv, OpsFit, RowHeld
    <3>2. CASE projectRow = {}
      <4>1. I!Cardinality(projectRow) = 0
        BY <3>2, IncidentCards
      <4> QED BY <3>2, <4>1
    <3>3. CASE \E s \in Callers : projectRow = {s}
      <4>1. PICK s \in Callers : projectRow = {s}
        BY <3>3
      <4>2. I!Cardinality(projectRow) = 1
        BY <4>1, IncidentCards
      <4> QED BY <4>1, <4>2
    <3> QED BY <3>1, <3>2, <3>3
  <2> QED BY <2>1 DEF IncidentInv, OpsFit, RecordsFit, I!TypeOK
<1>2. I!PrescribedUnderOnePolicy
  BY Prescriptions, Intents DEF IncidentInv, PolicyAgrees, I!PrescribedUnderOnePolicy
<1>3. I!SecondAttemptSettles
  BY DEF IncidentInv, AttemptsFit, I!SecondAttemptSettles
<1> QED BY <1>1, <1>2, <1>3 DEF IncidentInv, TicketsAgree, TrailAgrees, LatchAgrees

-----------------------------------------------------------------------------
(* The sum.  PP is the component P with the theorems about it; definition   *)
(* by definition they are the same.                                         *)

PP == INSTANCE PreapprovalsProof WITH Keys <- RequestKeys, Sessions <- Clients, session <- deciding

\* What the sum keeps of the components proved in this module.
SumInv ==
    /\ component = "contracts" => ContractInv
    /\ component = "oracles" => OracleInv
    /\ component \in {"issues", "release"} => ReleaseInv
    /\ component = "cost" => CostInv
    /\ component = "signals" => SignalsInv
    /\ component = "stabilization" => WindowInv
    /\ component = "incidents" => IncidentInv

\* A behavior of the sum steps its own component, from that component's
\* beginning.
LEMMA SumBegins ==
    ASSUME Init
    PROVE  /\ component = "contracts" => T!Init
           /\ component = "oracles" => O!Init
           /\ component = "preapprovals" => P!Init
           /\ component \in {"issues", "release"} => R!Init
           /\ component = "cost" => C!Init
           /\ component = "signals" => S!Init
           /\ component = "stabilization" => W!Init
           /\ component = "incidents" => I!Init
BY DEF Init

\* A step of the sum is a step of its component or leaves it alone.
LEMMA SumSteps ==
    ASSUME [Next]_vars
    PROVE  /\ UNCHANGED component
           /\ component = "contracts" => [T!Next]_T!vars
           /\ component = "oracles" => [O!Next]_O!vars
           /\ component = "preapprovals" => [P!Next]_preapprovalVars
           /\ component \in {"issues", "release"} => [R!Next]_R!vars
           /\ component = "cost" => [C!Next]_C!vars
           /\ component = "signals" => [S!Next]_S!vars
           /\ component = "stabilization" => [W!Next]_W!vars
           /\ component = "incidents" => [I!Next]_I!vars
<1>1. CASE Next
  BY <1>1 DEF Next
<1>2. CASE UNCHANGED vars
  BY <1>2 DEF vars, contractVars, oracleVars, preapprovalVars, releaseVars, costVars, signalVars,
              incidentVars, windowVars, T!vars, O!vars, R!vars, C!vars, S!vars, I!vars, W!vars, W!world
<1> QED BY <1>1, <1>2

\* The invariant of the component holds throughout.
LEMMA SumInvariant == Spec => []SumInv
<1>1. Init => SumInv
  BY SumBegins, ContractsBegin, OraclesBegin, ReleaseBegins, CostsBegin, SignalsBegin, WindowsBegin,
     IncidentsBegin, DeliveryParameters
     DEF SumInv
<1>2. SumInv /\ [Next]_vars => SumInv'
  <2> SUFFICES ASSUME SumInv, [Next]_vars PROVE SumInv'
    OBVIOUS
  <2>1. (component = "contracts" => ContractInv)'
    BY SumSteps, ContractsGoOn, DeliveryParameters DEF SumInv
  <2>2. (component = "signals" => SignalsInv)'
    BY SumSteps, SignalsGoOn, DeliveryParameters DEF SumInv
  <2>3. (component = "stabilization" => WindowInv)'
    BY SumSteps, WindowsGoOn, DeliveryParameters DEF SumInv
  <2>4. (component = "incidents" => IncidentInv)'
    BY SumSteps, IncidentsGoOn, DeliveryParameters DEF SumInv
  <2>5. (component = "cost" => CostInv)'
    BY SumSteps, CostsGoOn, DeliveryParameters DEF SumInv
  <2>6. (component \in {"issues", "release"} => ReleaseInv)'
    BY SumSteps, ReleaseGoesOn, DeliveryParameters DEF SumInv
  <2>7. (component = "oracles" => OracleInv)'
    BY SumSteps, OraclesGoOn, DeliveryParameters DEF SumInv
  <2> QED BY <2>1, <2>2, <2>3, <2>4, <2>5, <2>6, <2>7 DEF SumInv
<1> QED BY <1>1, <1>2, PTL DEF Spec

\* A step of P is a step of PP.
LEMMA SamePreapprovals == [P!Next]_preapprovalVars => [PP!Next]_PP!vars
<1> USE DEF P!Idle, PP!Idle
<1>1. \A binding : P!PolicyProjectionHolds(binding) <=> PP!PolicyProjectionHolds(binding)
  BY DEF P!PolicyProjectionHolds, PP!PolicyProjectionHolds
<1>2. \A r, rs, as : P!RequestGraphHolds(r, rs, as) <=> PP!RequestGraphHolds(r, rs, as)
  <2>1. \A xs : P!Cardinality(xs) = PP!Cardinality(xs)
    BY DEF P!Cardinality, PP!Cardinality
  <2> QED BY <1>1, <2>1 DEF P!RequestGraphHolds, PP!RequestGraphHolds
<1>3. \A s : /\ P!AuditFree <=> PP!AuditFree
             /\ P!ProjectFree <=> PP!ProjectFree
  BY DEF P!AuditFree, PP!AuditFree, P!ProjectFree, PP!ProjectFree
<1>4. P!Principals = PP!Principals /\ P!ApprovalStatus = PP!ApprovalStatus
  BY DEF P!Principals, PP!Principals, P!ApprovalStatus, PP!ApprovalStatus
<1>5. \A r, by : P!PolicyApprover(r, by) <=> PP!PolicyApprover(r, by)
  BY DEF P!PolicyApprover, PP!PolicyApprover
<1>6. ASSUME NEW s \in Clients, NEW key, NEW by, P!BeginRequest(s, key, by)
      PROVE  PP!BeginRequest(s, key, by)
  BY <1>4, <1>6 DEF P!BeginRequest, PP!BeginRequest, P!KeyUnused, PP!KeyUnused,
     P!SourcesComplete, PP!SourcesComplete, P!PolicyParses, PP!PolicyParses,
     P!PolicyVersion, PP!PolicyVersion, P!CurrentBinding, PP!CurrentBinding
<1>7. ASSUME NEW s \in Clients, P!CommitRequest(s) PROVE PP!CommitRequest(s)
  BY <1>1, <1>3, <1>7 DEF P!CommitRequest, PP!CommitRequest, P!KeyUnused, PP!KeyUnused
<1>8. ASSUME NEW s \in Clients, NEW r, NEW by, NEW to, P!BeginDecision(s, r, to, by)
      PROVE  PP!BeginDecision(s, r, to, by)
  BY <1>5, <1>8 DEF P!BeginDecision, PP!BeginDecision, P!LatestRequest, PP!LatestRequest,
     P!BindingIsCurrent, PP!BindingIsCurrent, P!CurrentBinding, PP!CurrentBinding,
     P!SeparateApprover, PP!SeparateApprover
<1>9. ASSUME NEW s \in Clients, P!CommitDecision(s) PROVE PP!CommitDecision(s)
  BY <1>2, <1>3, <1>9 DEF P!CommitDecision, PP!CommitDecision
<1>10. ASSUME NEW s \in Clients, P!Approve(s) PROVE PP!Approve(s)
  BY <1>3, <1>10 DEF P!Approve, PP!Approve
<1>11. ASSUME NEW s \in Clients, P!CommitApproval(s) PROVE PP!CommitApproval(s)
  <2>1. P!SupersedePrior(attestations) = PP!SupersedePrior(attestations)
    BY DEF P!SupersedePrior, PP!SupersedePrior
  <2>2. \A r, by : P!AttestationAdmitted(r, by) <=> PP!AttestationAdmitted(r, by)
    BY DEF P!AttestationAdmitted, PP!AttestationAdmitted, P!AttestationsOf, PP!AttestationsOf
  <2> QED BY <1>2, <1>3, <1>11, <2>1, <2>2 DEF P!CommitApproval, PP!CommitApproval
<1>12. ASSUME NEW s \in Clients, NEW a, NEW by, P!BeginRevoke(s, a, by)
       PROVE  PP!BeginRevoke(s, a, by)
  BY <1>3, <1>5, <1>12 DEF P!BeginRevoke, PP!BeginRevoke
<1>13. ASSUME NEW s \in Clients, P!CommitRevoke(s) PROVE PP!CommitRevoke(s)
  BY <1>2, <1>3, <1>13 DEF P!CommitRevoke, PP!CommitRevoke, P!EventAdmitted, PP!EventAdmitted
<1>14. ASSUME NEW s \in Clients, P!Abort(s) PROVE PP!Abort(s)
  BY <1>14 DEF P!Abort, PP!Abort
<1>15. /\ \A r : P!Advance(r) => PP!Advance(r)
       /\ \A list : P!RevisePolicy(list) => PP!RevisePolicy(list)
       /\ P!Reaudit => PP!Reaudit
       /\ P!Tick => PP!Tick
  BY DEF P!Advance, PP!Advance, P!RevisePolicy, PP!RevisePolicy, P!Reaudit, PP!Reaudit,
         P!Tick, PP!Tick
<1>16. P!Next => PP!Next
  BY <1>4, <1>6, <1>7, <1>8, <1>9, <1>10, <1>11, <1>12, <1>13, <1>14, <1>15
     DEF P!Next, PP!Next
<1> QED BY <1>16 DEF preapprovalVars, PP!vars

\* Where preapprovals are stepped, the sum is a behavior of theirs.
LEMMA SumPreapprovals ==
    /\ Spec => [](component = "preapprovals" => PP!TypeOK /\ PP!PreapprovalStands)
    /\ Spec => [][component = "preapprovals" => PP!DecisionStep]_vars
<1>1. Init /\ component = "preapprovals" => PP!Init
  BY SumBegins DEF P!Init, PP!Init, P!Idle, PP!Idle
<1>2. component = "preapprovals" /\ [Next]_vars =>
          (component = "preapprovals")' /\ [PP!Next]_PP!vars
  BY SumSteps, SamePreapprovals
<1>3. ~(component = "preapprovals") /\ [Next]_vars => (~(component = "preapprovals"))'
  BY SumSteps
<1>4. PP!Parameters
  BY DeliveryParameters DEF P!Parameters, PP!Parameters
<1>5. Spec => [](~(component = "preapprovals")) \/ (component = "preapprovals" /\ PP!Spec)
  BY <1>1, <1>2, <1>3, PTL DEF Spec, PP!Spec
<1>6. PP!Spec => [](PP!TypeOK /\ PP!PreapprovalStands)
  <2>1. PP!Spec => []PP!PreapprovalStands
    BY <1>4, PP!GateTwelveIsSound
  <2>2. PP!Spec => []PP!PreapprovalInv
    BY <1>4, PP!PreapprovalInvariant
  <2>3. PP!PreapprovalInv => PP!TypeOK
    BY DEF PP!PreapprovalInv
  <2> QED BY <2>1, <2>2, <2>3, PTL
<1>7. PP!Spec => [][PP!DecisionStep]_PP!vars
  BY <1>4, PP!DecisionsAreFinal
<1>8. [PP!DecisionStep]_PP!vars => [component = "preapprovals" => PP!DecisionStep]_vars
  BY DEF PP!vars, PP!DecisionStep
<1>9. ~(component = "preapprovals") => [component = "preapprovals" => PP!DecisionStep]_vars
  OBVIOUS
<1>10. Spec => [](component = "preapprovals" => PP!TypeOK /\ PP!PreapprovalStands)
  BY <1>5, <1>6, PTL
<1>11. Spec => [][component = "preapprovals" => PP!DecisionStep]_vars
  BY <1>5, <1>7, <1>8, <1>9, PTL
<1> QED BY <1>10, <1>11

\* A contract is done on approvals of other blueprints' reviewers in every
\* layer, and its trail moves along the matrix, where concurrent sessions may
\* repeat a move but never make another, whatever they read before they wrote
\* (task_contracts.py and the triggers of migration 0041).
THEOREM ContractsReviewed == Spec => []ContractsAreReviewed
<1>1. SumInv => ContractsAreReviewed
  BY ContractsHold, DeliveryParameters DEF SumInv, ContractsAreReviewed
<1> QED BY <1>1, SumInvariant, PTL

\* Every row a collection or an assessment derives passes the checks of the
\* database, sums of the ledger included; an assessment is refused for what its
\* caller or the declaration brought, and for nothing else (migrations 0055 and
\* 0058).
THEOREM DerivedRowsPass == Spec => []DerivedRowsPassGuards
<1>1. SumInv => DerivedRowsPassGuards
  BY SignalsHold, WindowsHold, DeliveryParameters DEF SumInv, DerivedRowsPassGuards
<1> QED BY <1>1, SumInvariant, PTL

\* Evaluations, tickets and the events of an incident agree, under any number of
\* sessions that replay, race and retry (ops_incidents.py).
THEOREM IncidentRecordsStand == Spec => []IncidentRecordsAgree
<1>1. SumInv => IncidentRecordsAgree
  BY IncidentsHold, DeliveryParameters DEF SumInv, IncidentRecordsAgree
<1> QED BY <1>1, SumInvariant, PTL

\* No hotfix run is recorded under an active stop, and a closure attempt names
\* the latch as it was when it was recorded.
THEOREM LatchHeeded == Spec => []OperationsHeedTheLatch
<1>1. SumInv => OperationsHeedTheLatch
  BY IncidentsHold, WindowsHold, DeliveryParameters DEF SumInv, OperationsHeedTheLatch
<1> QED BY <1>1, SumInvariant, PTL

\* A call that lost the race for its key finds the winner when it retries: none
\* exhausts its retries (the retry loops of the three services).
THEOREM SecondAttemptsSettle == Spec => []SecondAttemptSettles
<1>1. SumInv => SecondAttemptSettles
  BY SignalsHold, IncidentsHold, WindowsHold, DeliveryParameters DEF SumInv, SecondAttemptSettles
<1> QED BY <1>1, SumInvariant, PTL

\* One attestation of a project stands at most, and gate 12 rests on the newest
\* request (coverage_for_project, _supersede_prior).
THEOREM GateStands == Spec => []PreapprovalStands
<1>1. (component = "preapprovals" => PP!TypeOK /\ PP!PreapprovalStands) => PreapprovalStands
  <2>1. PP!OneLiveAttestation => P!OneLiveAttestation
    BY DEF PP!OneLiveAttestation, P!OneLiveAttestation, PP!Live, P!Live, PP!Cardinality,
           P!Cardinality
  <2>2. PP!GateRestsOnNewest => P!GateRestsOnNewest
    BY DEF PP!GateRestsOnNewest, P!GateRestsOnNewest, PP!Gate12, P!Gate12,
           PP!GateEligible, P!GateEligible, PP!LatestRequest, P!LatestRequest,
           PP!BindingIsCurrent, P!BindingIsCurrent, PP!CurrentBinding, P!CurrentBinding,
           PP!AttestationsOf, P!AttestationsOf, PP!AttestationOf, P!AttestationOf,
           PP!Expired, P!Expired, PP!Live, P!Live
  <2> QED BY <2>1, <2>2 DEF PreapprovalStands, P!PreapprovalStands, PP!PreapprovalStands
<1> QED BY <1>1, SumPreapprovals, PTL

\* A charge counts once and a passed gate 9 was affordable, whatever was
\* recorded, lowered or replaced between the reads of the forecast and those of
\* the gate (coverage_for_project, verify_cost_forecast_run).
THEOREM CostsStandAlways == Spec => []CostsHold
<1>1. SumInv => CostsHold
  BY CostsStand DEF SumInv, CostsHold
<1> QED BY <1>1, SumInvariant, PTL

\* A finding has one issue, an acceptance rests on a record about its row, a
\* passing verdict is borne out by its core and gate 7 opens only with every
\* bound issue settled, although no reader locks what it read
\* (create_from_trusted_finding, accept, evaluate_and_record,
\* coverage_for_project).
THEOREM VerdictsSeeEveryIssue == Spec => []VerdictSeesEveryIssue
<1>1. SumInv => VerdictSeesEveryIssue
  BY ReleaseHolds, DeliveryParameters DEF SumInv, VerdictSeesEveryIssue
<1> QED BY <1>1, SumInvariant, PTL

\* A clear gate names one commit; the verdict that is stored and the decision
\* of its ratings differ only where the rate is within half a millionth of the
\* floor; and concurrent panels spend less than the budget, less one expected
\* panel, and what the panels of all sessions may cost (coverage_for_project,
\* evaluate_judgment_ratings, RUN_VERDICT_EXPR, _projected_exceeds_budget).
THEOREM OraclesSound == Spec => []OracleGateSound
<1>1. SumInv => OracleGateSound
  BY OraclesHold, DeliveryParameters DEF SumInv, OracleGateSound
<1> QED BY <1>1, SumInvariant, PTL

\* Every row, lock, stamp and session of the eight components has its type.
THEOREM DeliveryTypeCorrect == Spec => []TypeOK
<1>1. Init => component \in {"contracts", "oracles", "preapprovals", "issues", "release", "cost",
                              "signals", "incidents", "stabilization"}
  BY DEF Init
<1>2. component \in {"contracts", "oracles", "preapprovals", "issues", "release", "cost",
                     "signals", "incidents", "stabilization"} /\ [Next]_vars =>
      (component \in {"contracts", "oracles", "preapprovals", "issues", "release", "cost",
                      "signals", "incidents", "stabilization"})'
  BY SumSteps
<1>3. ASSUME component \in {"contracts", "oracles", "preapprovals", "issues", "release", "cost",
                            "signals", "incidents", "stabilization"},
             SumInv, component = "preapprovals" => PP!TypeOK /\ PP!PreapprovalStands
      PROVE  TypeOK
  <2>1. component = "contracts" => T!TypeOK
    BY <1>3 DEF SumInv, ContractInv
  <2>2. component = "oracles" => O!TypeOK
    BY <1>3 DEF SumInv, OracleInv
  <2>3. component = "preapprovals" => P!TypeOK
    <3>1. PP!Jobs = P!Jobs /\ PP!PreapprovalRequest = P!PreapprovalRequest
          /\ PP!Attestation = P!Attestation
      BY DEF PP!Jobs, P!Jobs, PP!Idle, P!Idle, PP!Principals, P!Principals, PP!Binding, P!Binding,
             PP!PolicyVersion, P!PolicyVersion, PP!ApprovalStatus, P!ApprovalStatus,
             PP!PreapprovalRequest, P!PreapprovalRequest, PP!Attestation, P!Attestation,
             PP!LifecycleEvent, P!LifecycleEvent
    <3> QED BY <1>3, <3>1 DEF PP!TypeOK, P!TypeOK
  <2>4. component \in {"issues", "release"} => R!TypeOK /\ R!TypeOKEvidence
    BY <1>3, ReleaseHolds, DeliveryParameters DEF SumInv
  <2>5. component = "cost" => C!TypeOK
    BY <1>3, CostsStand, DeliveryParameters DEF SumInv
  <2>6. component = "signals" => S!TypeOK
    BY <1>3, SignalsHold, DeliveryParameters DEF SumInv
  <2>7. component = "incidents" => I!TypeOK
    BY <1>3, IncidentsHold, DeliveryParameters DEF SumInv
  <2>8. component = "stabilization" => W!TypeOK
    BY <1>3, WindowsHold, DeliveryParameters DEF SumInv
  <2> QED BY <1>3, <2>1, <2>2, <2>3, <2>4, <2>5, <2>6, <2>7, <2>8 DEF TypeOK
<1> QED BY <1>1, <1>2, <1>3, SumInvariant, SumPreapprovals, PTL DEF Spec

\* The judges of a run are qualified when it commits, a decision is taken once,
\* a candidate stays in its end, and a failed forecast had a cause, in every
\* step of every behavior.
THEOREM DeliveryHistoryStands == Spec => HistoryHolds
<1> DEFINE Others == /\ component = "oracles" => O!PanelStep
                     /\ component \in {"issues", "release"} => R!CandidateStep
                     /\ component = "cost" => C!AttemptStep
           Decisions == component = "preapprovals" => P!DecisionStep
<1>1. ASSUME SumInv, [Next]_vars PROVE Others
  <2>1. component = "oracles" => O!PanelStep
    BY <1>1, SumSteps, PanelsQualified
  <2>2. component \in {"issues", "release"} => R!CandidateStep
    BY <1>1, SumSteps, CandidatesStay, DeliveryParameters DEF SumInv
  <2>3. component = "cost" => C!AttemptStep
    BY <1>1, SumSteps, AttemptsExplained, DeliveryParameters DEF SumInv
  <2> QED BY <2>1, <2>2, <2>3
<1>2. (component = "preapprovals" => PP!DecisionStep) => Decisions
  BY DEF PP!DecisionStep, P!DecisionStep
<1>3. Others /\ Decisions =>
        /\ component = "oracles" => O!PanelStep
        /\ component = "preapprovals" => P!DecisionStep
        /\ component \in {"issues", "release"} => R!CandidateStep
        /\ component = "cost" => C!AttemptStep
  OBVIOUS
<1> HIDE DEF Others, Decisions
<1> QED BY <1>1, <1>2, <1>3, SumInvariant, SumPreapprovals, PTL DEF Spec, HistoryHolds
=============================================================================
