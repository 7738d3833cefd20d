-------------------------- MODULE ConfChangeProof --------------------------
(***************************************************************************)
(* What a list of changes makes of a configuration: what it asks for, with *)
(* the progress of the servers that stay; and that a change of at most one *)
(* voter keeps quorums overlapping. The loop of Changer.apply is followed  *)
(* pass by pass: its induction is over the naturals, by the least          *)
(* counterexample.                                                         *)
(***************************************************************************)
EXTENDS ConfChange, FiniteSetTheorems, SequenceTheorems, WellFoundedInduction, TLAPS

\* A non-empty set of naturals has a least element.
LEMMA LeastOfNats ==
  ASSUME NEW S \in SUBSET Nat, S # {}
  PROVE  \E x \in S : \A y \in S : x <= y
<1> DEFINE R == OpToRel(<, Nat)
<1>1. \E x \in S : \A y \in S : ~ (<<y, x>> \in R)
  BY NatLessThanWellFounded, WFMin, Zenon
<1>2. \A x, y \in S : y < x => <<y, x>> \in R
  <2> TAKE x, y \in S
  <2> DEFINE ss == <<y, x>>
  <2>1. ss \in Nat \X Nat /\ ss[1] = y /\ ss[2] = x
    OBVIOUS
  <2> HIDE DEF ss
  <2>2. y < x => ss \in R
    BY <2>1 DEF OpToRel
  <2> QED BY <2>2 DEF ss
<1>3. \E x \in S : \A y \in S : ~ (y < x)
  BY <1>1, <1>2, Zenon
<1> QED
  BY <1>3

\* A non-empty set of naturals up to n has the greatest element Max names.
LEMMA MaxOfNats ==
  ASSUME NEW n \in Nat, NEW S \in SUBSET (0..n), S # {}
  PROVE  Max(S) \in S /\ \A x \in S : Max(S) >= x
<1> DEFINE T == {n - x : x \in S}
<1>1. T \in SUBSET Nat /\ T # {}
  <2>1. \A x \in S : n - x \in Nat
    OBVIOUS
  <2> QED BY <2>1
<1>2. PICK t \in T : \A u \in T : t <= u
  <2> HIDE DEF T
  <2> QED BY <1>1, LeastOfNats
<1>3. PICK z \in S : t = n - z
  BY <1>2
<1>4. \A x \in S : z >= x
  <2> TAKE x \in S
  <2>1. t <= n - x
    BY <1>2
  <2> HIDE DEF T
  <2> QED BY <1>3, <2>1
<1> QED
  BY <1>4 DEF Max
-----------------------------------------------------------------------------
(* The loop of Changer.apply *)

ListOf(ccs) == ccs \in Seq(ConfChangeSingle)

LEMMA ChangeLists ==
  ASSUME NEW ccs \in ConfChangeV2
  PROVE  ListOf(ccs)
BY DEF ConfChangeV2, BoundedSeq, SeqOf, ListOf

\* f holds what the loop has made of c after each of the first n changes.
Loops(f, n, c, ccs, last) ==
  f = [k \in 0..n |-> IF k = 0 THEN c ELSE applyOne(f[k - 1], ccs[k], last)]

LEMMA LoopExists ==
  ASSUME NEW c, NEW ccs, NEW last, NEW n \in Nat
  PROVE  \E f : Loops(f, n, c, ccs, last)
<1> DEFINE D == {k \in Nat : ~ \E f : Loops(f, k, c, ccs, last)}
<1>1. SUFFICES ASSUME D # {}
               PROVE  FALSE
  OBVIOUS
<1>2. PICK k \in D : \A j \in D : k <= j
  <2>1. D \in SUBSET Nat
    OBVIOUS
  <2> HIDE DEF D
  <2> QED BY <1>1, <2>1, LeastOfNats
<1>3. k # 0
  <2>1. Loops([x \in 0..0 |-> c], 0, c, ccs, last)
    BY DEF Loops
  <2> QED BY <1>2, <2>1
<1>4. PICK f : Loops(f, k - 1, c, ccs, last)
  BY <1>2, <1>3
<1>5. PICK g : g = [x \in 0..k |-> IF x = k THEN applyOne(f[k - 1], ccs[k], last) ELSE f[x]]
  OBVIOUS
<1>6. Loops(g, k, c, ccs, last)
  <2>1. k \in Nat /\ k # 0 /\ k - 1 \in 0..k - 1
    BY <1>2, <1>3
  <2>2. ASSUME NEW x \in 0..k
        PROVE  g[x] = IF x = 0 THEN c ELSE applyOne(g[x - 1], ccs[x], last)
    <3>1. CASE x = k
      BY <1>5, <2>1, <3>1
    <3>2. CASE x # k
      <4>1. x \in 0..k - 1 /\ (x # 0 => x - 1 \in 0..k - 1 /\ x - 1 # k)
        BY <2>1, <3>2
      <4>2. f[x] = IF x = 0 THEN c ELSE applyOne(f[x - 1], ccs[x], last)
        BY <1>4, <4>1 DEF Loops
      <4>3. g[x] = f[x] /\ (x # 0 => g[x - 1] = f[x - 1])
        BY <1>5, <2>1, <3>2, <4>1
      <4> QED BY <4>2, <4>3
    <3> QED BY <3>1, <3>2
  <2> QED BY <1>5, <2>2 DEF Loops
<1> QED
  BY <1>2, <1>6

\* f leads from c to what apply returns.
Passes(f, c, ccs, last) ==
  /\ f[0] = c /\ f[Len(ccs)] = apply(c, ccs, last)
  /\ \A k \in 1..Len(ccs) : f[k] = applyOne(f[k - 1], ccs[k], last)

\* What apply returns is what such a loop leaves.
LEMMA ApplyLoops ==
  ASSUME NEW c, NEW ccs, ListOf(ccs), NEW last
  PROVE  \E f : Passes(f, c, ccs, last)
<1>1. Len(ccs) \in Nat
  BY LenProperties DEF ListOf
<1>2. PICK f : f = CHOOSE g : Loops(g, Len(ccs), c, ccs, last)
  OBVIOUS
<1>3. Loops(f, Len(ccs), c, ccs, last)
  BY <1>1, <1>2, LoopExists
<1>4. apply(c, ccs, last) = f[Len(ccs)]
  BY <1>2 DEF apply, Loops
<1>5. f[0] = c
  BY <1>1, <1>3 DEF Loops
<1>6. \A k \in 1..Len(ccs) : f[k] = applyOne(f[k - 1], ccs[k], last)
  BY <1>1, <1>3 DEF Loops
<1> QED
  BY <1>4, <1>5, <1>6 DEF Passes
-----------------------------------------------------------------------------
(* What the loop does to a configuration *)

\* What the Changer works on: a tracker with a Progress for each voter.
IsConfig(c) ==
  /\ c = [voters |-> c.voters, prs |-> c.prs, err |-> c.err]
  /\ c.voters \subseteq Id
  /\ c.prs \in [c.voters -> ProgressRecord]
  /\ c.err \in BOOLEAN

Adds(cc, id) == cc.NodeID = id /\ cc.Type = "ConfChangeAddNode"
Drops(cc, id) == cc.NodeID = id /\ cc.Type = "ConfChangeRemoveNode"

LEMMA ConfigFields ==
  ASSUME NEW c, IsConfig(c)
  PROVE  /\ c.voters \subseteq Id /\ DOMAIN c.prs = c.voters
         /\ c.prs \in [c.voters -> ProgressRecord] /\ c.err \in BOOLEAN
         /\ c = [voters |-> c.voters, prs |-> c.prs, err |-> c.err]
BY DEF IsConfig

\* What the Changer writes of a configuration.
LEMMA ConfigExcept ==
  ASSUME NEW c, IsConfig(c), NEW V, NEW p, NEW e
  PROVE  /\ [c EXCEPT !.voters = V, !.prs = p] = [voters |-> V, prs |-> p, err |-> c.err]
         /\ [c EXCEPT !.voters = V] = [voters |-> V, prs |-> c.prs, err |-> c.err]
         /\ [c EXCEPT !.err = e] = [voters |-> c.voters, prs |-> c.prs, err |-> e]
<1>1. PICK W : W = c.voters
  OBVIOUS
<1>2. PICK q : q = c.prs
  OBVIOUS
<1>3. PICK f : f = c.err
  OBVIOUS
<1>4. c = [voters |-> W, prs |-> q, err |-> f]
  BY <1>1, <1>2, <1>3, ConfigFields, Zenon
<1>5. [c EXCEPT !.voters = V, !.prs = p] = [voters |-> V, prs |-> p, err |-> f]
  <2>1. [[voters |-> W, prs |-> q, err |-> f] EXCEPT !.voters = V, !.prs = p]
          = [voters |-> V, prs |-> p, err |-> f]
    <3>1. [[[voters |-> W, prs |-> q, err |-> f] EXCEPT !.voters = V] EXCEPT !.prs = p]
            = [voters |-> V, prs |-> p, err |-> f]
      <4>1. [[voters |-> W, prs |-> q, err |-> f] EXCEPT !.voters = V]
              = [voters |-> V, prs |-> q, err |-> f]
        OBVIOUS
      <4>2. [[voters |-> V, prs |-> q, err |-> f] EXCEPT !.prs = p]
              = [voters |-> V, prs |-> p, err |-> f]
        OBVIOUS
      <4> QED BY <4>1, <4>2, Zenon
    <3> QED BY <3>1
  <2> QED BY <1>4, <2>1, Zenon
<1>6. [c EXCEPT !.voters = V] = [voters |-> V, prs |-> q, err |-> f]
  BY <1>4
<1>7. [c EXCEPT !.err = e] = [voters |-> W, prs |-> q, err |-> e]
  BY <1>4
<1> QED
  BY <1>1, <1>2, <1>3, <1>5, <1>6, <1>7, Zenon

LEMMA NewProgressType ==
  ASSUME NEW match \in Nat, NEW next \in Nat
  PROVE  NewProgress(match, next) \in ProgressRecord
BY DEF NewProgress, ProgressRecord, ProgressStates

\* A server that is not tracked starts with a new Progress, the others keep theirs.
LEMMA InitProgressTracks ==
  ASSUME NEW c, IsConfig(c), NEW id \in Id, NEW last \in Nat, id \notin DOMAIN c.prs
  PROVE  /\ IsConfig(initProgress(c, id, last))
         /\ initProgress(c, id, last).voters = c.voters \cup {id}
         /\ \A j \in c.voters : initProgress(c, id, last).prs[j] = c.prs[j]
<1>1. PICK p : p = [j \in c.voters \cup {id} |->
                      IF j = id THEN NewProgress(0, last) ELSE c.prs[j]]
  OBVIOUS
<1>2. initProgress(c, id, last) = [voters |-> c.voters \cup {id}, prs |-> p, err |-> c.err]
  <2>1. initProgress(c, id, last) = [c EXCEPT !.voters = c.voters \cup {id}, !.prs = p]
    BY <1>1, ConfigFields DEF initProgress
  <2> QED BY <2>1, ConfigExcept
<1>3. p \in [c.voters \cup {id} -> ProgressRecord]
  <2>1. NewProgress(0, last) \in ProgressRecord
    BY NewProgressType
  <2>2. \A j \in c.voters : c.prs[j] \in ProgressRecord
    BY ConfigFields
  <2> QED BY <1>1, <2>1, <2>2
<1>4. \A j \in c.voters : p[j] = c.prs[j]
  BY <1>1, ConfigFields
<1>5. IsConfig(initProgress(c, id, last))
  BY <1>2, <1>3, ConfigFields DEF IsConfig
<1> QED
  BY <1>2, <1>4, <1>5

LEMMA MakeVoterAdds ==
  ASSUME NEW c, IsConfig(c), NEW id \in Id, NEW last \in Nat
  PROVE  /\ IsConfig(makeVoter(c, id, last))
         /\ makeVoter(c, id, last).voters = c.voters \cup {id}
         /\ \A j \in c.voters : makeVoter(c, id, last).prs[j] = c.prs[j]
<1>1. CASE id \in DOMAIN c.prs
  <2>1. c.voters \cup {id} = c.voters
    BY <1>1, ConfigFields
  <2>2. makeVoter(c, id, last) = c
    BY <1>1, <2>1, ConfigFields DEF makeVoter
  <2> QED BY <2>1, <2>2
<1>2. CASE id \notin DOMAIN c.prs
  BY <1>2, InitProgressTracks DEF makeVoter
<1> QED
  BY <1>1, <1>2

LEMMA RemoveDrops ==
  ASSUME NEW c, IsConfig(c), NEW id \in Id
  PROVE  /\ IsConfig(remove(c, id))
         /\ remove(c, id).voters = c.voters \ {id}
         /\ \A j \in c.voters \ {id} : remove(c, id).prs[j] = c.prs[j]
<1>1. CASE id \in DOMAIN c.prs
  <2>1. PICK p : p = [j \in c.voters \ {id} |-> c.prs[j]]
    OBVIOUS
  <2>2. remove(c, id) = [voters |-> c.voters \ {id}, prs |-> p, err |-> c.err]
    <3>1. remove(c, id) = [c EXCEPT !.voters = c.voters \ {id}, !.prs = p]
      BY <1>1, <2>1, ConfigFields DEF remove, Restrict
    <3> QED BY <3>1, ConfigExcept
  <2>3. p \in [c.voters \ {id} -> ProgressRecord] /\ c.voters \ {id} \in SUBSET Id
    BY <2>1, ConfigFields
  <2>4. IsConfig(remove(c, id))
    BY <2>2, <2>3, ConfigFields DEF IsConfig
  <2> QED BY <2>1, <2>2, <2>4
<1>2. CASE id \notin DOMAIN c.prs
  <2>1. c.voters \ {id} = c.voters
    BY <1>2, ConfigFields
  <2> QED BY <1>2, <2>1 DEF remove
<1> QED
  BY <1>1, <1>2

\* One pass of the loop: the server that the change adds or drops comes or goes,
\* and who stays keeps its Progress.
LEMMA ApplyOne ==
  ASSUME NEW c, IsConfig(c), NEW cc \in ConfChangeSingle, NEW last \in Nat
  PROVE  /\ IsConfig(applyOne(c, cc, last))
         /\ \A id \in Id :
              id \in applyOne(c, cc, last).voters
                <=> Adds(cc, id) \/ (id \in c.voters /\ ~ Drops(cc, id))
         /\ \A id \in c.voters :
              ~ Drops(cc, id) => applyOne(c, cc, last).prs[id] = c.prs[id]
<1>1. cc.NodeID \in Id \cup {NoId} /\ NoId \notin Id
  BY IdAssumption DEF ConfChangeSingle
<1>2. CASE cc.NodeID = NoId
  <2>1. applyOne(c, cc, last) = c
    BY <1>2 DEF applyOne
  <2>2. \A id \in Id : ~ Adds(cc, id) /\ ~ Drops(cc, id)
    BY <1>1, <1>2 DEF Adds, Drops
  <2> QED BY <2>1, <2>2
<1>3. CASE cc.NodeID # NoId /\ cc.Type = "ConfChangeAddNode"
  <2>1. applyOne(c, cc, last) = makeVoter(c, cc.NodeID, last)
    BY <1>3 DEF applyOne
  <2>2. \A id : (Adds(cc, id) <=> id = cc.NodeID) /\ ~ Drops(cc, id)
    BY <1>3 DEF Adds, Drops
  <2>3. cc.NodeID \in Id
    BY <1>1, <1>3
  <2> QED BY <2>1, <2>2, <2>3, MakeVoterAdds
<1>4. CASE cc.NodeID # NoId /\ cc.Type = "ConfChangeRemoveNode"
  <2>1. applyOne(c, cc, last) = remove(c, cc.NodeID)
    BY <1>4 DEF applyOne
  <2>2. \A id : ~ Adds(cc, id) /\ (Drops(cc, id) <=> id = cc.NodeID)
    BY <1>4 DEF Adds, Drops
  <2>3. cc.NodeID \in Id
    BY <1>1, <1>4
  <2>4. c.voters \subseteq Id
    BY ConfigFields
  <2> QED BY <2>1, <2>2, <2>3, <2>4, RemoveDrops
<1>5. CASE cc.NodeID # NoId /\ cc.Type \notin {"ConfChangeAddNode", "ConfChangeRemoveNode"}
  <2>1. \A id : ~ Adds(cc, id) /\ ~ Drops(cc, id)
    BY <1>5 DEF Adds, Drops
  <2>2. PICK d : d = [c EXCEPT !.err = TRUE]
    OBVIOUS
  <2>3. applyOne(c, cc, last) \in {c, d}
    BY <1>5, <2>2 DEF applyOne
  <2>4. d = [voters |-> c.voters, prs |-> c.prs, err |-> TRUE]
    BY <2>2, ConfigExcept
  <2>5. IsConfig(d)
    BY <2>4, ConfigFields DEF IsConfig
  <2>6. d.voters = c.voters /\ d.prs = c.prs
    BY <2>4
  <2> QED BY <2>1, <2>3, <2>5, <2>6
<1> QED
  BY <1>2, <1>3, <1>4, <1>5

\* What holds at the start of a loop and is kept by each pass holds at its end.
LEMMA LoopInduction ==
  ASSUME NEW n \in Nat, NEW S, 0 \in S,
         \A k \in 1..n : k - 1 \in S => k \in S
  PROVE  n \in S
<1> DEFINE D == {k \in 0..n : k \notin S}
<1>1. SUFFICES ASSUME D # {}
               PROVE  FALSE
  OBVIOUS
<1>2. PICK k \in D : \A j \in D : k <= j
  <2>1. D \in SUBSET Nat
    OBVIOUS
  <2> HIDE DEF D
  <2> QED BY <1>1, <2>1, LeastOfNats
<1>3. k \in 1..n /\ k - 1 \notin D /\ k - 1 \in 0..n
  BY <1>2
<1> QED
  BY <1>2, <1>3

\* A change that concerns a server decides about it until the next one that does.
Decides(cc, id) == Adds(cc, id) \/ Drops(cc, id)

\* Whether the first k changes of a list make a server a voter, by the last of
\* them that decides, or by what it was before.
Member(c, ccs, k, id) ==
  \/ \E j \in 1..k : Adds(ccs[j], id) /\ \A x \in j + 1..k : ~ Decides(ccs[x], id)
  \/ id \in c.voters /\ \A x \in 1..k : ~ Decides(ccs[x], id)

\* The configuration d after the first k changes.
Result(c, ccs, k, d) ==
  /\ IsConfig(d)
  /\ \A id \in Id : id \in d.voters <=> Member(c, ccs, k, id)
  /\ \A id \in c.voters :
       (\A j \in 1..k : ~ Drops(ccs[j], id)) => id \in d.voters /\ d.prs[id] = c.prs[id]

LEMMA ResultStart ==
  ASSUME NEW c, IsConfig(c), NEW ccs
  PROVE  Result(c, ccs, 0, c)
<1>1. 1..0 = {}
  OBVIOUS
<1>2. \A id : Member(c, ccs, 0, id) <=> id \in c.voters
  BY <1>1, Zenon DEF Member
<1> QED
  BY <1>2 DEF Result

LEMMA MemberStep ==
  ASSUME NEW c, NEW ccs, NEW k \in Nat \ {0}, NEW id
  PROVE  Member(c, ccs, k, id)
           <=> Adds(ccs[k], id) \/ (Member(c, ccs, k - 1, id) /\ ~ Drops(ccs[k], id))
<1>1. k \in 1..k /\ k + 1..k = {} /\ \A j \in 1..k - 1 : j \in 1..k /\ k \in j + 1..k
  OBVIOUS
<1>2. \A j \in 1..k : j = k \/ j \in 1..k - 1
  OBVIOUS
<1>3. \A j \in 1..k - 1 : \A x \in j + 1..k - 1 : x \in j + 1..k
  OBVIOUS
<1>4. \A j \in 1..k - 1 : \A x \in j + 1..k : x = k \/ x \in j + 1..k - 1
  OBVIOUS
<1>5. ASSUME Adds(ccs[k], id)
      PROVE  Member(c, ccs, k, id)
  BY <1>1, <1>5, Zenon DEF Member
<1>6. ASSUME Member(c, ccs, k - 1, id), ~ Drops(ccs[k], id), ~ Adds(ccs[k], id)
      PROVE  Member(c, ccs, k, id)
  <2>1. CASE id \in c.voters /\ \A x \in 1..k - 1 : ~ Decides(ccs[x], id)
    <3>1. \A x \in 1..k : ~ Decides(ccs[x], id)
      BY <1>2, <1>6, <2>1, Zenon DEF Decides
    <3> QED BY <2>1, <3>1 DEF Member
  <2>2. ASSUME NEW j \in 1..k - 1, Adds(ccs[j], id), \A x \in j + 1..k - 1 : ~ Decides(ccs[x], id)
        PROVE  Member(c, ccs, k, id)
    <3>1. \A x \in j + 1..k : ~ Decides(ccs[x], id)
      BY <1>4, <1>6, <2>2, Zenon DEF Decides
    <3> QED BY <1>1, <2>2, <3>1, Zenon DEF Member
  <2> QED BY <1>6, <2>1, <2>2, Zenon DEF Member
<1>7. ASSUME Member(c, ccs, k, id), ~ Adds(ccs[k], id)
      PROVE  Member(c, ccs, k - 1, id) /\ ~ Drops(ccs[k], id)
  <2>1. CASE id \in c.voters /\ \A x \in 1..k : ~ Decides(ccs[x], id)
    BY <1>1, <2>1, Zenon DEF Member, Decides
  <2>2. ASSUME NEW j \in 1..k, Adds(ccs[j], id), \A x \in j + 1..k : ~ Decides(ccs[x], id)
        PROVE  Member(c, ccs, k - 1, id) /\ ~ Drops(ccs[k], id)
    <3>1. j \in 1..k - 1
      BY <1>2, <1>7, <2>2, Zenon
    <3>2. \A x \in j + 1..k - 1 : ~ Decides(ccs[x], id)
      BY <1>3, <2>2, <3>1, Zenon
    <3>3. ~ Drops(ccs[k], id)
      BY <1>1, <2>2, <3>1, Zenon DEF Decides
    <3> QED BY <2>2, <3>1, <3>2, <3>3, Zenon DEF Member
  <2> QED BY <1>7, <2>1, <2>2, Zenon DEF Member
<1>8. Adds(ccs[k], id) \/ ~ Drops(ccs[k], id) \/ Drops(ccs[k], id)
  OBVIOUS
<1> QED
  BY <1>5, <1>6, <1>7, Zenon

LEMMA ResultStep ==
  ASSUME NEW c, IsConfig(c), NEW ccs, ListOf(ccs), NEW last \in Nat,
         NEW k \in 1..Len(ccs), NEW d, Result(c, ccs, k - 1, d)
  PROVE  Result(c, ccs, k, applyOne(d, ccs[k], last))
<1>1. ccs[k] \in ConfChangeSingle
  BY ElementOfSeq DEF ListOf
<1>2. IsConfig(d)
  BY DEF Result
<1>3. /\ k \in Nat \ {0} /\ k \in 1..k
      /\ \A j \in 1..k - 1 : j \in 1..k
  BY LenProperties DEF ListOf
<1>4. PICK e : e = applyOne(d, ccs[k], last)
  OBVIOUS
<1>5. /\ IsConfig(e)
      /\ \A id \in Id : id \in e.voters
                          <=> Adds(ccs[k], id) \/ (id \in d.voters /\ ~ Drops(ccs[k], id))
      /\ \A id \in d.voters : ~ Drops(ccs[k], id) => e.prs[id] = d.prs[id]
  BY <1>1, <1>2, <1>4, ApplyOne, Zenon
<1>6. \A id \in Id : id \in e.voters <=> Member(c, ccs, k, id)
  <2>1. \A id \in Id : id \in d.voters <=> Member(c, ccs, k - 1, id)
    BY DEF Result
  <2>2. \A id : Member(c, ccs, k, id)
           <=> Adds(ccs[k], id) \/ (Member(c, ccs, k - 1, id) /\ ~ Drops(ccs[k], id))
    BY <1>3, MemberStep, Zenon
  <2> QED BY <1>5, <2>1, <2>2, Zenon
<1>7. ASSUME NEW id \in c.voters, \A j \in 1..k : ~ Drops(ccs[j], id)
      PROVE  id \in e.voters /\ e.prs[id] = c.prs[id]
  <2>1. id \in d.voters /\ d.prs[id] = c.prs[id]
    BY <1>3, <1>7, Zenon DEF Result
  <2>2. id \in Id /\ ~ Drops(ccs[k], id)
    BY <1>2, <1>3, <1>7, <2>1, ConfigFields, Zenon
  <2> QED BY <1>5, <2>1, <2>2, Zenon
<1>8. Result(c, ccs, k, e)
  BY <1>5, <1>6, <1>7, Zenon DEF Result
<1> QED
  BY <1>4, <1>8, Zenon

LEMMA ApplyResult ==
  ASSUME NEW c, IsConfig(c), NEW ccs, ListOf(ccs), NEW last \in Nat
  PROVE  Result(c, ccs, Len(ccs), apply(c, ccs, last))
<1>1. PICK f : Passes(f, c, ccs, last)
  BY ApplyLoops
<1> DEFINE S == {k \in Nat : Result(c, ccs, k, f[k])}
<1>2. Len(ccs) \in Nat
  BY LenProperties DEF ListOf
<1>3. 0 \in S
  <2>1. Result(c, ccs, 0, f[0])
    BY <1>1, ResultStart DEF Passes
  <2> QED BY <2>1
<1>4. \A k \in 1..Len(ccs) : k - 1 \in S => k \in S
  <2> TAKE k \in 1..Len(ccs)
  <2>1. HAVE k - 1 \in S
  <2>2. Result(c, ccs, k - 1, f[k - 1])
    BY <2>1
  <2>3. Result(c, ccs, k, applyOne(f[k - 1], ccs[k], last))
    BY <2>2, ResultStep, Zenon
  <2>4. f[k] = applyOne(f[k - 1], ccs[k], last)
    BY <1>1 DEF Passes
  <2>5. k \in Nat
    BY <1>2
  <2> QED BY <2>3, <2>4, <2>5
<1>5. Len(ccs) \in S
  <2> HIDE DEF S
  <2> QED BY <1>2, <1>3, <1>4, LoopInduction
<1> QED
  BY <1>1, <1>5 DEF Passes
-----------------------------------------------------------------------------
(* The tracker of a process: ConfigOK is inductive *)

LEMMA ProgressSteps ==
  ASSUME NEW pr \in ProgressRecord
  PROVE  /\ BecomeReplicate(pr) \in ProgressRecord
         /\ \A ents : UpdateOnEntriesSend(pr, ents) \in ProgressRecord
         /\ \A n \in Nat : MaybeUpdate(pr, n) \in ProgressRecord
<1>1. BecomeReplicate(pr) \in ProgressRecord
  <2>1. ResetState(pr, "StateReplicate") \in ProgressRecord
    BY DEF ResetState, ProgressRecord, ProgressStates
  <2> QED BY <2>1 DEF BecomeReplicate, ProgressRecord
<1>2. \A ents : UpdateOnEntriesSend(pr, ents) \in ProgressRecord
  BY DEF UpdateOnEntriesSend, ProgressRecord
<1>3. ASSUME NEW n \in Nat
      PROVE  MaybeUpdate(pr, n) \in ProgressRecord
  <2>1. PICK m : m = IF Updates(pr, n) THEN n ELSE pr.Match
    OBVIOUS
  <2>2. PICK f : f = (pr.MsgAppFlowPaused /\ ~ Updates(pr, n))
    OBVIOUS
  <2>3. PICK x : x = IF pr.Next > n + 1 THEN pr.Next ELSE n + 1
    OBVIOUS
  <2>4. MaybeUpdate(pr, n) = [pr EXCEPT !.Match = m, !.MsgAppFlowPaused = f, !.Next = x]
    BY <2>1, <2>2, <2>3 DEF MaybeUpdate
  <2>5. m \in Nat /\ x \in Nat
    BY <2>1, <2>3 DEF ProgressRecord
  <2>6. f \in BOOLEAN
    BY <2>2
  <2> QED BY <2>4, <2>5, <2>6 DEF ProgressRecord
<1> QED
  BY <1>1, <1>2, <1>3

LEMMA ProbedType ==
  ASSUME NEW V, NEW p \in [V -> ProgressRecord], NEW last
  PROVE  probed(p, last) \in [V -> ProgressRecord]
<1>1. \A id \in V : p[id] \in ProgressRecord
  OBVIOUS
<1>2. \A id \in V : UpdateOnEntriesSend(p[id], <<last>>) \in ProgressRecord
  BY <1>1, ProgressSteps, Zenon
<1> QED
  BY <1>1, <1>2 DEF probed

LEMMA ResetProgressType ==
  ASSUME ConfigOK
  PROVE  resetProgress \in [voters -> ProgressRecord]
<1>1. lastIndex \in Nat /\ lastIndex + 1 \in Nat
  BY MaxAssumption DEF ConfigOK
<1>2. /\ NewProgress(lastIndex, lastIndex + 1) \in ProgressRecord
      /\ NewProgress(0, lastIndex + 1) \in ProgressRecord
  BY <1>1, NewProgressType
<1>3. \A id \in voters :
        NewProgress(IF id = Self THEN lastIndex ELSE 0, lastIndex + 1) \in ProgressRecord
  BY <1>2
<1> QED
  BY <1>3 DEF resetProgress

\* What Simple returns for a list of changes: what the loop leaves, unless it is
\* an error.
LEMMA SimpleResult ==
  ASSUME ConfigOK, NEW ccs \in ConfChangeV2, NEW d, d = Simple(Current, ccs, lastIndex)
  PROVE  \E a : /\ Result(Current, ccs, Len(ccs), a)
                /\ d.voters = a.voters /\ d.prs = a.prs
                /\ d.err = (a.err \/ a.voters = {} \/ symdiff(voters, a.voters) > 1)
<1>1. IsConfig(Current)
  BY DEF ConfigOK, Current, IsConfig
<1>2. ListOf(ccs) /\ lastIndex \in Nat
  BY ChangeLists, MaxAssumption DEF ConfigOK
<1>3. PICK a : a = apply(Current, ccs, lastIndex)
  OBVIOUS
<1>4. Result(Current, ccs, Len(ccs), a)
  BY <1>1, <1>2, <1>3, ApplyResult, Zenon
<1>5. /\ d.voters = a.voters /\ d.prs = a.prs
      /\ d.err = (a.err \/ a.voters = {} \/ symdiff(Current.voters, a.voters) > 1)
  BY <1>3 DEF Simple
<1>6. Current.voters = voters
  BY DEF Current
<1> QED
  BY <1>4, <1>5, <1>6, Zenon

LEMMA SimpleType ==
  ASSUME ConfigOK, NEW ccs \in ConfChangeV2, NEW d, d = Simple(Current, ccs, lastIndex)
  PROVE  d.voters \subseteq Id /\ d.prs \in [d.voters -> ProgressRecord] /\ d.err \in BOOLEAN
<1>1. PICK a : /\ Result(Current, ccs, Len(ccs), a)
               /\ d.voters = a.voters /\ d.prs = a.prs
               /\ d.err = (a.err \/ a.voters = {} \/ symdiff(voters, a.voters) > 1)
  BY SimpleResult, Zenon
<1>2. IsConfig(a)
  BY <1>1, Zenon DEF Result
<1>3. d.err \in BOOLEAN
  BY <1>1
<1> QED
  BY <1>1, <1>2, <1>3, ConfigFields

LEMMA ChangeKeepsConfig ==
  ASSUME ConfigOK, NEW ccs \in ConfChangeV2, applyConfChange(ccs)
  PROVE  ConfigOK'
<1>1. PICK d : d = Simple(Current, ccs, lastIndex)
  OBVIOUS
<1>2. d.voters \subseteq Id /\ d.prs \in [d.voters -> ProgressRecord] /\ d.err \in BOOLEAN
  BY <1>1, SimpleType
<1>3. probed(d.prs, lastIndex) \in [d.voters -> ProgressRecord]
  BY <1>2, ProbedType
<1>4. /\ panicked' = d.err
      /\ voters' = IF d.err THEN voters ELSE d.voters
      /\ prs' = CASE d.err -> prs
                  [] ~ d.err /\ leading /\ Self \in d.voters -> probed(d.prs, lastIndex)
                  [] OTHER -> d.prs
      /\ UNCHANGED <<lastIndex, leading>>
  BY <1>1, Zenon DEF applyConfChange
<1>5. CASE d.err
  BY <1>2, <1>4, <1>5 DEF ConfigOK
<1>6. CASE ~ d.err
  <2>1. prs' \in {d.prs, probed(d.prs, lastIndex)} /\ voters' = d.voters
    BY <1>4, <1>6
  <2>2. prs' \in [voters' -> ProgressRecord]
    BY <1>2, <1>3, <2>1
  <2> QED BY <1>2, <1>4, <2>1, <2>2 DEF ConfigOK
<1> QED
  BY <1>5, <1>6

LEMMA BecomeLeaderKeepsConfig ==
  ASSUME ConfigOK, becomeLeader
  PROVE  ConfigOK'
<1>1. PICK p : p = resetProgress
  OBVIOUS
<1>2. p \in [voters -> ProgressRecord] /\ Self \in voters
  BY <1>1, ResetProgressType DEF becomeLeader
<1>3. BecomeReplicate(p[Self]) \in ProgressRecord
  <2>1. p[Self] \in ProgressRecord
    BY <1>2
  <2> QED BY <2>1, ProgressSteps
<1>4. [p EXCEPT ![Self] = BecomeReplicate(@)] \in [voters -> ProgressRecord]
  BY <1>2, <1>3
<1>5. prs' \in [voters -> ProgressRecord]
  <2>1. prs' = probed([p EXCEPT ![Self] = BecomeReplicate(@)], lastIndex + 1)
    BY <1>1 DEF becomeLeader
  <2> QED BY <1>4, <2>1, ProbedType
<1>6. /\ lastIndex' = lastIndex + 1 /\ lastIndex < MaxIndex
      /\ leading' = TRUE /\ UNCHANGED <<voters, panicked>>
  BY DEF becomeLeader
<1> QED
  BY <1>5, <1>6, MaxAssumption DEF ConfigOK

LEMMA OthersKeepConfig ==
  ASSUME ConfigOK, stepDown \/ propose \/ handleAppendEntries
  PROVE  ConfigOK'
<1>1. CASE stepDown
  BY <1>1, ResetProgressType DEF ConfigOK, stepDown
<1>2. CASE propose
  <2>1. probed(prs, lastIndex + 1) \in [voters -> ProgressRecord]
    BY ProbedType DEF ConfigOK
  <2> QED BY <1>2, <2>1, MaxAssumption DEF ConfigOK, propose
<1>3. CASE handleAppendEntries
  BY <1>3 DEF ConfigOK, handleAppendEntries
<1> QED
  BY <1>1, <1>2, <1>3

LEMMA ResponseKeepsConfig ==
  ASSUME ConfigOK, NEW id \in DOMAIN prs, NEW n \in 1..lastIndex, handleAppendResponse(id, n)
  PROVE  ConfigOK'
<1>1. id \in voters /\ prs[id] \in ProgressRecord /\ n \in Nat
  BY MaxAssumption DEF ConfigOK
<1>2. PICK u : u = MaybeUpdate(prs[id], n)
  OBVIOUS
<1>3. u \in ProgressRecord /\ BecomeReplicate(u) \in ProgressRecord
  <2>1. u \in ProgressRecord
    BY <1>1, <1>2, ProgressSteps
  <2> QED BY <2>1, ProgressSteps
<1>4. \E q \in {u, BecomeReplicate(u)} : prs' = [prs EXCEPT ![id] = q]
  BY <1>2 DEF handleAppendResponse
<1>5. prs' \in [voters -> ProgressRecord]
  BY <1>1, <1>3, <1>4 DEF ConfigOK
<1> QED
  BY <1>5 DEF ConfigOK, handleAppendResponse

\* The tracker has a Progress for each voter and for nobody else, whatever lists
\* of changes are applied, for any number of servers and any length of the lists.
THEOREM ConfigStaysOK ==
  Spec => []ConfigOK
<1>1. Init => ConfigOK
  <2>1. [j \in {} |-> NewProgress(0, 1)] \in [{} -> ProgressRecord]
    OBVIOUS
  <2> QED BY <2>1 DEF Init, ConfigOK
<1>2. ConfigOK /\ [Next]_vars => ConfigOK'
  <2> SUFFICES ASSUME ConfigOK, [Next]_vars
               PROVE  ConfigOK'
    OBVIOUS
  <2>1. CASE UNCHANGED vars
    BY <2>1 DEF ConfigOK, vars
  <2>2. CASE Next
    BY <2>2, ChangeKeepsConfig, BecomeLeaderKeepsConfig, OthersKeepConfig,
       ResponseKeepsConfig, Zenon DEF Next
  <2> QED BY <2>1, <2>2
<1> QED
  BY <1>1, <1>2, PTL DEF Spec
-----------------------------------------------------------------------------
(* What a list of changes asks for *)

LEMMA AskedMember ==
  ASSUME NEW ccs, ListOf(ccs), NEW id \in Id
  PROVE  Asked(ccs, id) <=> Member(Current, ccs, Len(ccs), id)
<1> DEFINE C == Concerns(ccs, id)
<1>1. Len(ccs) \in Nat /\ DOMAIN ccs = 1..Len(ccs)
  BY LenProperties DEF ListOf
<1>2. \A k : k \in C <=> k \in 1..Len(ccs) /\ Decides(ccs[k], id)
  BY <1>1 DEF Concerns, Decides, Adds, Drops
<1>3. Current.voters = voters
  BY DEF Current
<1>4. CASE C = {}
  <2>1. Asked(ccs, id) <=> id \in voters
    BY <1>4 DEF Asked
  <2>2. \A k \in 1..Len(ccs) : ~ Decides(ccs[k], id) /\ ~ Adds(ccs[k], id)
    BY <1>2, <1>4, Zenon DEF Decides
  <2> QED BY <1>3, <2>1, <2>2, Zenon DEF Member
<1>5. CASE C # {}
  <2>1. PICK m : m = Max(C)
    OBVIOUS
  <2>2. m \in C /\ \A k \in C : m >= k
    <3>1. C \in SUBSET (0..Len(ccs))
      BY <1>1 DEF Concerns
    <3> HIDE DEF C
    <3> QED BY <1>1, <1>5, <2>1, <3>1, MaxOfNats
  <2>3. Asked(ccs, id) <=> ccs[m].Type = "ConfChangeAddNode"
    BY <1>5, <2>1, Zenon DEF Asked
  <2> HIDE DEF C
  <2>4. m \in 1..Len(ccs) /\ Decides(ccs[m], id)
    BY <1>2, <2>2, Zenon
  <2>5. Asked(ccs, id) <=> Adds(ccs[m], id)
    BY <2>3, <2>4 DEF Decides, Adds, Drops
  <2>6. \A k \in m + 1..Len(ccs) : ~ Decides(ccs[k], id)
    <3>1. \A k \in m + 1..Len(ccs) : k \in 1..Len(ccs) /\ ~ (m >= k)
      BY <1>1, <2>4
    <3> QED BY <1>2, <2>2, <3>1, Zenon
  <2>7. \A j \in 1..Len(ccs) : j = m \/ m \in j + 1..Len(ccs) \/ j \in m + 1..Len(ccs)
    BY <1>1, <2>4
  <2>8. ASSUME Member(Current, ccs, Len(ccs), id)
        PROVE  Adds(ccs[m], id)
    <3>1. PICK j \in 1..Len(ccs) :
            Adds(ccs[j], id) /\ \A x \in j + 1..Len(ccs) : ~ Decides(ccs[x], id)
      BY <2>4, <2>8, Zenon DEF Member
    <3>2. j = m
      BY <2>4, <2>6, <2>7, <3>1, Zenon DEF Decides
    <3> QED BY <3>1, <3>2
  <2>9. ASSUME Adds(ccs[m], id)
        PROVE  Member(Current, ccs, Len(ccs), id)
    BY <2>4, <2>6, <2>9, Zenon DEF Member
  <2> QED BY <2>5, <2>8, <2>9, Zenon
<1> QED
  BY <1>4, <1>5

LEMMA AskedIsDone ==
  ASSUME ConfigOK
  PROVE  ChangesAsAsked
<1> SUFFICES ASSUME NEW ccs \in ConfChangeV2, NEW d, d = Simple(Current, ccs, lastIndex)
             PROVE  d.voters = {id \in Id : Asked(ccs, id)}
  BY DEF ChangesAsAsked
<1>1. PICK a : /\ Result(Current, ccs, Len(ccs), a)
               /\ d.voters = a.voters
  BY SimpleResult, Zenon
<1>2. a.voters \subseteq Id
  BY <1>1, ConfigFields, Zenon DEF Result
<1>3. \A id \in Id : id \in a.voters <=> Member(Current, ccs, Len(ccs), id)
  BY <1>1, Zenon DEF Result
<1>4. \A id \in Id : Asked(ccs, id) <=> Member(Current, ccs, Len(ccs), id)
  BY ChangeLists, AskedMember, Zenon
<1> QED
  BY <1>1, <1>2, <1>3, <1>4

LEMMA AcknowledgedIsKept ==
  ASSUME ConfigOK
  PROVE  KeepsAcknowledged
<1> SUFFICES ASSUME NEW ccs \in ConfChangeV2, NEW d, d = Simple(Current, ccs, lastIndex),
                    NEW id \in voters, ~ Removes(ccs, id)
             PROVE  d.prs[id] = prs[id]
  BY DEF KeepsAcknowledged
<1>1. PICK a : /\ Result(Current, ccs, Len(ccs), a)
               /\ d.prs = a.prs
  BY SimpleResult, Zenon
<1>2. Current.voters = voters /\ Current.prs = prs
  BY DEF Current
<1>3. \A j \in 1..Len(ccs) : ~ Drops(ccs[j], id)
  <2>1. DOMAIN ccs = 1..Len(ccs)
    BY ChangeLists, LenProperties DEF ListOf
  <2> QED BY <2>1, Zenon DEF Removes, Drops
<1>4. a.prs[id] = prs[id]
  BY <1>1, <1>2, <1>3, Zenon DEF Result
<1> QED
  BY <1>1, <1>4

\* A list of changes is carried out as it asks or not at all, however adding and
\* removing of the same servers is mixed in it.
THEOREM ChangesDoAsAsked ==
  Spec => []ChangesAsAsked
BY ConfigStaysOK, AskedIsDone, PTL

\* A change forgets nothing of what the servers it does not remove have
\* acknowledged, in whatever order it adds them anew.
THEOREM ChangesKeepProgress ==
  Spec => []KeepsAcknowledged
BY ConfigStaysOK, AcknowledgedIsKept, PTL
-----------------------------------------------------------------------------
(* Quorums *)

LEMMA SymdiffType ==
  ASSUME NEW V, NEW W, IsFiniteSet(V), IsFiniteSet(W)
  PROVE  symdiff(V, W) \in Nat
<1>1. IsFiniteSet(V \ W) /\ IsFiniteSet(W \ V)
  BY FS_Difference
<1>2. Cardinality(V \ W) \in Nat /\ Cardinality(W \ V) \in Nat
  BY <1>1, FS_CardinalityType
<1> QED
  BY <1>2 DEF symdiff

\* Two sets that differ in one member have no disjoint majorities.
LEMMA QuorumsOverlap ==
  ASSUME NEW V, NEW W, IsFiniteSet(V), IsFiniteSet(W), symdiff(V, W) <= 1,
         NEW P, NEW Q, IsQuorum(V, P), IsQuorum(W, Q)
  PROVE  P \cap Q # {}
<1> SUFFICES ASSUME P \cap Q = {}
             PROVE  FALSE
  OBVIOUS
<1>1. /\ P \subseteq V /\ Q \subseteq W
      /\ Cardinality(P) >= Cardinality(V) \div 2 + 1
      /\ Cardinality(Q) >= Cardinality(W) \div 2 + 1
  BY DEF IsQuorum
<1>2. /\ IsFiniteSet(P) /\ IsFiniteSet(Q)
      /\ IsFiniteSet(V \ W) /\ IsFiniteSet(W \ V) /\ IsFiniteSet(V \cap W)
  BY <1>1, FS_Subset, FS_Difference, FS_Intersection
<1>3. /\ Cardinality(V) \in Nat /\ Cardinality(W) \in Nat
      /\ Cardinality(P) \in Nat /\ Cardinality(Q) \in Nat
      /\ Cardinality(V \ W) \in Nat /\ Cardinality(W \ V) \in Nat
      /\ Cardinality(V \cap W) \in Nat
  BY <1>2, FS_CardinalityType
<1>4. /\ Cardinality(V \ W) = Cardinality(V) - Cardinality(V \cap W)
      /\ Cardinality(W \ V) = Cardinality(W) - Cardinality(V \cap W)
  <2>1. W \cap V = V \cap W
    OBVIOUS
  <2>2. Cardinality(W \ V) = Cardinality(W) - Cardinality(W \cap V)
    BY FS_Difference
  <2> QED BY <2>1, <2>2, FS_Difference
<1>5. /\ IsFiniteSet(V \cup (W \ V))
      /\ Cardinality(V \cup (W \ V)) = Cardinality(V) + Cardinality(W \ V)
  <2>1. Cardinality(V \cup (W \ V)) =
          Cardinality(V) + Cardinality(W \ V) - Cardinality(V \cap (W \ V))
    BY <1>2, FS_Union
  <2>2. Cardinality(V \cap (W \ V)) = 0
    <3>1. V \cap (W \ V) = {}
      OBVIOUS
    <3> QED BY <3>1, FS_EmptySet, Zenon
  <2>3. IsFiniteSet(V \cup (W \ V))
    BY <1>2, FS_Union
  <2> QED BY <1>3, <2>1, <2>2, <2>3
<1>6. Cardinality(P \cup Q) = Cardinality(P) + Cardinality(Q)
  <2>1. Cardinality(P \cup Q) = Cardinality(P) + Cardinality(Q) - Cardinality(P \cap Q)
    BY <1>2, FS_Union
  <2>2. Cardinality(P \cap Q) = 0
    BY FS_EmptySet, Zenon
  <2> QED BY <1>3, <2>1, <2>2
<1>7. Cardinality(P \cup Q) <= Cardinality(V \cup (W \ V))
  <2>1. P \cup Q \subseteq V \cup (W \ V)
    BY <1>1
  <2> QED BY <1>5, <2>1, FS_Subset
<1>8. Cardinality(V \ W) + Cardinality(W \ V) <= 1
  BY DEF symdiff
<1> QED
  BY <1>1, <1>3, <1>4, <1>5, <1>6, <1>7, <1>8

\* The configurations before and after a step of applyConfChange have no
\* disjoint quorums, for any number of servers and any list of changes.
THEOREM ChangesKeepQuorums ==
  Spec => QuorumsMeet
<1> DEFINE Meet == \A P \in SUBSET voters, Q \in SUBSET voters' :
                     IsQuorum(voters, P) /\ IsQuorum(voters', Q) => P \cap Q # {}
<1>1. ASSUME ConfigOK, ConfigOK', NEW ccs \in ConfChangeV2, applyConfChange(ccs)
      PROVE  Meet
  <2> DEFINE d == Simple(Current, ccs, lastIndex)
  <2>1. symdiff(voters, voters') <= 1
    <3>1. CASE d.err
      <4>1. voters' = voters
        BY <1>1, <3>1 DEF applyConfChange
      <4>2. voters \ voters' = {}
        BY <4>1
      <4> QED BY <4>1, <4>2, FS_EmptySet DEF symdiff
    <3>2. CASE ~ d.err
      <4>1. voters' = d.voters
        BY <1>1, <3>2 DEF applyConfChange
      <4> DEFINE a == apply(Current, ccs, lastIndex)
      <4>2. /\ d.voters = a.voters
            /\ d.err = (a.err \/ a.voters = {} \/ symdiff(voters, a.voters) > 1)
        BY DEF Simple, Current
      <4>3. symdiff(voters, a.voters) \in Int
        <5>1. IsFiniteSet(voters) /\ IsFiniteSet(a.voters)
          BY <1>1, <4>1, <4>2, IdAssumption, FS_Subset DEF ConfigOK
        <5>2. symdiff(voters, a.voters) \in Nat
          BY <5>1, SymdiffType
        <5> QED BY <5>2
      <4>4. ~ (symdiff(voters, a.voters) > 1)
        BY <3>2, <4>2, Zenon
      <4>5. voters' = a.voters
        BY <4>1, <4>2
      <4> HIDE DEF a, d
      <4> QED BY <4>3, <4>4, <4>5
    <3> QED BY <3>1, <3>2
  <2>2. IsFiniteSet(voters) /\ IsFiniteSet(voters')
    BY <1>1, IdAssumption, FS_Subset DEF ConfigOK
  <2> QED BY <2>1, <2>2, QuorumsOverlap
<1>2. ASSUME ConfigOK, UNCHANGED voters
      PROVE  Meet
  <2>1. symdiff(voters, voters') <= 1
    <3>1. voters \ voters' = {} /\ voters' \ voters = {}
      BY <1>2
    <3> QED BY <3>1, FS_EmptySet DEF symdiff
  <2>2. IsFiniteSet(voters) /\ IsFiniteSet(voters')
    BY <1>2, IdAssumption, FS_Subset DEF ConfigOK
  <2> QED BY <2>1, <2>2, QuorumsOverlap
<1>3. ConfigOK /\ ConfigOK' /\ [Next]_vars => [Meet]_vars
  BY <1>1, <1>2 DEF Next, becomeLeader, stepDown, propose, handleAppendEntries,
                    handleAppendResponse, vars
<1> QED
  BY <1>3, ConfigStaysOK, PTL DEF Spec, QuorumsMeet
=============================================================================
