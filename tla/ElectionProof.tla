--------------------------- MODULE ElectionProof ---------------------------
(***************************************************************************)
(* Election elects at most one leader a term, whatever ballots are lost.   *)
(***************************************************************************)
EXTENDS Election, FiniteSetTheorems, TLAPS

\* Ballots and leaders of servers only.
Typed ==
  /\ termOf \in [Server -> Nat]
  /\ voteOf \in [Server -> Server \cup {None}]
  /\ ballots \subseteq Server \X Nat \X Server
  /\ leaders \subseteq Nat \X Server

\* A ballot that may yet be counted is what its server voted, unless the server
\* has left that term.
Sound ==
  \A b \in ballots :
    /\ termOf[b[1]] >= b[2]
    /\ termOf[b[1]] = b[2] => voteOf[b[1]] = b[3]

\* Server k cannot come to vote in term t for anyone but c.
Settled(k, t, c) ==
  /\ termOf[k] >= t
  /\ termOf[k] = t => voteOf[k] = c
  /\ \A b \in ballots : b[1] = k /\ b[2] = t => b[3] = c

Backed ==
  \A l \in leaders :
    \E Q \in SUBSET Server : Majority(Q) /\ \A k \in Q : Settled(k, l[1], l[2])

Inv == Typed /\ Sound /\ OneBallot /\ Backed /\ OneLeader
-----------------------------------------------------------------------------
LEMMA MajoritiesMeet ==
  ASSUME IsFiniteSet(Server), NEW P, NEW Q, Majority(P), Majority(Q)
  PROVE  P \cap Q # {}
<1>1. P \subseteq Server /\ Q \subseteq Server
  BY DEF Majority
<1>2. /\ Cardinality(Server) \in Nat /\ Cardinality(P) \in Nat /\ Cardinality(Q) \in Nat
  BY <1>1, FS_Subset, FS_CardinalityType
<1>3. Cardinality(P) + Cardinality(Q) > Cardinality(Server)
  BY <1>2 DEF Majority
<1> QED
  BY <1>1, <1>3, FS_MajoritiesIntersect

\* A server that moves on, or votes in its term for the first time, stays
\* settled where it was; its new ballot is of the term it is in now.
LEMMA VoteStep ==
  ASSUME None \notin Server, Inv, NEW k \in Server, NEW t \in Nat, NEW c \in Server \cup {None},
         Vote(k, t, c)
  PROVE  Inv'
<1> DEFINE new == IF c = None THEN {} ELSE {<<k, t, c>>}
<1>1. /\ termOf' \in [Server -> Nat] /\ voteOf' \in [Server -> Server \cup {None}]
      /\ \A j \in Server : termOf'[j] = IF j = k THEN t ELSE termOf[j]
      /\ \A j \in Server : voteOf'[j] = IF j = k THEN c ELSE voteOf[j]
  BY DEF Vote, Inv, Typed
<1>2. ballots' \subseteq ballots \cup new /\ leaders' = leaders
  BY DEF Vote
<1>3. \A b \in ballots : b \in Server \X Nat \X Server
  BY DEF Inv, Typed
<1>4. \A b \in new : b = <<k, t, c>> /\ c \in Server
  OBVIOUS
<1>5. t >= termOf[k] /\ (t = termOf[k] => voteOf[k] \in {None, c})
  BY DEF Vote
<1>6. \A j \in Server : termOf'[j] >= termOf[j]
                        /\ (termOf'[j] = termOf[j] => voteOf[j] \in {None, voteOf'[j]})
  BY <1>1, <1>5 DEF Inv, Typed
<1> HIDE DEF new
<1>7. Typed'
  <2>1. new \subseteq Server \X Nat \X Server
    BY <1>4
  <2> QED BY <1>1, <1>2, <2>1 DEF Inv, Typed
<1>8. \A b \in ballots : b[1] = k /\ b[2] = t /\ c # None => b[3] = c
  <2> TAKE b \in ballots
  <2>1. b[3] \in Server /\ b[1] \in Server
    BY <1>3
  <2>2. termOf[b[1]] >= b[2] /\ (termOf[b[1]] = b[2] => voteOf[b[1]] = b[3])
    BY DEF Inv, Sound
  <2> QED BY <1>5, <2>1, <2>2 DEF Inv, Typed
<1>9. Sound'
  <2> SUFFICES ASSUME NEW b \in ballots'
               PROVE  termOf'[b[1]] >= b[2] /\ (termOf'[b[1]] = b[2] => voteOf'[b[1]] = b[3])
    BY DEF Sound
  <2>1. CASE b \in new
    BY <1>1, <1>4, <2>1
  <2>2. CASE b \in ballots
    <3>1. termOf[b[1]] >= b[2] /\ (termOf[b[1]] = b[2] => voteOf[b[1]] = b[3])
      BY <2>2 DEF Inv, Sound
    <3>2. b[1] \in Server /\ b[2] \in Nat /\ b[3] \in Server
      BY <1>3, <2>2
    <3> QED BY <1>1, <1>6, <3>1, <3>2 DEF Inv, Typed
  <2> QED BY <1>2, <2>1, <2>2
<1>10. OneBallot'
  <2> SUFFICES ASSUME NEW a \in ballots', NEW b \in ballots', a[1] = b[1], a[2] = b[2]
               PROVE  a = b
    BY DEF OneBallot
  <2>1. /\ a \in Server \X Nat \X Server
        /\ b \in Server \X Nat \X Server
    BY <1>2, <1>3, <1>4
  <2>2. a[3] = b[3]
    <3>1. CASE a \in ballots /\ b \in ballots
      BY <3>1 DEF Inv, OneBallot
    <3>2. CASE a \in new \/ b \in new
      BY <1>2, <1>4, <1>8, <3>2
    <3> QED BY <1>2, <3>1, <3>2
  <2> QED BY <2>1, <2>2
<1>11. Backed'
  <2> SUFFICES ASSUME NEW l \in leaders
               PROVE  \E Q \in SUBSET Server : Majority(Q) /\ \A j \in Q : Settled(j, l[1], l[2])'
    BY <1>2 DEF Backed
  <2>1. PICK Q \in SUBSET Server : Majority(Q) /\ \A j \in Q : Settled(j, l[1], l[2])
    BY DEF Inv, Backed
  <2>2. ASSUME NEW j \in Q
        PROVE  Settled(j, l[1], l[2])'
    <3>1. l[1] \in Nat /\ l[2] \in Server
      BY DEF Inv, Typed
    <3>2. /\ termOf[j] >= l[1] /\ (termOf[j] = l[1] => voteOf[j] = l[2])
          /\ \A b \in ballots : b[1] = j /\ b[2] = l[1] => b[3] = l[2]
      BY <2>1, <2>2 DEF Settled
    <3>3. termOf'[j] >= l[1] /\ (termOf'[j] = l[1] => voteOf'[j] = l[2])
      BY <1>1, <1>6, <3>1, <3>2 DEF Inv, Typed
    <3>4. \A b \in ballots' : b[1] = j /\ b[2] = l[1] => b[3] = l[2]
      BY <1>1, <1>2, <1>4, <3>2, <3>3
    <3> QED BY <3>3, <3>4 DEF Settled
  <2> QED BY <2>1, <2>2
<1> QED
  BY <1>2, <1>7, <1>9, <1>10, <1>11 DEF Inv, OneLeader

\* A second leader of a term would need a ballot of a server that is settled on
\* the first.
LEMMA ElectStep ==
  ASSUME IsFiniteSet(Server), Inv, NEW c \in Server, Elect(c)
  PROVE  Inv'
<1> DEFINE t == termOf[c]
<1>1. /\ leaders' = leaders \cup {<<t, c>>} /\ ballots' \subseteq ballots
      /\ termOf' = termOf /\ voteOf' = voteOf
  BY DEF Elect
<1>2. PICK Q \in SUBSET Server : Majority(Q) /\ \A k \in Q : <<k, t, c>> \in ballots
  BY DEF Elect
<1>3. t \in Nat
  BY DEF Inv, Typed
<1>4. \A k \in Q : Settled(k, t, c)
  <2> TAKE k \in Q
  <2>1. <<k, t, c>> \in ballots
    BY <1>2
  <2>2. \A b \in ballots : b[1] = k /\ b[2] = t => b = <<k, t, c>>
    BY <2>1 DEF Inv, OneBallot
  <2>3. termOf[k] >= t /\ (termOf[k] = t => voteOf[k] = c)
    BY <2>1 DEF Inv, Sound
  <2> QED BY <2>2, <2>3 DEF Settled
<1> HIDE DEF t
<1>5. \A k, u, d : Settled(k, u, d) => Settled(k, u, d)'
  BY <1>1 DEF Settled
<1>6. \A l \in leaders : l[1] = t => l = <<t, c>>
  <2> SUFFICES ASSUME NEW l \in leaders, l[1] = t
               PROVE  l = <<t, c>>
    OBVIOUS
  <2>1. PICK P \in SUBSET Server : Majority(P) /\ \A k \in P : Settled(k, l[1], l[2])
    BY DEF Inv, Backed
  <2>2. PICK k \in P \cap Q : TRUE
    BY <1>2, <2>1, MajoritiesMeet
  <2>3. <<k, t, c>> \in ballots /\ Settled(k, t, l[2])
    BY <1>2, <2>1, <2>2
  <2>4. l[2] = c
    BY <2>3 DEF Settled
  <2> QED BY <2>4 DEF Inv, Typed
<1>7. Typed' /\ Sound' /\ OneBallot'
  BY <1>1, <1>3 DEF Inv, Typed, Sound, OneBallot
<1>8. Backed'
  <2> SUFFICES ASSUME NEW l \in leaders'
               PROVE  \E P \in SUBSET Server : Majority(P) /\ \A k \in P : Settled(k, l[1], l[2])'
    BY DEF Backed
  <2>1. CASE l = <<t, c>>
    BY <1>2, <1>4, <1>5, <2>1
  <2>2. CASE l \in leaders
    <3>1. PICK P \in SUBSET Server : Majority(P) /\ \A k \in P : Settled(k, l[1], l[2])
      BY <2>2 DEF Inv, Backed
    <3> QED BY <1>5, <3>1
  <2> QED BY <1>1, <2>1, <2>2
<1>9. OneLeader'
  BY <1>1, <1>6 DEF Inv, OneLeader
<1> QED
  BY <1>7, <1>8, <1>9 DEF Inv

\* Majorities meet, so no two servers hold the ballots of a majority in one
\* term, even one after the other.
THEOREM ElectsOneLeader ==
  ASSUME IsFiniteSet(Server), None \notin Server
  PROVE  Spec => [](OneLeader /\ OneBallot)
<1>1. Init => Inv
  <2> SUFFICES ASSUME Init PROVE Inv
    OBVIOUS
  <2> QED BY DEF Init, Inv, Typed, Sound, OneBallot, Backed, OneLeader
<1>2. Inv /\ [Next]_vars => Inv'
  <2> SUFFICES ASSUME Inv, [Next]_vars
               PROVE  Inv'
    OBVIOUS
  <2>1. CASE UNCHANGED vars
    BY <2>1 DEF vars, Inv, Typed, Sound, OneBallot, Backed, OneLeader, Settled
  <2>2. CASE Next
    <3>1. PICK s \in Server :
            (\E c \in Server \cup {None} : Vote(s, termOf'[s], c)) \/ Elect(s)
      BY <2>2 DEF Next
    <3>2. CASE Elect(s)
      BY <3>2, ElectStep
    <3>3. CASE \E c \in Server \cup {None} : Vote(s, termOf'[s], c)
      <4>1. PICK c \in Server \cup {None} : Vote(s, termOf'[s], c)
        BY <3>3
      <4>2. termOf'[s] \in Nat
        BY <4>1 DEF Vote
      <4> QED BY <4>1, <4>2, VoteStep
    <3> QED BY <3>1, <3>2, <3>3
  <2> QED BY <2>1, <2>2
<1>3. Inv => OneLeader /\ OneBallot
  BY DEF Inv
<1> QED
  BY <1>1, <1>2, <1>3, PTL DEF Spec
=============================================================================
