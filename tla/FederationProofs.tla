-------------------------- MODULE FederationProofs --------------------------
(***************************************************************************)
(* Federation for every set of spokes, issues and turns, however turns     *)
(* overlap, die, time out and are repeated, and whatever users, the hub's  *)
(* operator and the spokes' operators do: types, and that no edit of a     *)
(* spoke's user is lost.  And for spokes of which one turn pulls: that a   *)
(* pull passes nothing over, that rows follow the log, and that a spoke    *)
(* with nothing left to push or to pull shows the hub's rows.              *)
(***************************************************************************)
EXTENDS Federation, FiniteSetTheorems, WellFoundedInduction, TLAPS

---------------------------------------------------------------------------
(* Greatest elements                                                       *)

\* A finite set has a greatest element in any transitive order that is total on it.
LEMMA FiniteHasGreatest ==
    ASSUME NEW S, IsFiniteSet(S), S # {}, NEW R,
           \A x, y \in S : x # y => <<x, y>> \in R \/ <<y, x>> \in R,
           \A x, y, z \in S : <<x, y>> \in R /\ <<y, z>> \in R => <<x, z>> \in R
    PROVE  \E m \in S : \A x \in S : x = m \/ <<x, m>> \in R
<1> DEFINE Has(T) == \E m \in T : \A x \in T : x = m \/ <<x, m>> \in R
           Bad == {T \in SUBSET S : T # {} /\ ~Has(T)}
<1> SUFFICES ASSUME Bad # {} PROVE FALSE
  OBVIOUS
<1>1. Bad \subseteq FiniteSubsetsOf(S)
  BY FS_Subset DEF FiniteSubsetsOf
<1>2. PICK T \in Bad : \A U \in Bad : ~ (<<U, T>> \in StrictSubsetOrdering(S))
  <2> HIDE DEF Bad
  <2> QED BY <1>1, FS_StrictSubsetOrderingWellFounded, WFMin
<1>3. PICK x \in T : TRUE
  OBVIOUS
<1>4. T \ {x} \notin Bad
  <2>1. T \ {x} \in SUBSET S /\ T \in SUBSET S /\ T \ {x} \subseteq T /\ T \ {x} # T
    BY <1>3
  <2>2. <<T \ {x}, T>> \in StrictSubsetOrdering(S)
    BY <2>1 DEF StrictSubsetOrdering
  <2> QED BY <1>2, <2>2
<1>5. CASE T \ {x} = {}
  <2>1. Has(T)
    BY <1>3, <1>5
  <2> QED BY <2>1
<1>6. CASE T \ {x} # {}
  <2>1. Has(T \ {x})
    BY <1>4, <1>6
  <2>2. PICK m \in T \ {x} : \A y \in T \ {x} : y = m \/ <<y, m>> \in R
    BY <2>1
  <2>3. Has(T)
    <3>1. CASE <<x, m>> \in R
      BY <2>2, <3>1
    <3>2. CASE <<m, x>> \in R
      <4>1. \A y \in T : y = x \/ <<y, x>> \in R
        BY <1>3, <2>2, <3>2
      <4> QED BY <1>3, <4>1
    <3> QED BY <1>3, <2>2, <3>1, <3>2
  <2> QED BY <2>3
<1> QED BY <1>5, <1>6

\* Greatest is what its name says, on every finite set of naturals.
LEMMA GreatestIs ==
    ASSUME NEW S \in SUBSET Nat, IsFiniteSet(S), S # {}
    PROVE  Greatest(S) \in S /\ \A y \in S : y <= Greatest(S)
<1> DEFINE R == {p \in Nat \X Nat : p[1] < p[2]}
<1>1. \A x, y \in S : x # y => <<x, y>> \in R \/ <<y, x>> \in R
  OBVIOUS
<1>2. \A x, y, z \in S : <<x, y>> \in R /\ <<y, z>> \in R => <<x, z>> \in R
  OBVIOUS
<1>3. \E m \in S : \A x \in S : x = m \/ <<x, m>> \in R
  <2> HIDE DEF R
  <2> QED BY <1>1, <1>2, FiniteHasGreatest
<1>4. \E m \in S : \A x \in S : x <= m
  <2>1. PICK m \in S : \A x \in S : x = m \/ <<x, m>> \in R
    BY <1>3
  <2>2. \A x \in S : x <= m
    <3> TAKE x \in S
    <3>1. x = m \/ <<x, m>> \in R
      BY <2>1
    <3>2. <<x, m>> \in R => x < m
      OBVIOUS
    <3> QED BY <3>1, <3>2
  <2> QED BY <2>2
<1> QED BY <1>4 DEF Greatest

\* The positions in a finite set of naturals are its cardinality's numbers.
LEMMA NthIn ==
    ASSUME NEW S \in SUBSET Nat, IsFiniteSet(S), NEW x \in S
    PROVE  Nth(x, S) \in 1..Cardinality(S) /\ Cardinality(S) \in Nat
<1> DEFINE T == {y \in S : y <= x}
<1>1. T \in SUBSET S /\ x \in T
  OBVIOUS
<1>2. IsFiniteSet(T) /\ Cardinality(T) <= Cardinality(S)
      /\ Cardinality(T) \in Nat /\ Cardinality(S) \in Nat
  BY <1>1, FS_Subset, FS_CardinalityType
<1>3. Cardinality(T) # 0
  BY <1>1, <1>2, FS_EmptySet
<1> QED BY <1>2, <1>3 DEF Nth

\* No two elements have the same position.
LEMMA NthOne ==
    ASSUME NEW S \in SUBSET Nat, IsFiniteSet(S), NEW x \in S, NEW y \in S, Nth(x, S) = Nth(y, S)
    PROVE  x = y
<1>1. ASSUME NEW a \in S, NEW b \in S, a < b PROVE Nth(a, S) # Nth(b, S)
  <2> DEFINE A == {z \in S : z <= a}
             B == {z \in S : z <= b}
  <2>1. a \in Nat /\ b \in Nat
    OBVIOUS
  <2>2. A \subseteq B /\ b \in B /\ b \notin A
    <3>1. \A z \in S : z <= a => z <= b
      BY <1>1, <2>1
    <3>2. ~(b <= a) /\ b <= b
      BY <1>1, <2>1
    <3> QED BY <3>1, <3>2
  <2>3. IsFiniteSet(B)
    BY FS_Subset
  <2>4. Cardinality(A) # Cardinality(B)
    <3> HIDE DEF A, B
    <3> QED BY <2>2, <2>3, FS_Subset
  <2> QED BY <2>4 DEF Nth
<1>2. x \in Nat /\ y \in Nat
  OBVIOUS
<1> QED BY <1>1, <1>2

LEMMA NthOnto ==
    ASSUME NEW S \in SUBSET Nat, IsFiniteSet(S), NEW n \in 1..Cardinality(S)
    PROVE  \E x \in S : Nth(x, S) = n
<1> DEFINE f == [x \in S |-> Nth(x, S)]
           N == 1..Cardinality(S)
<1>1. f \in [S -> N]
  BY NthIn
<1>3. \A x, y \in S : f[x] = f[y] => x = y
  BY NthOne
<1>4. f \in Injection(S, N)
  <2> HIDE DEF f, N
  <2> QED BY <1>1, <1>3 DEF Injection, IsInjective
<1>5. Cardinality(S) \in Nat
  BY FS_CardinalityType
<1>6. IsFiniteSet(N) /\ Cardinality(N) = Cardinality(S)
  BY <1>5, FS_Interval
<1>7. f \in Surjection(S, N)
  <2> HIDE DEF f, N
  <2> QED BY <1>4, <1>6, FS_Injection
<1>8. PICK x \in S : f[x] = n
  <2> HIDE DEF f
  <2> QED BY <1>7 DEF Surjection
<1> QED BY <1>8

---------------------------------------------------------------------------
(* The inductive invariant.  EditsNeverLost alone is not inductive: a turn *)
(* moves the push cursor to an acknowledgement it has carried for a while, *)
(* and a reset clears a log by what a turn believes to be pending.         *)

\* Events that are on the hub, were purged there, or were skipped by an operator.
Safe == Uids(Hub) \cup purged \cup skipped

EventsOK == \A u \in DOMAIN born : born[u].kind # "enabled" => born[u].issue \in Issues

\* Ids were given out, and entries are of events that were written.
LogsOK == \A n \in Nodes : \A e \in log[n] : e.id \in 1..last[n] /\ e.uid \in DOMAIN born

CursorsOK ==
    /\ hub.horizon >= 1
    /\ \A s \in Spokes : binding[s].push <= last[s] /\ quarantine[s] <= last[s]

\* What the push cursor has passed is safe.
PassedOK ==
    \A s \in Spokes : \A e \in log[s] :
        born[e.uid].origin = s /\ e.id <= binding[s].push => e.uid \in Safe

\* What is not safe is still in the log of its spoke.
KeptOK ==
    \A u \in DOMAIN born :
        born[u].origin \in Spokes => u \in Safe \/ u \in Uids(born[u].origin)

\* A turn's push cursor is not ahead; what it holds to send is all that is pending
\* up to its last entry; what was acknowledged is safe.
SendsOK(t) ==
    /\ turn[t].push <= binding[At[t]].push
    /\ \A e \in turn[t].todo : e.id <= last[At[t]] /\ e.uid \in DOMAIN born
    /\ turn[t].pc \in {"send", "acked"} =>
          /\ \A e \in turn[t].todo : e.id > turn[t].push
          /\ \A e \in Pending(At[t], turn[t].push) :
                (\E f \in turn[t].todo : e.id <= f.id) => e \in turn[t].todo
    /\ turn[t].pc = "acked" =>
          /\ \E e \in turn[t].todo : e.id = turn[t].ack
          /\ \A e \in turn[t].todo : e.id <= turn[t].ack => e.uid \in Safe

\* A page is of events that were on the hub.
PageOK(t) ==
    \A e \in turn[t].page : e.id <= last[Hub] /\ e.uid \in DOMAIN born /\ e.uid \in Safe

LateOK ==
    \A r \in late : /\ IsFiniteSet({e.id : e \in r.entries})
                     /\ \A e \in r.entries : e.uid \in DOMAIN born

IInv == /\ TypeOK /\ EventsOK /\ LogsOK /\ CursorsOK /\ PassedOK /\ KeptOK /\ LateOK
        /\ \A t \in Turns : SendsOK(t) /\ PageOK(t)

---------------------------------------------------------------------------
(* Clocks, the total order and the fold                                    *)

LEMMA UidsIn ==
    ASSUME TypeOK, LogsOK, NEW n \in Nodes
    PROVE  Uids(n) \subseteq DOMAIN born /\ DOMAIN born = 1..Len(born) /\ Len(born) \in Nat
<1>1. DOMAIN born = 1..Len(born) /\ Len(born) \in Nat
  BY DEF TypeOK
<1> QED BY <1>1 DEF LogsOK, Uids

LEMMA BornFinite ==
    ASSUME TypeOK, NEW S, S \subseteq DOMAIN born
    PROVE  IsFiniteSet(S) /\ S \subseteq Nat
<1>1. DOMAIN born = 1..Len(born) /\ Len(born) \in Nat
  BY DEF TypeOK
<1>2. IsFiniteSet(1..Len(born))
  BY <1>1, FS_Interval
<1> QED BY <1>1, <1>2, FS_Subset

LEMMA BornIs ==
    ASSUME TypeOK, NEW u \in DOMAIN born
    PROVE  /\ born[u] \in Event /\ born[u].origin \in Nodes /\ born[u].clock \in Nat
           /\ born[u].title \in Nat /\ Rank[born[u].origin] \in Nat
<1>1. born \in Seq(Event)
  BY DEF TypeOK
<1>2. DOMAIN born = 1..Len(born) /\ \A v \in 1..Len(born) : born[v] \in Event
  <2> HIDE DEF Event
  <2> QED BY <1>1
<1>3. born[u] \in Event
  BY <1>2
<1>4. born[u].origin \in Nodes /\ born[u].clock \in Nat /\ born[u].title \in Nat
  BY <1>3 DEF Event
<1> QED BY <1>3, <1>4, NodesAssumption

\* The top clock of a log is a number, and no clock in the log is above it.
LEMMA TopClockIs ==
    ASSUME TypeOK, LogsOK, NEW n \in Nodes
    PROVE  TopClock(n) \in Nat /\ \A u \in Uids(n) : born[u].clock <= TopClock(n)
<1> DEFINE U == Uids(n)
           C == {born[u].clock : u \in U}
           f == [u \in U |-> born[u].clock]
<1>1. U \subseteq DOMAIN born /\ IsFiniteSet(U)
  BY UidsIn, BornFinite
<1>2. \A u \in U : born[u].clock \in Nat
  BY <1>1, BornIs
<1>3. f \in Surjection(U, C)
  <2> HIDE DEF U
  <2> QED BY DEF Surjection
<1>4. IsFiniteSet(C)
  <2> HIDE DEF U, C, f
  <2> QED BY <1>1, <1>3, FS_Surjection
<1>5. IsFiniteSet(C \cup {0}) /\ C \cup {0} \in SUBSET Nat /\ C \cup {0} # {}
  <2>1. C \subseteq Nat
    BY <1>2
  <2> HIDE DEF C
  <2> QED BY <1>4, <2>1, FS_AddElement
<1>6. Greatest(C \cup {0}) \in Nat /\ \A c \in C : c <= Greatest(C \cup {0})
  <2> HIDE DEF C
  <2> QED BY <1>5, GreatestIs
<1>7. TopClock(n) = Greatest(C \cup {0})
  BY DEF TopClock
<1> QED BY <1>6, <1>7

\* Clock, instance and number order all events, so that the latest of some exists.
LEMMA LatestIs ==
    ASSUME TypeOK, NEW S, S \subseteq DOMAIN born, S # {}
    PROVE  Latest(S) \in S /\ \A v \in S : v = Latest(S) \/ Before(v, Latest(S))
<1> DEFINE R == {p \in S \X S : Before(p[1], p[2])}
<1>1. IsFiniteSet(S) /\ S \subseteq Nat
  BY BornFinite
<1>2. \A u \in S : born[u].clock \in Nat /\ Rank[born[u].origin] \in Nat
  BY BornIs
<1>3. \A x, y \in S : <<x, y>> \in R <=> Before(x, y)
  OBVIOUS
<1>4. \A x, y \in S : x # y => <<x, y>> \in R \/ <<y, x>> \in R
  <2> HIDE DEF R
  <2> QED BY <1>1, <1>2, <1>3 DEF Before
<1>5. \A x, y, z \in S : <<x, y>> \in R /\ <<y, z>> \in R => <<x, z>> \in R
  <2> HIDE DEF R
  <2> QED BY <1>1, <1>2, <1>3 DEF Before
<1>6. \E m \in S : \A x \in S : x = m \/ <<x, m>> \in R
  <2> HIDE DEF R
  <2> QED BY <1>1, <1>4, <1>5, FiniteHasGreatest
<1>7. \E m \in S : \A x \in S : x = m \/ Before(x, m)
  BY <1>3, <1>6
<1> QED BY <1>7 DEF Latest

LEMMA FoldIs ==
    ASSUME TypeOK, NEW S, S \subseteq DOMAIN born, NEW i
    PROVE  Fold(S, i) \in Nat
<1> DEFINE titles == {u \in S : born[u].issue = i}
<1>1. CASE titles = {}
  BY <1>1 DEF Fold, NoRow
<1>2. CASE titles # {}
  <2>1. titles \subseteq DOMAIN born
    OBVIOUS
  <2>2. Latest(titles) \in titles
    <3> HIDE DEF titles
    <3> QED BY <1>2, <2>1, LatestIs
  <2>3. born[Latest(titles)].title \in Nat
    BY <2>1, <2>2, BornIs
  <2> QED BY <1>2, <2>3 DEF Fold
<1> QED BY <1>1, <1>2

LEMMA RefoldedIs ==
    ASSUME TypeOK, NEW S, S \subseteq DOMAIN born, NEW n \in Nodes, NEW scope
    PROVE  Refolded(n, S, scope) \in [Nodes -> [Issues -> Nat]]
<1>1. \A i \in Issues : Fold(S, i) \in Nat
  BY FoldIs
<1>2. [i \in Issues |-> IF i \in scope THEN Fold(S, i) ELSE row[n][i]] \in [Issues -> Nat]
  BY <1>1 DEF TypeOK
<1> QED BY <1>2 DEF Refolded, TypeOK

---------------------------------------------------------------------------
(* Steps that only add: what every action has in common, and what follows  *)
(* from it.                                                                *)

Grows ==
    /\ \A u \in DOMAIN born : u \in DOMAIN born' /\ born'[u] = born[u]
    /\ \A n \in Nodes : last[n] <= last'[n]
    /\ \A n \in Nodes : \A e \in log'[n] :
          e \in log[n] \/ (e.id \in last[n] + 1..last'[n] /\ e.uid \in DOMAIN born')
    /\ Safe \subseteq Safe'
    /\ \A s \in Spokes : binding[s].push <= binding'[s].push

LEMMA LogsGrow ==
    ASSUME IInv, TypeOK', Grows
    PROVE  LogsOK'
<1> SUFFICES ASSUME NEW n \in Nodes, NEW e \in log'[n]
             PROVE  e.id \in 1..last'[n] /\ e.uid \in DOMAIN born'
  BY DEF LogsOK
<1>1. last[n] \in Nat /\ last'[n] \in Nat /\ last[n] <= last'[n]
  BY DEF IInv, TypeOK, Grows
<1>2. CASE e \in log[n]
  <2>1. e.id \in 1..last[n] /\ e.uid \in DOMAIN born
    BY <1>2 DEF IInv, LogsOK
  <2>2. e.uid \in DOMAIN born'
    BY <2>1 DEF Grows
  <2> QED BY <1>1, <2>1, <2>2
<1>3. CASE e.id \in last[n] + 1..last'[n] /\ e.uid \in DOMAIN born'
  BY <1>1, <1>3
<1> QED BY <1>2, <1>3 DEF Grows

\* An entry above a turn's last one does not disturb it.
LEMMA TurnUndisturbed ==
    ASSUME IInv, TypeOK', Grows, NEW t \in Turns, turn'[t] = turn[t]
    PROVE  SendsOK(t)' /\ PageOK(t)'
<1> DEFINE s == At[t]
<1>1. s \in Spokes /\ s \in Nodes /\ Hub \in Nodes
  BY TurnsAssumption DEF Nodes
<1>2. /\ last[s] \in Nat /\ last'[s] \in Nat /\ last[s] <= last'[s]
      /\ last[Hub] \in Nat /\ last'[Hub] \in Nat /\ last[Hub] <= last'[Hub]
      /\ binding[s].push \in Nat /\ binding'[s].push \in Nat
      /\ binding[s].push <= binding'[s].push
  BY <1>1 DEF IInv, TypeOK, Grows
<1>3. SendsOK(t) /\ PageOK(t) /\ turn[t] \in Turn
  BY DEF IInv, TypeOK
<1>t. /\ turn[t].push \in Nat /\ turn[t].ack \in Nat
      /\ \A e \in turn[t].todo : e.id \in Nat
      /\ \A e \in turn[t].page : e.id \in Nat
  BY <1>3 DEF Turn, Sent
<1>4. \A u \in DOMAIN born : u \in DOMAIN born'
  BY DEF Grows
<1>5. turn[t].push <= binding'[s].push
  BY <1>2, <1>3, <1>t DEF SendsOK
<1>6. \A e \in turn[t].todo : e.id <= last'[s] /\ e.uid \in DOMAIN born'
  BY <1>2, <1>3, <1>t, <1>4 DEF SendsOK
<1>7. ASSUME turn[t].pc \in {"send", "acked"},
             NEW e \in Pending(s, turn[t].push)',
             NEW f \in turn[t].todo, e.id <= f.id
      PROVE  e \in turn[t].todo
  <2>1. PICK g \in log'[s] : /\ born'[g.uid].origin = s /\ g.id > turn[t].push
                             /\ e = [id |-> g.id, uid |-> g.uid]
    BY <1>7 DEF Pending
  <2>2. f.id <= last[s] /\ f.id \in Nat
    BY <1>3, <1>t DEF SendsOK
  <2>3. g.id \in Nat
    BY <1>1 DEF TypeOK, Entry
  <2>4. g \in log[s]
    <3>1. ~(g.id \in last[s] + 1..last'[s])
      BY <1>2, <1>7, <2>1, <2>2, <2>3
    <3> QED BY <1>1, <3>1 DEF Grows
  <2>5. g.uid \in DOMAIN born /\ born'[g.uid] = born[g.uid]
    BY <1>1, <2>4 DEF IInv, LogsOK, Grows
  <2>6. e \in Pending(s, turn[t].push)
    BY <2>1, <2>4, <2>5 DEF Pending
  <2> QED BY <1>3, <1>7, <2>6 DEF SendsOK
<1>8. turn[t].pc = "acked" =>
          /\ \E e \in turn[t].todo : e.id = turn[t].ack
          /\ \A e \in turn[t].todo : e.id <= turn[t].ack => e.uid \in Safe'
  BY <1>3 DEF SendsOK, Grows
<1>9. SendsOK(t)'
  <2>1. turn[t].pc \in {"send", "acked"} => \A e \in turn[t].todo : e.id > turn[t].push
    BY <1>3 DEF SendsOK
  <2>2. turn[t].pc \in {"send", "acked"} =>
          \A e \in Pending(s, turn[t].push)' :
              (\E f \in turn[t].todo : e.id <= f.id) => e \in turn[t].todo
    BY <1>7
  <2> QED BY <1>5, <1>6, <1>8, <2>1, <2>2 DEF SendsOK
<1>10. PageOK(t)'
  BY <1>2, <1>3, <1>t, <1>4 DEF PageOK, Grows
<1> QED BY <1>9, <1>10

\* A turn that is not about to send or to take an acknowledgement owes little.
LEMMA CalmTurn ==
    ASSUME IInv, TypeOK', Grows, NEW t \in Turns,
           turn'[t].pc \notin {"send", "acked"},
           turn'[t].push \in {0, turn[t].push, binding[At[t]].push},
           turn'[t].todo \subseteq turn[t].todo, turn'[t].page \subseteq turn[t].page
    PROVE  SendsOK(t)' /\ PageOK(t)'
<1> DEFINE s == At[t]
<1>1. s \in Spokes /\ s \in Nodes /\ Hub \in Nodes
  BY TurnsAssumption DEF Nodes
<1>2. /\ last[s] \in Nat /\ last'[s] \in Nat /\ last[s] <= last'[s]
      /\ last[Hub] \in Nat /\ last'[Hub] \in Nat /\ last[Hub] <= last'[Hub]
      /\ binding[s].push \in Nat /\ binding'[s].push \in Nat
      /\ binding[s].push <= binding'[s].push
  BY <1>1 DEF IInv, TypeOK, Grows
<1>3. SendsOK(t) /\ PageOK(t) /\ turn[t] \in Turn
  BY DEF IInv, TypeOK
<1>t. /\ turn[t].push \in Nat
      /\ \A e \in turn[t].todo : e.id \in Nat
      /\ \A e \in turn[t].page : e.id \in Nat
  BY <1>3 DEF Turn, Sent
<1>4. \A u \in DOMAIN born : u \in DOMAIN born'
  BY DEF Grows
<1>5. turn'[t].push <= binding'[s].push
  BY <1>2, <1>3, <1>t DEF SendsOK
<1>6. \A e \in turn'[t].todo : e.id <= last'[s] /\ e.uid \in DOMAIN born'
  BY <1>2, <1>3, <1>t, <1>4 DEF SendsOK
<1>7. SendsOK(t)'
  BY <1>5, <1>6 DEF SendsOK
<1>8. PageOK(t)'
  BY <1>2, <1>3, <1>t, <1>4 DEF PageOK, Grows
<1> QED BY <1>7, <1>8

\* New entries lie above the push cursor.
LEMMA PassedGrows ==
    ASSUME IInv, TypeOK', Grows, \A s \in Spokes : binding'[s].push = binding[s].push
    PROVE  PassedOK'
<1> SUFFICES ASSUME NEW s \in Spokes, NEW e \in log'[s],
                    born'[e.uid].origin = s, e.id <= binding'[s].push
             PROVE  e.uid \in Safe'
  BY DEF PassedOK
<1>1. s \in Nodes /\ last[s] \in Nat /\ binding[s].push \in Nat /\ e.id \in Nat
      /\ binding[s].push <= last[s]
  BY DEF IInv, TypeOK, CursorsOK, Nodes, Entry
<1>2. e \in log[s]
  BY <1>1 DEF Grows
<1>3. born[e.uid].origin = s
  BY <1>1, <1>2 DEF IInv, LogsOK, Grows
<1> QED BY <1>2, <1>3 DEF IInv, PassedOK, Grows

LEMMA KeptGrows ==
    ASSUME IInv, TypeOK', Grows, \A s \in Spokes : log[s] \subseteq log'[s],
           \A u \in DOMAIN born' : u \in DOMAIN born \/ (born'[u].origin \in Spokes
               => \E e \in log'[born'[u].origin] : e.uid = u)
    PROVE  KeptOK'
<1> SUFFICES ASSUME NEW u \in DOMAIN born', born'[u].origin \in Spokes
             PROVE  u \in Safe' \/ \E e \in log'[born'[u].origin] : e.uid = u
  BY DEF KeptOK, Uids
<1>1. CASE u \in DOMAIN born
  <2>1. born'[u] = born[u]
    BY <1>1 DEF Grows
  <2>2. u \in Safe \/ \E e \in log[born[u].origin] : e.uid = u
    BY <1>1, <2>1 DEF IInv, KeptOK, Uids
  <2> QED BY <2>1, <2>2 DEF Grows
<1>2. CASE \E e \in log'[born'[u].origin] : e.uid = u
  BY <1>2
<1> QED BY <1>1, <1>2

\* What remains to be shown of an action that takes nothing out of a spoke's log and
\* leaves the push cursors alone.
LEMMA Steady ==
    ASSUME IInv, TypeOK', Grows,
           \A s \in Spokes : /\ log[s] \subseteq log'[s]
                             /\ binding'[s].push = binding[s].push
                             /\ quarantine'[s] <= last[s],
           hub'.horizon >= 1,
           \A u \in DOMAIN born' : u \in DOMAIN born \/
               /\ born'[u].kind # "enabled" => born'[u].issue \in Issues
               /\ born'[u].origin \in Spokes => \E e \in log'[born'[u].origin] : e.uid = u,
           LateOK',
           \A t \in Turns : turn'[t] = turn[t] \/ (SendsOK(t)' /\ PageOK(t)')
    PROVE  IInv'
<1>1. EventsOK'
  BY DEF EventsOK, IInv, Grows
<1>2. CursorsOK'
  <2> SUFFICES ASSUME NEW s \in Spokes
               PROVE  binding'[s].push <= last'[s] /\ quarantine'[s] <= last'[s]
    BY DEF CursorsOK
  <2>1. /\ s \in Nodes /\ last[s] \in Nat /\ last'[s] \in Nat /\ last[s] <= last'[s]
        /\ binding[s].push \in Nat /\ quarantine'[s] \in Nat /\ binding[s].push <= last[s]
    BY DEF IInv, TypeOK, CursorsOK, Nodes, Grows
  <2> QED BY <2>1
<1>3. LogsOK'
  BY LogsGrow
<1>4. PassedOK' /\ KeptOK'
  BY PassedGrows, KeptGrows
<1>5. ASSUME NEW t \in Turns PROVE SendsOK(t)' /\ PageOK(t)'
  BY TurnUndisturbed
<1> QED BY <1>1, <1>2, <1>3, <1>4, <1>5 DEF IInv

LEMMA LateGrows ==
    ASSUME IInv, Grows, late' \subseteq late
    PROVE  LateOK'
BY DEF IInv, LateOK, Grows

\* The same for an action that moves one turn and nothing of what the invariant reads.
LEMMA TurnMoves ==
    ASSUME IInv, TypeOK', NEW t \in Turns,
           UNCHANGED <<born, log, last, purged, skipped>>, hub'.horizon = hub.horizon,
           \A s \in Spokes : /\ binding'[s].push = binding[s].push
                             /\ quarantine'[s] <= last[s],
           LateOK',
           \A o \in Turns \ {t} : turn'[o] = turn[o],
           Grows => SendsOK(t)' /\ PageOK(t)'
    PROVE  IInv'
<1>1. Grows
  <2>1. Safe' = Safe
    BY DEF Safe, Uids
  <2>2. \A n \in Nodes : last[n] \in Nat
    BY DEF IInv, TypeOK
  <2>3. \A s \in Spokes : binding[s].push \in Nat
    BY DEF IInv, TypeOK
  <2> QED BY <2>1, <2>2, <2>3 DEF Grows
<1>2. hub'.horizon >= 1
  BY DEF IInv, CursorsOK
<1> QED BY <1>1, <1>2, Steady

\* A turn goes on, rests or begins without sending anything.
LEMMA CalmMove ==
    ASSUME IInv, NEW t \in Turns, NEW r \in Turn,
           UNCHANGED <<born, log, last, row, hubVars, binding, quarantine, skipped, late>>,
           unfinished' \in [Spokes -> BOOLEAN], faults' \in Nat,
           turn' = [turn EXCEPT ![t] = r],
           r.pc \notin {"send", "acked"},
           r.push \in {0, turn[t].push, binding[At[t]].push},
           r.todo \subseteq turn[t].todo, r.page \subseteq turn[t].page
    PROVE  IInv'
<1>1. TypeOK'
  BY DEF IInv, TypeOK, hubVars
<1>2. turn'[t] = r /\ \A o \in Turns \ {t} : turn'[o] = turn[o]
  BY DEF IInv, TypeOK
<1>3. LateOK'
  BY DEF IInv, LateOK
<1>4. \A s \in Spokes : quarantine'[s] <= last[s]
  BY DEF IInv, CursorsOK
<1>5. Grows => SendsOK(t)' /\ PageOK(t)'
  BY <1>1, <1>2, CalmTurn
<1> QED BY <1>1, <1>2, <1>3, <1>4, <1>5, TurnMoves DEF hubVars

LEMMA Rested == Resting \in Turn
BY DEF Resting, Turn

LEMMA TurnHere ==
    ASSUME TypeOK, NEW t \in Turns
    PROVE  /\ turn[t] \in Turn /\ At[t] \in Spokes /\ At[t] \in Nodes /\ Hub \in Nodes
           /\ At[t] # Hub
BY TurnsAssumption, NodesAssumption DEF TypeOK, Nodes

\* Going to another place of the program.
LEMMA GoesKeeps ==
    ASSUME IInv, NEW t \in Turns, NEW pc, Goes(t, pc),
           pc \in {"push", "pull", "poll", "blockers", "horizon", "reset",
                   "repoll", "insert", "materialize", "advance", "finish"},
           UNCHANGED <<born, log, last, row, hubVars, binding, quarantine, skipped, late>>,
           unfinished' \in [Spokes -> BOOLEAN], faults' \in Nat
    PROVE  IInv'
<1> DEFINE r == [turn[t] EXCEPT !.pc = pc]
<1>1. turn[t] \in Turn
  BY DEF IInv, TypeOK
<1>2. r \in Turn
  BY <1>1 DEF Turn
<1>3. turn' = [turn EXCEPT ![t] = r]
  BY DEF Goes
<1>4. r.pc = pc /\ r.push = turn[t].push /\ r.todo = turn[t].todo /\ r.page = turn[t].page
  BY <1>1 DEF Turn
<1> HIDE DEF r
<1> QED BY <1>2, <1>3, <1>4, CalmMove

LEMMA RestsKeeps ==
    ASSUME IInv, NEW t \in Turns, Rests(t),
           UNCHANGED <<born, log, last, row, hubVars, binding, quarantine, skipped, late>>,
           unfinished' \in [Spokes -> BOOLEAN], faults' \in Nat
    PROVE  IInv'
<1>1. Resting.pc = "idle" /\ Resting.push = 0 /\ Resting.todo = {} /\ Resting.page = {}
  BY DEF Resting
<1>2. turn' = [turn EXCEPT ![t] = Resting]
  BY DEF Rests
<1> QED BY <1>1, <1>2, Rested, CalmMove

---------------------------------------------------------------------------
(* A turn's push                                                           *)

LEMMA BeginKeeps ==
    ASSUME IInv, NEW t \in Turns, Begin(t)
    PROVE  IInv'
<1> DEFINE r == [turn[t] EXCEPT !.pc = IF Mode[t] = "pull" THEN "pull" ELSE "push",
                                !.push = binding[At[t]].push, !.pull = binding[At[t]].pull]
<1>1. turn[t] \in Turn /\ At[t] \in Spokes
  BY TurnHere DEF IInv
<1>2. binding[At[t]].push \in Nat /\ binding[At[t]].pull \in Nat
  BY <1>1 DEF IInv, TypeOK
<1>3. r \in Turn
  BY <1>1, <1>2 DEF Turn
<1>4. turn' = [turn EXCEPT ![t] = r]
  BY DEF Begin
<1>5. r.pc \notin {"send", "acked"} /\ r.push = binding[At[t]].push
      /\ r.todo = turn[t].todo /\ r.page = turn[t].page
  BY <1>1 DEF Turn
<1>6. unfinished' \in [Spokes -> BOOLEAN] /\ faults' \in Nat
  BY DEF Begin, spokeVars, IInv, TypeOK
<1> HIDE DEF r
<1> QED BY <1>3, <1>4, <1>5, <1>6, CalmMove DEF Begin, spokeVars

LEMMA PendingIs ==
    ASSUME TypeOK, LogsOK, NEW s \in Spokes, NEW c \in Nat
    PROVE  /\ Pending(s, c) \in SUBSET Sent
           /\ \A e \in Pending(s, c) : e.id <= last[s] /\ e.uid \in DOMAIN born
BY DEF Pending, Sent, TypeOK, LogsOK, Entry, Nodes

LEMMA ReadPendingKeeps ==
    ASSUME IInv, NEW t \in Turns, ReadPending(t)
    PROVE  IInv'
<1> DEFINE s == At[t]
           pending == Pending(s, turn[t].push)
           r == [turn[t] EXCEPT !.pc = "send", !.todo = pending]
<1>1. turn[t] \in Turn /\ s \in Spokes
  BY TurnHere DEF IInv
<1>2. turn[t].push \in Nat
  BY <1>1 DEF Turn
<1>3. pending \in SUBSET Sent
      /\ \A e \in pending : e.id <= last[s] /\ e.uid \in DOMAIN born
  BY <1>1, <1>2, PendingIs DEF IInv
<1>4. UNCHANGED <<born, log, last, row, hubVars, binding, quarantine, skipped, late>>
      /\ unfinished' \in [Spokes -> BOOLEAN] /\ faults' \in Nat
  BY DEF ReadPending, spokeVars, IInv, TypeOK
<1>5. CASE Rests(t)
  BY <1>4, <1>5, RestsKeeps
<1>6. CASE Goes(t, "pull")
  BY <1>4, <1>6, GoesKeeps
<1>7. CASE turn' = [turn EXCEPT ![t].pc = "send", ![t].todo = pending]
  <2>1. r \in Turn
    BY <1>1, <1>3 DEF Turn
  <2>2. turn' = [turn EXCEPT ![t] = r]
    BY <1>7
  <2>3. turn'[t] = r /\ \A o \in Turns \ {t} : turn'[o] = turn[o]
    BY <2>2 DEF IInv, TypeOK
  <2>4. r.pc = "send" /\ r.push = turn[t].push /\ r.todo = pending /\ r.page = turn[t].page
    BY <1>1 DEF Turn
  <2>5. TypeOK'
    <3> HIDE DEF r
    <3> QED BY <1>4, <2>1, <2>2 DEF IInv, TypeOK, hubVars
  <2>6. ASSUME Grows PROVE SendsOK(t)' /\ PageOK(t)'
    <3>2. turn'[t].todo = pending /\ turn'[t].push = turn[t].push
          /\ turn'[t].pc = "send" /\ turn'[t].page = turn[t].page
      BY <2>3, <2>4
    <3>3. SendsOK(t) /\ PageOK(t)
      BY DEF IInv
    <3>4. Safe' = Safe
      BY <1>4 DEF Safe, Uids, hubVars
    <3> HIDE DEF pending, r
    <3>5. SendsOK(t)'
      <4>1. turn'[t].push <= binding'[s].push
        BY <1>4, <3>2, <3>3 DEF SendsOK
      <4>2. \A e \in turn'[t].todo : e.id <= last'[s] /\ e.uid \in DOMAIN born'
        BY <1>3, <1>4, <3>2
      <4>3. Pending(s, turn[t].push)' = turn'[t].todo
        BY <1>4, <3>2 DEF pending, Pending
      <4>4. \A e \in turn'[t].todo : e.id > turn'[t].push
        BY <3>2 DEF pending, Pending
      <4> QED BY <4>1, <4>2, <4>3, <4>4, <3>2 DEF SendsOK
    <3>6. PageOK(t)'
      BY <1>4, <3>2, <3>3, <3>4 DEF PageOK
    <3> QED BY <3>5, <3>6
  <2>7. LateOK' /\ \A x \in Spokes : quarantine'[x] <= last[x]
    BY <1>4 DEF IInv, LateOK, CursorsOK
  <2> QED BY <1>4, <2>3, <2>5, <2>6, <2>7, TurnMoves DEF hubVars
<1> QED BY <1>5, <1>6, <1>7 DEF ReadPending

\* A batch that the hub takes is on the hub, and adds to its log only.
LEMMA IngestAdds ==
    ASSUME IInv, NEW batch \in SUBSET Sent, IsFiniteSet({e.id : e \in batch}),
           \A e \in batch : e.uid \in DOMAIN born,
           Ingest(batch), UNCHANGED <<born, purged, skipped, binding>>
    PROVE  /\ log' \in [Nodes -> SUBSET Entry] /\ last' \in [Nodes -> Nat]
           /\ row' \in [Nodes -> [Issues -> Nat]]
           /\ Grows
           /\ \A e \in batch : e.uid \in Safe'
           /\ \A n \in Nodes \ {Hub} : log'[n] = log[n]
<1> DEFINE fresh == {e \in batch : e.uid \notin Uids(Hub)}
           ids == {e.id : e \in fresh}
           stored == {[id |-> last[Hub] + Nth(e.id, ids), uid |-> e.uid, pulled |-> FALSE] :
                         e \in fresh}
<1>1. Hub \in Nodes /\ last[Hub] \in Nat /\ log[Hub] \in SUBSET Entry
  BY DEF IInv, TypeOK, Nodes
<1>2. IsFiniteSet(ids) /\ ids \in SUBSET Nat /\ Cardinality(ids) \in Nat
  <2>1. ids \subseteq {e.id : e \in batch}
    OBVIOUS
  <2>2. ids \subseteq Nat
    BY DEF Sent
  <2> HIDE DEF ids
  <2> QED BY <2>1, <2>2, FS_Subset, FS_CardinalityType
<1>3. \A e \in fresh : Nth(e.id, ids) \in 1..Cardinality(ids)
  <2> SUFFICES ASSUME NEW e \in fresh PROVE Nth(e.id, ids) \in 1..Cardinality(ids)
    OBVIOUS
  <2>1. e.id \in ids
    OBVIOUS
  <2> HIDE DEF ids
  <2> QED BY <1>2, <2>1, NthIn
<1>4. \A g \in stored : /\ g \in Entry /\ g.uid \in DOMAIN born
                         /\ g.id \in last[Hub] + 1..last[Hub] + Cardinality(ids)
  <2> SUFFICES ASSUME NEW e \in fresh,
                      NEW g, g = [id |-> last[Hub] + Nth(e.id, ids), uid |-> e.uid, pulled |-> FALSE]
               PROVE  /\ g \in Entry /\ g.uid \in DOMAIN born
                      /\ g.id \in last[Hub] + 1..last[Hub] + Cardinality(ids)
    OBVIOUS
  <2>1. Nth(e.id, ids) \in 1..Cardinality(ids)
    BY <1>3
  <2>2. e.uid \in DOMAIN born /\ e.uid \in Nat
    BY DEF Sent
  <2> HIDE DEF ids
  <2> QED BY <1>1, <1>2, <2>1, <2>2 DEF Entry
<1>5. log' = [log EXCEPT ![Hub] = @ \cup stored]
      /\ last' = [last EXCEPT ![Hub] = @ + Cardinality(ids)]
      /\ row' = Refolded(Hub, Uids(Hub) \cup {e.uid : e \in fresh},
                         {born[e.uid].issue : e \in fresh})
  BY DEF Ingest
<1> HIDE DEF ids, stored
<1>6. log' \in [Nodes -> SUBSET Entry] /\ last' \in [Nodes -> Nat]
  BY <1>1, <1>2, <1>4, <1>5 DEF IInv, TypeOK
<1>7. row' \in [Nodes -> [Issues -> Nat]]
  <2>1. Uids(Hub) \cup {e.uid : e \in fresh} \subseteq DOMAIN born
    BY <1>1, UidsIn DEF IInv
  <2> HIDE DEF fresh
  <2> QED BY <1>1, <1>5, <2>1, RefoldedIs DEF IInv
<1>8. log'[Hub] = log[Hub] \cup stored /\ \A n \in Nodes \ {Hub} : log'[n] = log[n]
  BY <1>1, <1>5 DEF IInv, TypeOK
<1>9. last'[Hub] = last[Hub] + Cardinality(ids) /\ \A n \in Nodes \ {Hub} : last'[n] = last[n]
  BY <1>1, <1>5 DEF IInv, TypeOK
<1>10. Uids(Hub)' = Uids(Hub) \cup {e.uid : e \in fresh}
  <2>1. Uids(Hub)' = {g.uid : g \in log[Hub] \cup stored}
    BY <1>8 DEF Uids
  <2>2. {g.uid : g \in stored} = {e.uid : e \in fresh}
    <3>1. \A g \in stored : \E e \in fresh : g.uid = e.uid
      BY DEF stored
    <3>2. \A e \in fresh : \E g \in stored : g.uid = e.uid
      <4> SUFFICES ASSUME NEW e \in fresh PROVE \E g \in stored : g.uid = e.uid
        OBVIOUS
      <4>1. [id |-> last[Hub] + Nth(e.id, ids), uid |-> e.uid, pulled |-> FALSE] \in stored
        BY DEF stored
      <4> QED BY <4>1
    <3> HIDE DEF fresh
    <3> QED BY <3>1, <3>2
  <2> QED BY <2>1, <2>2 DEF Uids
<1>11. Safe \subseteq Safe' /\ \A e \in batch : e.uid \in Safe'
  BY <1>10 DEF Safe
<1>12. Grows
  <2>1. \A n \in Nodes : last[n] <= last'[n]
    <3>1. \A n \in Nodes : last[n] \in Nat
      BY DEF IInv, TypeOK
    <3> QED BY <1>2, <1>9, <3>1
  <2>2. \A n \in Nodes : \A e \in log'[n] :
          e \in log[n] \/ (e.id \in last[n] + 1..last'[n] /\ e.uid \in DOMAIN born')
    BY <1>4, <1>8, <1>9
  <2>3. \A s \in Spokes : binding[s].push <= binding'[s].push
    BY DEF IInv, TypeOK
  <2> QED BY <1>11, <2>1, <2>2, <2>3 DEF Grows
<1> QED BY <1>6, <1>7, <1>8, <1>11, <1>12

LEMMA TodoFinite ==
    ASSUME IInv, NEW t \in Turns, NEW id
    PROVE  /\ BatchTo(t, id) \in SUBSET Sent /\ IsFiniteSet({e.id : e \in BatchTo(t, id)})
           /\ \A e \in BatchTo(t, id) : e.uid \in DOMAIN born
<1>1. turn[t] \in Turn /\ At[t] \in Nodes /\ SendsOK(t)
  BY TurnHere DEF IInv
<1>2. last[At[t]] \in Nat /\ turn[t].todo \in SUBSET Sent
  BY <1>1 DEF IInv, TypeOK, Turn
<1>3. BatchTo(t, id) \subseteq turn[t].todo
  BY DEF BatchTo
<1>4. {e.id : e \in BatchTo(t, id)} \in SUBSET Nat
      /\ \A i \in {e.id : e \in BatchTo(t, id)} : i <= last[At[t]]
  BY <1>1, <1>2, <1>3 DEF Sent, SendsOK
<1>5. IsFiniteSet({e.id : e \in BatchTo(t, id)})
  BY <1>2, <1>4, FS_BoundedSetOfNaturals
<1> QED BY <1>1, <1>2, <1>3, <1>5 DEF SendsOK

LEMMA PushAcceptedKeeps ==
    ASSUME IInv, NEW t \in Turns, NEW id \in {e.id : e \in turn[t].todo}, PushAccepted(t, id)
    PROVE  IInv'
<1> DEFINE s == At[t]
           r == [turn[t] EXCEPT !.pc = "acked", !.ack = id]
<1>1. turn[t] \in Turn /\ s \in Spokes /\ s \in Nodes /\ s # Hub
  BY TurnHere DEF IInv
<1>2. id \in Nat
  BY <1>1 DEF Turn, Sent
<1>3. /\ log' \in [Nodes -> SUBSET Entry] /\ last' \in [Nodes -> Nat]
      /\ row' \in [Nodes -> [Issues -> Nat]]
      /\ Grows
      /\ \A e \in BatchTo(t, id) : e.uid \in Safe'
      /\ \A n \in Nodes \ {Hub} : log'[n] = log[n]
  BY TodoFinite, IngestAdds DEF PushAccepted, hubVars, spokeVars
<1>4. r \in Turn /\ turn' = [turn EXCEPT ![t] = r]
  BY <1>1, <1>2 DEF Turn, PushAccepted
<1>5. turn'[t] = r /\ \A o \in Turns \ {t} : turn'[o] = turn[o]
  BY <1>4 DEF IInv, TypeOK
<1>6. r.pc = "acked" /\ r.ack = id /\ r.push = turn[t].push /\ r.todo = turn[t].todo
      /\ r.page = turn[t].page
  BY <1>1 DEF Turn
<1> HIDE DEF r
<1>7. UNCHANGED <<born, hub, purged, binding, quarantine, unfinished, skipped, late, faults>>
  BY DEF PushAccepted, hubVars, spokeVars
<1>8. TypeOK'
  BY <1>3, <1>4, <1>7 DEF IInv, TypeOK
<1>9. PageOK(t)'
  <2>1. PageOK(t) /\ last[Hub] <= last'[Hub] /\ last[Hub] \in Nat /\ last'[Hub] \in Nat
        /\ Safe \subseteq Safe'
    BY <1>3 DEF IInv, TypeOK, Grows, Nodes
  <2>2. \A e \in turn[t].page : e.id \in Nat
    BY <1>1 DEF Turn, Sent
  <2> QED BY <1>5, <1>6, <1>7, <2>1, <2>2 DEF PageOK
<1>10. SendsOK(t)'
  <2>1. SendsOK(t) /\ turn[t].pc = "send"
    BY DEF IInv, PushAccepted
  <2>2. turn'[t].push <= binding'[s].push
    BY <1>5, <1>6, <1>7, <2>1 DEF SendsOK
  <2>3. \A e \in turn'[t].todo : e.id <= last'[s] /\ e.uid \in DOMAIN born'
    <3>1. last[s] <= last'[s] /\ last[s] \in Nat /\ last'[s] \in Nat
      BY <1>1, <1>3 DEF IInv, TypeOK, Grows
    <3>2. \A e \in turn[t].todo : e.id \in Nat
      BY <1>1 DEF Turn, Sent
    <3> QED BY <1>5, <1>6, <1>7, <2>1, <3>1, <3>2 DEF SendsOK
  <2>4. Pending(s, turn[t].push)' = Pending(s, turn[t].push)
    <3>1. turn'[t].push = turn[t].push /\ log'[s] = log[s]
      BY <1>1, <1>3, <1>5, <1>6
    <3> QED BY <1>7, <3>1 DEF Pending
  <2>5. \E e \in turn'[t].todo : e.id = turn'[t].ack
    BY <1>5, <1>6
  <2>6. \A e \in turn'[t].todo : e.id <= turn'[t].ack => e.uid \in Safe'
    BY <1>3, <1>5, <1>6 DEF BatchTo
  <2> QED BY <1>5, <1>6, <2>1, <2>2, <2>3, <2>4, <2>5, <2>6 DEF SendsOK
<1>11. \A x \in Spokes : /\ log[x] \subseteq log'[x]
                         /\ binding'[x].push = binding[x].push
                         /\ quarantine'[x] <= last[x]
  BY <1>3, <1>7, NodesAssumption DEF IInv, CursorsOK, Nodes
<1>12. hub'.horizon >= 1
  BY <1>7 DEF IInv, CursorsOK
<1>13. LateOK'
  BY <1>3, <1>7, LateGrows
<1> QED BY <1>3, <1>5, <1>7, <1>8, <1>9, <1>10, <1>11, <1>12, <1>13, Steady

LEMMA LateArrivalKeeps ==
    ASSUME IInv, NEW request \in late, LateArrival(request)
    PROVE  IInv'
<1>1. /\ request.entries \in SUBSET Sent /\ IsFiniteSet({e.id : e \in request.entries})
      /\ \A e \in request.entries : e.uid \in DOMAIN born
  BY DEF IInv, TypeOK, LateOK
<1>2. UNCHANGED <<born, hub, purged, binding, quarantine, unfinished, skipped, turn, faults>>
      /\ late' \subseteq late
  BY DEF LateArrival, hubVars, spokeVars
<1>3. /\ log' \in [Nodes -> SUBSET Entry] /\ last' \in [Nodes -> Nat]
      /\ row' \in [Nodes -> [Issues -> Nat]]
      /\ Grows
      /\ \A n \in Nodes \ {Hub} : log'[n] = log[n]
  BY <1>1, <1>2, IngestAdds DEF LateArrival
<1>4. TypeOK'
  BY <1>2, <1>3 DEF IInv, TypeOK
<1>5. \A x \in Spokes : /\ log[x] \subseteq log'[x]
                        /\ binding'[x].push = binding[x].push
                        /\ quarantine'[x] <= last[x]
  BY <1>2, <1>3, NodesAssumption DEF IInv, CursorsOK, Nodes
<1>6. hub'.horizon >= 1
  BY <1>2 DEF IInv, CursorsOK
<1>7. LateOK'
  BY <1>2, <1>3, LateGrows
<1> QED BY <1>2, <1>3, <1>4, <1>5, <1>6, <1>7, Steady

LEMMA PushRefusedKeeps ==
    ASSUME IInv, NEW t \in Turns, NEW id \in {e.id : e \in turn[t].todo}, PushRefused(t, id)
    PROVE  IInv'
<1> DEFINE s == At[t]
<1>1. turn[t] \in Turn /\ s \in Spokes /\ s \in Nodes /\ s # Hub
  BY TurnHere DEF IInv
<1>2. id \in Nat /\ id <= last[s]
  BY <1>1 DEF Turn, Sent, IInv, SendsOK
<1>3. UNCHANGED <<born, log, last, row, hub, purged, binding, unfinished, skipped, late, faults>>
      /\ quarantine' = [quarantine EXCEPT ![s] = IF @ = 0 THEN id ELSE @]
      /\ turn' = [turn EXCEPT ![t] = Resting]
  BY DEF PushRefused, Rests, hubVars
<1>4. TypeOK'
  BY <1>1, <1>2, <1>3, Rested DEF IInv, TypeOK
<1>5. \A x \in Spokes : binding'[x].push = binding[x].push /\ quarantine'[x] <= last[x]
  BY <1>1, <1>2, <1>3 DEF IInv, CursorsOK, TypeOK
<1>6. LateOK'
  BY <1>3 DEF IInv, LateOK
<1>7. turn'[t] = Resting /\ \A o \in Turns \ {t} : turn'[o] = turn[o]
  BY <1>3 DEF IInv, TypeOK
<1>8. ASSUME Grows PROVE SendsOK(t)' /\ PageOK(t)'
  <2>1. Resting.pc = "idle" /\ Resting.push = 0 /\ Resting.todo = {} /\ Resting.page = {}
    BY DEF Resting
  <2> QED BY <1>4, <1>7, <1>8, <2>1, CalmTurn
<1> QED BY <1>3, <1>4, <1>5, <1>6, <1>7, <1>8, TurnMoves

LEMMA PushTimesOutKeeps ==
    ASSUME IInv, NEW t \in Turns, NEW id \in {e.id : e \in turn[t].todo}, PushTimesOut(t, id)
    PROVE  IInv'
<1> DEFINE lost == [entries |-> BatchTo(t, id), no |-> faults]
<1>1. UNCHANGED <<born, log, last, row, hub, purged, binding, quarantine, unfinished, skipped>>
      /\ late' = late \cup {lost} /\ faults' = faults + 1
      /\ turn' = [turn EXCEPT ![t] = Resting]
  BY DEF PushTimesOut, Rests, hubVars, spokeVars
<1>2. /\ lost.entries \in SUBSET Sent /\ IsFiniteSet({e.id : e \in lost.entries})
      /\ \A e \in lost.entries : e.uid \in DOMAIN born
  BY TodoFinite
<1>3. lost \in [entries : SUBSET Sent, no : Nat]
  BY <1>2 DEF IInv, TypeOK
<1> HIDE DEF lost
<1>4. TypeOK'
  BY <1>1, <1>3, Rested DEF IInv, TypeOK
<1>5. \A x \in Spokes : binding'[x].push = binding[x].push /\ quarantine'[x] <= last[x]
  BY <1>1 DEF IInv, CursorsOK
<1>6. LateOK'
  BY <1>1, <1>2 DEF IInv, LateOK
<1>7. turn'[t] = Resting /\ \A o \in Turns \ {t} : turn'[o] = turn[o]
  BY <1>1 DEF IInv, TypeOK
<1>8. ASSUME Grows PROVE SendsOK(t)' /\ PageOK(t)'
  <2>1. Resting.pc = "idle" /\ Resting.push = 0 /\ Resting.todo = {} /\ Resting.page = {}
    BY DEF Resting
  <2> QED BY <1>4, <1>7, <1>8, <2>1, CalmTurn
<1> QED BY <1>1, <1>4, <1>5, <1>6, <1>7, <1>8, TurnMoves

\* The push cursor passes only what the hub has acknowledged.
LEMMA TakeAckKeeps ==
    ASSUME IInv, NEW t \in Turns, TakeAck(t)
    PROVE  IInv'
<1> DEFINE s == At[t]
           ack == turn[t].ack
           rest == {e \in turn[t].todo : e.id > ack}
           r == [turn[t] EXCEPT !.pc = IF rest = {} THEN "push" ELSE "send",
                                !.push = ack, !.todo = rest, !.ack = 0]
<1>1. turn[t] \in Turn /\ s \in Spokes /\ s \in Nodes /\ s # Hub
  BY TurnHere DEF IInv
<1>2. ack \in Nat /\ rest \in SUBSET Sent /\ turn[t].push \in Nat /\ last[s] \in Nat
      /\ \A e \in turn[t].todo : e.id \in Nat
  BY <1>1 DEF Turn, Sent, IInv, TypeOK
<1>3. SendsOK(t) /\ PageOK(t) /\ turn[t].pc = "acked"
  BY DEF IInv, TakeAck
<1>4. UNCHANGED <<born, log, last, row, hub, purged, quarantine, unfinished, skipped, late, faults>>
      /\ binding' = [binding EXCEPT ![s].push = Larger(@, ack)]
      /\ turn' = [turn EXCEPT ![t] = r]
  BY DEF TakeAck, hubVars
<1>5. r \in Turn
  BY <1>1, <1>2 DEF Turn
<1>6. /\ r.pc = (IF rest = {} THEN "push" ELSE "send") /\ r.push = ack
      /\ r.todo = rest /\ r.page = turn[t].page
  BY <1>1 DEF Turn
<1>7. turn'[t] = r /\ \A o \in Turns \ {t} : turn'[o] = turn[o]
  BY <1>4 DEF IInv, TypeOK
<1> HIDE DEF r
<1>8. ack <= last[s]
  BY <1>3 DEF SendsOK
<1>9. /\ binding'[s].push = Larger(binding[s].push, ack)
      /\ \A x \in Spokes \ {s} : binding'[x] = binding[x]
      /\ binding[s].push \in Nat
      /\ binding' \in [Spokes -> [push : Nat, pull : Nat, horizon : Nat]]
  BY <1>1, <1>2, <1>4 DEF IInv, TypeOK, Larger
<1>10. binding'[s].push \in Nat /\ binding[s].push <= binding'[s].push
       /\ ack <= binding'[s].push /\ binding'[s].push \in {binding[s].push, ack}
  BY <1>2, <1>9 DEF Larger
<1>11. TypeOK'
  BY <1>4, <1>5, <1>9 DEF IInv, TypeOK
<1>12. Safe' = Safe
  BY <1>4 DEF Safe, Uids
<1>13. Grows
  <2>1. \A n \in Nodes : last[n] <= last'[n]
    BY <1>4 DEF IInv, TypeOK
  <2>2. \A x \in Spokes : binding[x].push <= binding'[x].push
    <3> SUFFICES ASSUME NEW x \in Spokes PROVE binding[x].push <= binding'[x].push
      OBVIOUS
    <3>1. binding[x].push \in Nat
      BY DEF IInv, TypeOK
    <3>2. CASE x = s
      BY <1>10, <3>2
    <3>3. CASE x # s
      <4>1. binding'[x] = binding[x]
        BY <1>9, <3>3
      <4> QED BY <3>1, <4>1
    <3> QED BY <3>2, <3>3
  <2> QED BY <1>4, <1>12, <2>1, <2>2 DEF Grows
<1>14. ASSUME NEW e \in log[s], born[e.uid].origin = s, e.id <= ack
       PROVE  e.uid \in Safe
  <2>1. e.id \in Nat
    BY <1>1 DEF IInv, TypeOK, Entry
  <2>2. CASE e.id <= turn[t].push
    <3>1. e.id <= binding[s].push
      BY <1>2, <1>3, <1>9, <2>1, <2>2 DEF SendsOK
    <3> QED BY <1>1, <1>14, <3>1 DEF IInv, PassedOK
  <2>3. CASE e.id > turn[t].push
    <3> DEFINE p == [id |-> e.id, uid |-> e.uid]
    <3>1. p \in Pending(s, turn[t].push)
      BY <1>14, <2>3 DEF Pending
    <3>2. \E f \in turn[t].todo : p.id <= f.id
      BY <1>3, <1>14 DEF SendsOK
    <3>3. p \in turn[t].todo
      <4> HIDE DEF p
      <4> QED BY <1>3, <3>1, <3>2 DEF SendsOK
    <3>4. p.uid \in Safe
      <4>1. p.id <= turn[t].ack
        BY <1>14
      <4> HIDE DEF p
      <4> QED BY <1>3, <3>3, <4>1 DEF SendsOK
    <3> QED BY <3>4
  <2> QED BY <1>2, <2>1, <2>2, <2>3
<1>15. PassedOK'
  <2> SUFFICES ASSUME NEW x \in Spokes, NEW e \in log[x],
                      born[e.uid].origin = x, e.id <= binding'[x].push
               PROVE  e.uid \in Safe
    BY <1>4, <1>12 DEF PassedOK
  <2>1. CASE x = s /\ binding'[s].push = ack
    BY <1>14, <2>1
  <2>2. CASE x # s \/ binding'[s].push = binding[s].push
    BY <1>9, <2>2 DEF IInv, PassedOK
  <2> QED BY <1>10, <2>1, <2>2
<1>16. SendsOK(t)'
  <2>1. turn'[t].push <= binding'[s].push
    BY <1>6, <1>7, <1>10
  <2>2. \A e \in turn'[t].todo : e.id <= last'[s] /\ e.uid \in DOMAIN born'
    BY <1>3, <1>4, <1>6, <1>7 DEF SendsOK
  <2>3. turn'[t].pc # "acked"
    BY <1>6, <1>7
  <2>4. ASSUME NEW e \in Pending(s, turn[t].push)', NEW f \in turn'[t].todo, e.id <= f.id
        PROVE  e \in turn'[t].todo
    <3>0. turn'[t].push = ack
      BY <1>6, <1>7
    <3>1. PICK g \in log[s] : /\ born[g.uid].origin = s /\ g.id > ack
                              /\ e = [id |-> g.id, uid |-> g.uid]
      BY <1>4, <2>4, <3>0 DEF Pending
    <3>2. g.id \in Nat
      BY <1>1 DEF IInv, TypeOK, Entry
    <3>3. CASE g.id > turn[t].push
      <4>1. e \in Pending(s, turn[t].push)
        BY <3>1, <3>3 DEF Pending
      <4>2. f \in turn[t].todo
        BY <1>6, <1>7, <2>4
      <4>3. e \in turn[t].todo
        BY <1>3, <2>4, <4>1, <4>2 DEF SendsOK
      <4> QED BY <1>6, <1>7, <3>1, <4>3
    <3>4. turn[t].push < ack
      BY <1>3 DEF SendsOK
    <3> QED BY <1>2, <3>1, <3>2, <3>3, <3>4
  <2>5. \A e \in turn'[t].todo : e.id > turn'[t].push
    BY <1>6, <1>7
  <2> QED BY <2>1, <2>2, <2>3, <2>4, <2>5 DEF SendsOK
<1>17. PageOK(t)'
  BY <1>3, <1>4, <1>6, <1>7, <1>12 DEF PageOK
<1>18. ASSUME NEW o \in Turns PROVE SendsOK(o)' /\ PageOK(o)'
  BY <1>7, <1>11, <1>13, <1>16, <1>17, TurnUndisturbed
<1>19. LogsOK' /\ EventsOK' /\ LateOK'
  BY <1>4 DEF IInv, LogsOK, EventsOK, LateOK
<1>20. KeptOK'
  BY <1>4, <1>12 DEF IInv, KeptOK, Uids
<1>21. CursorsOK'
  <2> SUFFICES ASSUME NEW x \in Spokes
               PROVE  binding'[x].push <= last[x] /\ quarantine[x] <= last[x]
    BY <1>4 DEF IInv, CursorsOK
  <2>1. CASE x = s
    BY <1>8, <1>10, <2>1 DEF IInv, CursorsOK
  <2>2. CASE x # s
    BY <1>9, <2>2 DEF IInv, CursorsOK
  <2> QED BY <2>1, <2>2
<1> QED BY <1>11, <1>15, <1>18, <1>19, <1>20, <1>21 DEF IInv

---------------------------------------------------------------------------
(* A turn's pull                                                           *)

LEMMA StartPullKeeps ==
    ASSUME IInv, NEW t \in Turns, StartPull(t)
    PROVE  IInv'
<1> DEFINE r == [turn[t] EXCEPT !.pc = "poll", !.resume = unfinished[At[t]]]
<1>1. turn[t] \in Turn /\ At[t] \in Spokes
  BY TurnHere DEF IInv
<1>2. r \in Turn
  BY <1>1 DEF Turn, IInv, TypeOK
<1>3. turn' = [turn EXCEPT ![t] = r] /\ unfinished' \in [Spokes -> BOOLEAN] /\ faults' \in Nat
  BY DEF StartPull, IInv, TypeOK
<1>4. r.pc = "poll" /\ r.push = turn[t].push /\ r.todo = turn[t].todo /\ r.page = turn[t].page
  BY <1>1 DEF Turn
<1> HIDE DEF r
<1> QED BY <1>2, <1>3, <1>4, CalmMove DEF StartPull

\* A page is read: its events are on the hub at this moment.
LEMMA TakesPageKeeps ==
    ASSUME IInv, NEW t \in Turns, TakesPage(t),
           UNCHANGED <<born, log, last, row, hubVars, spokeVars, late, faults>>
    PROVE  IInv'
<1> DEFINE page == Page(turn[t].pull)
           next == IF page = {} THEN turn[t].pull ELSE Greatest({e.id : e \in page})
           r == [turn[t] EXCEPT !.pc = "insert", !.page = page, !.next = next]
<1>1. turn[t] \in Turn /\ At[t] \in Spokes /\ Hub \in Nodes /\ turn[t].pull \in Nat
  BY TurnHere DEF IInv, Turn
<1>2. page \in SUBSET Sent
      /\ \A e \in page : e.id <= last[Hub] /\ e.uid \in DOMAIN born /\ e.uid \in Safe
  <2>1. ASSUME NEW p \in page
        PROVE  p \in Sent /\ p.id <= last[Hub] /\ p.uid \in DOMAIN born /\ p.uid \in Safe
    <3>1. PICK e \in log[Hub] : p = [id |-> e.id, uid |-> e.uid]
      BY DEF Page
    <3>2. e.id \in 1..last[Hub] /\ e.uid \in DOMAIN born /\ e \in Entry
      BY <1>1 DEF IInv, LogsOK, TypeOK
    <3>3. e.uid \in Safe
      BY DEF Safe, Uids
    <3>4. last[Hub] \in Nat
      BY <1>1 DEF IInv, TypeOK
    <3> QED BY <3>1, <3>2, <3>3, <3>4 DEF Sent, Entry
  <2> QED BY <2>1
<1> HIDE DEF page
<1>3. next \in Nat
  <2>1. CASE page = {}
    BY <1>1, <2>1
  <2>2. CASE page # {}
    <3> DEFINE ids == {e.id : e \in page}
    <3>1. ids \in SUBSET Nat /\ ids # {} /\ \A i \in ids : i <= last[Hub]
      BY <1>2, <2>2 DEF Sent
    <3>2. last[Hub] \in Nat
      BY <1>1 DEF IInv, TypeOK
    <3> HIDE DEF ids
    <3>3. Greatest(ids) \in Nat
      BY <3>1, <3>2, FS_BoundedSetOfNaturals, GreatestIs
    <3> QED BY <2>2, <3>3 DEF ids
  <2> QED BY <2>1, <2>2
<1>4. turn' = [turn EXCEPT ![t] = r]
  BY DEF TakesPage, page
<1> HIDE DEF next
<1>5. r \in Turn
  BY <1>1, <1>2, <1>3 DEF Turn
<1>6. turn'[t] = r /\ \A o \in Turns \ {t} : turn'[o] = turn[o]
  BY <1>4 DEF IInv, TypeOK
<1>7. r.pc = "insert" /\ r.push = turn[t].push /\ r.todo = turn[t].todo /\ r.page = page
  BY <1>1 DEF Turn
<1> HIDE DEF r
<1>8. TypeOK'
  BY <1>4, <1>5 DEF IInv, TypeOK, hubVars, spokeVars
<1>9. Safe' = Safe
  BY DEF Safe, Uids, hubVars, spokeVars
<1>10. PageOK(t)'
  BY <1>2, <1>6, <1>7, <1>9 DEF PageOK
<1>11. SendsOK(t)'
  BY <1>6, <1>7 DEF SendsOK, IInv, spokeVars
<1>12. LateOK' /\ \A x \in Spokes : quarantine'[x] <= last[x]
  BY DEF IInv, LateOK, CursorsOK, spokeVars
<1> QED BY <1>6, <1>8, <1>10, <1>11, <1>12, TurnMoves DEF hubVars, spokeVars

LEMMA UnchangedTypes ==
    ASSUME IInv, UNCHANGED <<unfinished, faults>>
    PROVE  unfinished' \in [Spokes -> BOOLEAN] /\ faults' \in Nat
BY DEF IInv, TypeOK

LEMMA PollKeeps ==
    ASSUME IInv, NEW t \in Turns, Poll(t)
    PROVE  IInv'
<1>1. CASE TakesPage(t)
  BY <1>1, TakesPageKeeps DEF Poll
<1>2. CASE Goes(t, "blockers")
  BY <1>2, UnchangedTypes, GoesKeeps DEF Poll, spokeVars
<1> QED BY <1>1, <1>2 DEF Poll

LEMMA RepollKeeps ==
    ASSUME IInv, NEW t \in Turns, Repoll(t)
    PROVE  IInv'
<1>1. CASE TakesPage(t)
  BY <1>1, TakesPageKeeps DEF Repoll
<1>2. CASE Rests(t)
  BY <1>2, UnchangedTypes, RestsKeeps DEF Repoll, spokeVars
<1> QED BY <1>1, <1>2 DEF Repoll

LEMMA CheckBlockersKeeps ==
    ASSUME IInv, NEW t \in Turns, CheckBlockers(t)
    PROVE  IInv'
<1>1. CASE Rests(t)
  BY <1>1, UnchangedTypes, RestsKeeps DEF CheckBlockers, spokeVars
<1>2. CASE Goes(t, "horizon")
  BY <1>2, UnchangedTypes, GoesKeeps DEF CheckBlockers, spokeVars
<1> QED BY <1>1, <1>2 DEF CheckBlockers

\* A baseline adds events of the hub's own to its log.
LEMMA BaselineAdds ==
    ASSUME IInv, NEW skew \in Nat, Baseline(skew), UNCHANGED <<purged, skipped, binding>>
    PROVE  /\ born' \in Seq(Event)
           /\ log' \in [Nodes -> SUBSET Entry] /\ last' \in [Nodes -> Nat]
           /\ Grows
           /\ \A v \in DOMAIN born' : v \in DOMAIN born \/
                 /\ born'[v].origin = Hub
                 /\ born'[v].kind # "enabled" => born'[v].issue \in Issues
           /\ \A n \in Nodes \ {Hub} : log'[n] = log[n]
<1> DEFINE live == {i \in Issues : row[Hub][i] # NoRow}
           clock == TopClock(Hub) + skew
           u == Len(born) + 1
           count == Cardinality(live)
           Snapshot(i) == [origin |-> Hub, clock |-> clock, kind |-> "snapshot", issue |-> i,
                           title |-> row[Hub][i]]
           Numbered(n) == CHOOSE i \in live : Nth(i, live) = n
           enabling == [origin |-> Hub, clock |-> clock, kind |-> "enabled", issue |-> 0,
                        title |-> 0]
           new == {[id |-> last[Hub] + 1 + n, uid |-> u + n, pulled |-> FALSE] : n \in 0..count}
<1>1. Hub \in Nodes /\ last[Hub] \in Nat /\ log[Hub] \in SUBSET Entry
      /\ row[Hub] \in [Issues -> Nat]
  BY DEF IInv, TypeOK, Nodes
<1>2. IsFiniteSet(live) /\ live \in SUBSET Nat /\ count \in Nat
  <2>1. live \in SUBSET Issues /\ IsFiniteSet(Issues) /\ Issues \subseteq Nat
    BY IssuesAssumption
  <2> HIDE DEF live
  <2> QED BY <2>1, FS_Subset, FS_CardinalityType
<1>3. clock \in Nat
  BY <1>1, TopClockIs DEF IInv
<1>4. DOMAIN born = 1..Len(born) /\ Len(born) \in Nat
  BY DEF IInv, TypeOK
<1>5. \A v \in DOMAIN born : born[v] \in Event
  BY BornIs DEF IInv
<1>6. /\ born' = [v \in 1..(u + count) |->
             IF v < u THEN born[v] ELSE IF v > u THEN Snapshot(Numbered(v - u)) ELSE enabling]
      /\ log' = [log EXCEPT ![Hub] = @ \cup new]
      /\ last' = [last EXCEPT ![Hub] = @ + 1 + count]
  BY DEF Baseline
<1>7. enabling \in Event
  BY <1>1, <1>3 DEF Event
<1>8. ASSUME NEW n \in 1..count
      PROVE  /\ Snapshot(Numbered(n)) \in Event
             /\ Snapshot(Numbered(n)).issue \in Issues
             /\ Snapshot(Numbered(n)).origin = Hub
  <2>1. Numbered(n) \in live
    <3>1. \E i \in live : Nth(i, live) = n
      <4> HIDE DEF live
      <4> QED BY <1>2, NthOnto
    <3> HIDE DEF live
    <3> QED BY <3>1
  <2>2. Numbered(n) \in Issues
    BY <2>1
  <2> HIDE DEF Numbered, live, clock
  <2>3. row[Hub][Numbered(n)] \in Nat
    BY <1>1, <2>2
  <2> QED BY <1>1, <1>3, <2>2, <2>3 DEF Event
<1> HIDE DEF live, clock, count, Numbered, Snapshot, enabling
<1>9. /\ DOMAIN born' = 1..(u + count)
      /\ \A v \in 1..(u + count) :
            born'[v] = IF v < u THEN born[v]
                       ELSE IF v > u THEN Snapshot(Numbered(v - u)) ELSE enabling
  BY <1>6
<1>10. ASSUME NEW v \in 1..(u + count)
       PROVE  \/ v \in DOMAIN born /\ born'[v] = born[v]
              \/ v = u /\ born'[v] = enabling
              \/ v - u \in 1..count /\ born'[v] = Snapshot(Numbered(v - u))
  <2>1. CASE v < u
    BY <1>2, <1>4, <1>9, <2>1
  <2>2. CASE v = u
    BY <1>2, <1>4, <1>9, <2>2
  <2>3. CASE v > u
    BY <1>2, <1>4, <1>9, <2>3
  <2> QED BY <1>2, <1>4, <2>1, <2>2, <2>3
<1>11. \A v \in 1..(u + count) : born'[v] \in Event
  BY <1>5, <1>7, <1>8, <1>10
<1>12. born' \in Seq(Event)
  <2>1. born' \in [1..(u + count) -> Event]
    BY <1>6, <1>9, <1>11
  <2>2. u + count \in Nat
    BY <1>2, <1>4
  <2> HIDE DEF u
  <2> QED BY <2>1, <2>2
<1>13. \A v \in DOMAIN born : v \in DOMAIN born' /\ born'[v] = born[v]
  BY <1>2, <1>4, <1>9
<1>14. \A v \in DOMAIN born' : v \in DOMAIN born \/
                 /\ born'[v].origin = Hub
                 /\ born'[v].kind # "enabled" => born'[v].issue \in Issues
  BY <1>8, <1>9, <1>10 DEF enabling
<1>15. \A g \in new : /\ g \in Entry /\ g.uid \in DOMAIN born'
                      /\ g.id \in last[Hub] + 1..last[Hub] + 1 + count
  <2> SUFFICES ASSUME NEW n \in 0..count,
                      NEW g, g = [id |-> last[Hub] + 1 + n, uid |-> u + n, pulled |-> FALSE]
               PROVE  /\ g \in Entry /\ g.uid \in DOMAIN born'
                      /\ g.id \in last[Hub] + 1..last[Hub] + 1 + count
    OBVIOUS
  <2>1. g.id = last[Hub] + 1 + n /\ g.uid = u + n
    OBVIOUS
  <2>2. g \in Entry
    BY <1>1, <1>2, <1>4 DEF Entry
  <2> QED BY <1>1, <1>2, <1>4, <1>9, <2>1, <2>2
<1> HIDE DEF new, u
<1>16. log' \in [Nodes -> SUBSET Entry] /\ last' \in [Nodes -> Nat]
  BY <1>1, <1>2, <1>6, <1>15 DEF IInv, TypeOK
<1>17. log'[Hub] = log[Hub] \cup new /\ \A n \in Nodes \ {Hub} : log'[n] = log[n]
  BY <1>1, <1>6 DEF IInv, TypeOK
<1>18. last'[Hub] = last[Hub] + 1 + count /\ \A n \in Nodes \ {Hub} : last'[n] = last[n]
  BY <1>1, <1>6 DEF IInv, TypeOK
<1>19. Grows
  <2>1. \A n \in Nodes : last[n] <= last'[n]
    <3>1. \A n \in Nodes : last[n] \in Nat
      BY DEF IInv, TypeOK
    <3> QED BY <1>2, <1>18, <3>1
  <2>2. \A n \in Nodes : \A e \in log'[n] :
          e \in log[n] \/ (e.id \in last[n] + 1..last'[n] /\ e.uid \in DOMAIN born')
    BY <1>15, <1>17, <1>18
  <2>3. \A s \in Spokes : binding[s].push <= binding'[s].push
    BY DEF IInv, TypeOK
  <2>4. Safe \subseteq Safe'
    BY <1>17 DEF Safe, Uids
  <2> QED BY <1>13, <2>1, <2>2, <2>3, <2>4 DEF Grows
<1> QED BY <1>12, <1>14, <1>16, <1>17, <1>19

LEMMA HubApart == Hub \in Nodes /\ \A s \in Spokes : s \in Nodes \ {Hub}
BY NodesAssumption DEF Nodes

LEMMA FetchHorizonKeeps ==
    ASSUME IInv, NEW t \in Turns, NEW skew \in 1..Skew, FetchHorizon(t, skew)
    PROVE  IInv'
<1> DEFINE r == [turn[t] EXCEPT !.pc = "reset", !.next = hub'.horizon - 1]
<1>1. turn[t] \in Turn /\ At[t] \in Spokes
  BY TurnHere DEF IInv
<1>2. UNCHANGED <<row, purged, binding, quarantine, unfinished, skipped, late, faults>>
      /\ turn' = [turn EXCEPT ![t] = r]
  BY DEF FetchHorizon, spokeVars
<1>3. hub \in [horizon : Nat, reset : Nat, refresh : BOOLEAN, purges : Nat] /\ hub.horizon >= 1
      /\ last[Hub] \in Nat
  BY HubApart DEF IInv, TypeOK, CursorsOK
<1>4. /\ born' \in Seq(Event)
      /\ log' \in [Nodes -> SUBSET Entry] /\ last' \in [Nodes -> Nat]
      /\ hub' \in [horizon : Nat, reset : Nat, refresh : BOOLEAN, purges : Nat]
      /\ hub'.horizon >= 1
      /\ Grows
      /\ \A v \in DOMAIN born' : v \in DOMAIN born \/
             /\ born'[v].origin = Hub
             /\ born'[v].kind # "enabled" => born'[v].issue \in Issues
      /\ \A n \in Nodes \ {Hub} : log'[n] = log[n]
  <2>1. CASE Baseline(skew) /\ hub' = [hub EXCEPT !.horizon = last[Hub] + 1]
    <3>1. skew \in Nat
      BY BoundsAssumption
    <3>2. hub' \in [horizon : Nat, reset : Nat, refresh : BOOLEAN, purges : Nat]
          /\ hub'.horizon >= 1
      BY <1>3, <2>1
    <3> QED BY <1>2, <2>1, <3>1, <3>2, BaselineAdds
  <2>2. CASE UNCHANGED <<born, log, last, hub>>
    <3>1. Safe' = Safe
      BY <1>2, <2>2 DEF Safe, Uids
    <3>2. \A n \in Nodes : last[n] \in Nat
      BY DEF IInv, TypeOK
    <3>3. \A x \in Spokes : binding[x].push \in Nat
      BY DEF IInv, TypeOK
    <3>4. Grows
      BY <1>2, <2>2, <3>1, <3>2, <3>3 DEF Grows
    <3> QED BY <1>3, <2>2, <3>4 DEF IInv, TypeOK
  <2> QED BY <2>1, <2>2 DEF FetchHorizon
<1>5. r \in Turn
  <2>1. hub'.horizon - 1 \in Nat
    BY <1>4
  <2> QED BY <1>1, <2>1 DEF Turn
<1>6. turn'[t] = r /\ \A o \in Turns \ {t} : turn'[o] = turn[o]
  BY <1>2 DEF IInv, TypeOK
<1>7. r.pc = "reset" /\ r.push = turn[t].push /\ r.todo = turn[t].todo /\ r.page = turn[t].page
  BY <1>1 DEF Turn
<1> HIDE DEF r
<1>8. TypeOK'
  BY <1>2, <1>4, <1>5 DEF IInv, TypeOK
<1>9. SendsOK(t)' /\ PageOK(t)'
  BY <1>4, <1>6, <1>7, <1>8, CalmTurn
<1>10. \A x \in Spokes : /\ log[x] \subseteq log'[x]
                         /\ binding'[x].push = binding[x].push
                         /\ quarantine'[x] <= last[x]
  BY <1>2, <1>4, HubApart DEF IInv, CursorsOK
<1>11. LateOK'
  BY <1>2, <1>4, LateGrows
<1>12. \A v \in DOMAIN born' : v \in DOMAIN born \/
          /\ born'[v].kind # "enabled" => born'[v].issue \in Issues
          /\ born'[v].origin \in Spokes => \E e \in log'[born'[v].origin] : e.uid = v
  BY <1>4, HubApart
<1> QED BY <1>4, <1>6, <1>8, <1>9, <1>10, <1>11, <1>12, Steady

\* A reset takes only safe events out of a spoke's log: nothing is pending above the
\* turn's cursor, and the turn's cursor is not ahead of what is known to be safe.
LEMMA ResetKeeps ==
    ASSUME IInv, NEW t \in Turns, Reset(t)
    PROVE  IInv'
<1> DEFINE s == At[t]
           r == [turn[t] EXCEPT !.pc = "repoll", !.pull = turn[t].next]
<1>1. turn[t] \in Turn /\ s \in Spokes /\ s \in Nodes /\ s # Hub
  BY TurnHere DEF IInv
<1>2. UNCHANGED <<born, last, hub, purged, quarantine, unfinished, skipped, late, faults>>
  BY DEF Reset, hubVars
<1>3. CASE Blocked(t)
  <2>1. Rests(t) /\ UNCHANGED <<log, row, binding>>
    BY <1>3 DEF Reset
  <2> QED BY <1>2, <2>1, UnchangedTypes, RestsKeeps DEF hubVars
<1>4. CASE ~Blocked(t)
  <2>1. /\ log' = [log EXCEPT ![s] = {}]
        /\ row' = [row EXCEPT ![s] = [i \in Issues |-> NoRow]]
        /\ binding' = [binding EXCEPT ![s].pull = turn[t].next, ![s].horizon = turn[t].next + 1]
        /\ turn' = [turn EXCEPT ![t] = r]
    BY <1>4 DEF Reset
  <2>2. r \in Turn /\ turn[t].next \in Nat /\ turn[t].push \in Nat
    BY <1>1 DEF Turn
  <2>3. turn'[t] = r /\ \A o \in Turns \ {t} : turn'[o] = turn[o]
    BY <2>1 DEF IInv, TypeOK
  <2>4. r.pc = "repoll" /\ r.push = turn[t].push /\ r.todo = turn[t].todo /\ r.page = turn[t].page
    BY <1>1 DEF Turn
  <2> HIDE DEF r
  <2>5. binding' \in [Spokes -> [push : Nat, pull : Nat, horizon : Nat]]
        /\ \A x \in Spokes : binding'[x].push = binding[x].push
    <3> DEFINE b == [binding[s] EXCEPT !.pull = turn[t].next, !.horizon = turn[t].next + 1]
    <3>1. binding[s] \in [push : Nat, pull : Nat, horizon : Nat]
      BY <1>1 DEF IInv, TypeOK
    <3>2. b \in [push : Nat, pull : Nat, horizon : Nat] /\ b.push = binding[s].push
      <4>1. turn[t].next + 1 \in Nat
        BY <2>2
      <4> DEFINE c == [binding[s] EXCEPT !.pull = turn[t].next]
      <4>2. c \in [push : Nat, pull : Nat, horizon : Nat] /\ c.push = binding[s].push
        BY <2>2, <3>1
      <4>3. b = [c EXCEPT !.horizon = turn[t].next + 1]
        OBVIOUS
      <4> HIDE DEF b, c
      <4> QED BY <4>1, <4>2, <4>3
    <3>3. binding' = [binding EXCEPT ![s] = b]
      BY <2>1
    <3> HIDE DEF b
    <3> QED BY <1>1, <3>2, <3>3 DEF IInv, TypeOK
  <2>6. log'[s] = {} /\ \A n \in Nodes \ {s} : log'[n] = log[n]
    BY <1>1, <2>1 DEF IInv, TypeOK
  <2>7. log' \in [Nodes -> SUBSET Entry] /\ row' \in [Nodes -> [Issues -> Nat]]
    BY <1>1, <2>1 DEF IInv, TypeOK, NoRow
  <2>8. TypeOK'
    BY <1>2, <2>1, <2>2, <2>5, <2>7 DEF IInv, TypeOK
  <2>9. Safe' = Safe
    BY <1>1, <1>2, <2>6, HubApart DEF Safe, Uids
  <2>10. Grows
    <3>1. \A n \in Nodes : last[n] <= last'[n]
      BY <1>2 DEF IInv, TypeOK
    <3>2. \A n \in Nodes : log'[n] \subseteq log[n]
      BY <2>6
    <3>3. \A x \in Spokes : binding[x].push <= binding'[x].push
      BY <2>5 DEF IInv, TypeOK
    <3> QED BY <1>2, <2>9, <3>1, <3>2, <3>3 DEF Grows
  <2>11. \A o \in Turns : SendsOK(o)' /\ PageOK(o)'
    BY <2>3, <2>4, <2>8, <2>10, CalmTurn, TurnUndisturbed
  <2>12. LogsOK' /\ PassedOK' /\ LateOK' /\ EventsOK'
    <3>1. EventsOK'
      BY <1>2 DEF IInv, EventsOK
    <3> QED BY <1>2, <2>5, <2>8, <2>10, <3>1, LogsGrow, PassedGrows, LateGrows
  <2>13. CursorsOK'
    BY <1>2, <2>5 DEF IInv, CursorsOK
  <2>14. KeptOK'
    <3> SUFFICES ASSUME NEW u \in DOMAIN born, born[u].origin \in Spokes, u \notin Safe
                 PROVE  \E e \in log'[born[u].origin] : e.uid = u
      BY <1>2, <2>9 DEF KeptOK, Uids
    <3>1. PICK e \in log[born[u].origin] : e.uid = u
      BY DEF IInv, KeptOK, Uids
    <3>2. born[u].origin # s
      <4> SUFFICES ASSUME born[u].origin = s PROVE FALSE
        OBVIOUS
      <4>1. e \in log[s] /\ e.id \in Nat
        BY <1>1, <3>1 DEF IInv, TypeOK, Entry
      <4>2. Pending(s, turn[t].push) = {}
        BY <1>4 DEF Blocked
      <4>3. ~(e.id > turn[t].push)
        BY <3>1, <4>1, <4>2 DEF Pending
      <4>4. turn[t].push <= binding[s].push /\ binding[s].push \in Nat
        BY <1>1 DEF IInv, SendsOK, TypeOK
      <4>5. e.id <= binding[s].push
        BY <2>2, <4>1, <4>3, <4>4
      <4> QED BY <1>1, <3>1, <4>1, <4>5 DEF IInv, PassedOK
    <3>3. log'[born[u].origin] = log[born[u].origin]
      BY <2>6, <3>2, HubApart
    <3> QED BY <3>1, <3>3
  <2> QED BY <2>8, <2>11, <2>12, <2>13, <2>14 DEF IInv
<1> QED BY <1>3, <1>4

\* A page's events are of issues, or a baseline's first.
LEMMA ScopeIs ==
    ASSUME IInv, NEW t \in Turns, NEW applied, applied \subseteq turn[t].page
    PROVE  Scope(applied) \in SUBSET Issues
<1>1. CASE \E p \in applied : born[p.uid].kind = "enabled"
  BY <1>1 DEF Scope
<1>2. CASE ~ \E p \in applied : born[p.uid].kind = "enabled"
  <2>1. \A p \in applied : born[p.uid].issue \in Issues
    BY <1>2 DEF IInv, PageOK, EventsOK
  <2> QED BY <1>2, <2>1 DEF Scope
<1> QED BY <1>1, <1>2

LEMMA InsertKeeps ==
    ASSUME IInv, NEW t \in Turns, Insert(t)
    PROVE  IInv'
<1> DEFINE s == At[t]
           page == turn[t].page
           fresh == {p \in page : p.uid \notin Uids(s)}
           ids == {p.id : p \in fresh}
           applied == fresh \cup {p \in page \ fresh : Reapplied(t, p)}
           stored == {[id |-> last[s] + Nth(p.id, ids), uid |-> p.uid, pulled |-> TRUE] :
                         p \in fresh}
           r == [turn[t] EXCEPT !.pc = "materialize", !.mine = @ \cup {p.uid : p \in fresh},
                                !.scope = Scope(applied)]
<1>1. turn[t] \in Turn /\ s \in Spokes /\ s \in Nodes /\ s # Hub /\ Hub \in Nodes
  BY TurnHere DEF IInv
<1>2. page \in SUBSET Sent /\ last[s] \in Nat /\ last[Hub] \in Nat /\ PageOK(t)
  BY <1>1 DEF Turn, IInv, TypeOK
<1>3. IsFiniteSet(ids) /\ ids \in SUBSET Nat /\ Cardinality(ids) \in Nat
  <2>1. ids \in SUBSET Nat /\ \A i \in ids : i <= last[Hub]
    BY <1>2 DEF Sent, PageOK
  <2> HIDE DEF ids
  <2> QED BY <1>2, <2>1, FS_BoundedSetOfNaturals, FS_CardinalityType
<1>4. \A g \in stored : /\ g \in Entry /\ g.uid \in DOMAIN born
                        /\ g.id \in last[s] + 1..last[s] + Cardinality(ids)
  <2> SUFFICES ASSUME NEW p \in fresh,
                      NEW g, g = [id |-> last[s] + Nth(p.id, ids), uid |-> p.uid, pulled |-> TRUE]
               PROVE  /\ g \in Entry /\ g.uid \in DOMAIN born
                      /\ g.id \in last[s] + 1..last[s] + Cardinality(ids)
    OBVIOUS
  <2>1. p.id \in ids
    OBVIOUS
  <2>2. p.uid \in DOMAIN born /\ p.uid \in Nat
    BY <1>2 DEF Sent, PageOK
  <2> HIDE DEF ids
  <2>3. Nth(p.id, ids) \in 1..Cardinality(ids)
    BY <1>3, <2>1, NthIn
  <2> QED BY <1>2, <1>3, <2>2, <2>3 DEF Entry
<1>5. /\ log' = [log EXCEPT ![s] = @ \cup stored]
      /\ last' = [last EXCEPT ![s] = @ + Cardinality(ids)]
      /\ turn' = [turn EXCEPT ![t] = r]
      /\ UNCHANGED <<born, row, hub, purged, binding, quarantine, unfinished, skipped, late, faults>>
  BY DEF Insert, hubVars, spokeVars
<1>6. r \in Turn
  <2>1. Scope(applied) \in SUBSET Issues
    BY ScopeIs
  <2>2. {p.uid : p \in fresh} \subseteq Nat
    BY <1>2 DEF Sent
  <2> HIDE DEF applied, fresh
  <2> QED BY <1>1, <2>1, <2>2 DEF Turn
<1>7. r.pc = "materialize" /\ r.push = turn[t].push /\ r.todo = turn[t].todo
      /\ r.page = turn[t].page
  BY <1>1 DEF Turn
<1> HIDE DEF ids, stored, r
<1>8. turn'[t] = r /\ \A o \in Turns \ {t} : turn'[o] = turn[o]
  BY <1>5 DEF IInv, TypeOK
<1>9. TypeOK'
  BY <1>1, <1>3, <1>4, <1>5, <1>6 DEF IInv, TypeOK
<1>10. log'[s] = log[s] \cup stored /\ \A n \in Nodes \ {s} : log'[n] = log[n]
  BY <1>1, <1>5 DEF IInv, TypeOK
<1>11. last'[s] = last[s] + Cardinality(ids) /\ \A n \in Nodes \ {s} : last'[n] = last[n]
  BY <1>1, <1>5 DEF IInv, TypeOK
<1>12. Grows
  <2>1. \A n \in Nodes : last[n] <= last'[n]
    <3>1. \A n \in Nodes : last[n] \in Nat
      BY DEF IInv, TypeOK
    <3> QED BY <1>3, <1>11, <3>1
  <2>2. \A n \in Nodes : \A e \in log'[n] :
          e \in log[n] \/ (e.id \in last[n] + 1..last'[n] /\ e.uid \in DOMAIN born')
    BY <1>4, <1>5, <1>10, <1>11
  <2>3. \A x \in Spokes : binding[x].push <= binding'[x].push
    BY <1>5 DEF IInv, TypeOK
  <2>4. Safe' = Safe
    BY <1>1, <1>5, <1>10 DEF Safe, Uids
  <2> QED BY <1>5, <2>1, <2>2, <2>3, <2>4 DEF Grows
<1>13. SendsOK(t)' /\ PageOK(t)'
  BY <1>7, <1>8, <1>9, <1>12, CalmTurn
<1>14. \A x \in Spokes : /\ log[x] \subseteq log'[x]
                         /\ binding'[x].push = binding[x].push
                         /\ quarantine'[x] <= last[x]
  BY <1>5, <1>10, HubApart DEF IInv, CursorsOK
<1>15. LateOK' /\ hub'.horizon >= 1
  BY <1>5, <1>12, LateGrows DEF IInv, CursorsOK
<1> QED BY <1>5, <1>8, <1>9, <1>12, <1>13, <1>14, <1>15, Steady

LEMMA MaterializeKeeps ==
    ASSUME IInv, NEW t \in Turns, Materialize(t)
    PROVE  IInv'
<1> DEFINE s == At[t]
           r == [turn[t] EXCEPT !.pc = "advance"]
<1>1. turn[t] \in Turn /\ s \in Nodes
  BY TurnHere DEF IInv
<1>2. UNCHANGED <<born, log, last, hub, purged, binding, quarantine, unfinished, skipped, late,
                  faults>>
      /\ row' = Refolded(s, Uids(s), turn[t].scope) /\ turn' = [turn EXCEPT ![t] = r]
  BY DEF Materialize, Goes, hubVars, spokeVars
<1>3. row' \in [Nodes -> [Issues -> Nat]]
  BY <1>1, <1>2, UidsIn, RefoldedIs DEF IInv
<1>4. r \in Turn
  BY <1>1 DEF Turn
<1>5. r.pc = "advance" /\ r.push = turn[t].push /\ r.todo = turn[t].todo /\ r.page = turn[t].page
  BY <1>1 DEF Turn
<1> HIDE DEF r
<1>6. TypeOK'
  BY <1>2, <1>3, <1>4 DEF IInv, TypeOK
<1>7. turn'[t] = r /\ \A o \in Turns \ {t} : turn'[o] = turn[o]
  BY <1>2 DEF IInv, TypeOK
<1>8. Grows => SendsOK(t)' /\ PageOK(t)'
  BY <1>5, <1>6, <1>7, CalmTurn
<1>9. LateOK' /\ \A x \in Spokes : binding'[x].push = binding[x].push /\ quarantine'[x] <= last[x]
  BY <1>2 DEF IInv, LateOK, CursorsOK
<1> QED BY <1>2, <1>6, <1>7, <1>8, <1>9, TurnMoves

LEMMA AdvancePullKeeps ==
    ASSUME IInv, NEW t \in Turns, AdvancePull(t)
    PROVE  IInv'
<1> DEFINE s == At[t]
           r == [Resting EXCEPT !.pc = "finish"]
           b == [binding[s] EXCEPT !.pull = Larger(@, turn[t].next)]
<1>1. turn[t] \in Turn /\ s \in Spokes /\ turn[t].next \in Nat
  BY TurnHere DEF IInv, Turn
<1>2. UNCHANGED <<born, log, last, row, hub, purged, quarantine, unfinished, skipped, late, faults>>
      /\ turn' = [turn EXCEPT ![t] = r]
  BY DEF AdvancePull, hubVars
<1>3. r \in Turn /\ r.pc = "finish" /\ r.push = 0 /\ r.todo = {} /\ r.page = {}
  BY Rested DEF Resting, Turn
<1>4. binding[s] \in [push : Nat, pull : Nat, horizon : Nat]
  BY <1>1 DEF IInv, TypeOK
<1>5. b \in [push : Nat, pull : Nat, horizon : Nat] /\ b.push = binding[s].push
  <2>1. Larger(binding[s].pull, turn[t].next) \in Nat
    BY <1>1, <1>4 DEF Larger
  <2> QED BY <1>4, <2>1
<1>6. binding' = [binding EXCEPT ![s] = b]
  BY DEF AdvancePull
<1> HIDE DEF b, r
<1>7. binding' \in [Spokes -> [push : Nat, pull : Nat, horizon : Nat]]
      /\ \A x \in Spokes : binding'[x].push = binding[x].push
  BY <1>1, <1>5, <1>6 DEF IInv, TypeOK
<1>8. TypeOK'
  BY <1>2, <1>3, <1>7 DEF IInv, TypeOK
<1>9. turn'[t] = r /\ \A o \in Turns \ {t} : turn'[o] = turn[o]
  BY <1>2 DEF IInv, TypeOK
<1>10. Grows => SendsOK(t)' /\ PageOK(t)'
  BY <1>3, <1>8, <1>9, CalmTurn
<1>11. LateOK' /\ \A x \in Spokes : quarantine'[x] <= last[x]
  BY <1>2 DEF IInv, LateOK, CursorsOK
<1> QED BY <1>2, <1>7, <1>8, <1>9, <1>10, <1>11, TurnMoves

LEMMA FinishPullKeeps ==
    ASSUME IInv, NEW t \in Turns, FinishPull(t)
    PROVE  IInv'
<1>1. unfinished' \in [Spokes -> BOOLEAN] /\ faults' \in Nat
  BY DEF FinishPull, IInv, TypeOK
<1> QED BY <1>1, RestsKeeps DEF FinishPull

LEMMA ReapplyKeeps ==
    ASSUME IInv, NEW t \in Turns, Reapply(t)
    PROVE  IInv'
<1>1. unfinished' \in [Spokes -> BOOLEAN] /\ faults' \in Nat
  BY DEF Reapply, spokeVars, IInv, TypeOK
<1> QED BY <1>1, GoesKeeps DEF Reapply, spokeVars

LEMMA AbortKeeps ==
    ASSUME IInv, NEW t \in Turns, Abort(t)
    PROVE  IInv'
<1>1. unfinished' \in [Spokes -> BOOLEAN] /\ faults' \in Nat
  BY DEF Abort, spokeVars, IInv, TypeOK
<1> QED BY <1>1, RestsKeeps DEF Abort, spokeVars

---------------------------------------------------------------------------
(* Users and operators                                                     *)

LEMMA EditKeeps ==
    ASSUME IInv, NEW n \in Nodes, NEW i \in Issues, NEW kind \in Edits, NEW skew \in 1..Skew,
           Edit(n, i, kind, skew)
    PROVE  IInv'
<1> DEFINE u == Len(born) + 1
           event == [origin |-> n, clock |-> TopClock(n) + skew, kind |-> kind,
                     issue |-> i, title |-> u]
           entry == [id |-> last[n] + 1, uid |-> u, pulled |-> FALSE]
<1>1. /\ born' = Append(born, event)
      /\ log' = [log EXCEPT ![n] = @ \cup {entry}]
      /\ last' = [last EXCEPT ![n] = @ + 1]
      /\ row' = [row EXCEPT ![n][i] = u]
      /\ UNCHANGED <<hub, purged, binding, quarantine, unfinished, skipped, turn, late, faults>>
  BY DEF Edit, hubVars, spokeVars
<1>2. born \in Seq(Event) /\ Len(born) \in Nat /\ DOMAIN born = 1..Len(born) /\ last[n] \in Nat
  BY DEF IInv, TypeOK
<1>3. event \in Event
  <2>1. TopClock(n) + skew \in Nat
    BY TopClockIs, BoundsAssumption DEF IInv
  <2>2. kind \in Edits \cup {"enabled", "snapshot"} /\ i \in Issues \cup {0} /\ u \in Nat
    BY <1>2
  <2> QED BY <2>1, <2>2 DEF Event
<1>4. event.origin = n /\ event.issue = i
  OBVIOUS
<1>5. entry \in Entry /\ entry.id = last[n] + 1 /\ entry.uid = u
  BY <1>2 DEF Entry
<1> HIDE DEF event, entry
<1>6. /\ born' \in Seq(Event) /\ DOMAIN born' = 1..u
      /\ \A v \in DOMAIN born : born'[v] = born[v]
      /\ born'[u] = event
  <2> HIDE DEF Event
  <2> QED BY <1>1, <1>2, <1>3
<1>7. /\ log' \in [Nodes -> SUBSET Entry]
      /\ log'[n] = log[n] \cup {entry} /\ \A m \in Nodes \ {n} : log'[m] = log[m]
  BY <1>1, <1>5 DEF IInv, TypeOK
<1>8. /\ last' \in [Nodes -> Nat]
      /\ last'[n] = last[n] + 1 /\ \A m \in Nodes \ {n} : last'[m] = last[m]
  BY <1>1, <1>2 DEF IInv, TypeOK
<1>9. row' \in [Nodes -> [Issues -> Nat]]
  <2>1. row[n] \in [Issues -> Nat]
    BY DEF IInv, TypeOK
  <2>2. [row[n] EXCEPT ![i] = u] \in [Issues -> Nat]
    BY <1>2, <2>1
  <2> QED BY <1>1, <2>2 DEF IInv, TypeOK
<1>10. TypeOK'
  BY <1>1, <1>6, <1>7, <1>8, <1>9 DEF IInv, TypeOK
<1>11. Grows
  <2>1. \A m \in Nodes : last[m] <= last'[m]
    <3>1. \A m \in Nodes : last[m] \in Nat
      BY DEF IInv, TypeOK
    <3> QED BY <1>2, <1>8, <3>1
  <2>2. \A m \in Nodes : \A e \in log'[m] :
          e \in log[m] \/ (e.id \in last[m] + 1..last'[m] /\ e.uid \in DOMAIN born')
    BY <1>2, <1>5, <1>6, <1>7, <1>8
  <2>3. \A x \in Spokes : binding[x].push <= binding'[x].push
    BY <1>1 DEF IInv, TypeOK
  <2>4. Safe \subseteq Safe'
    <3>1. log[Hub] \subseteq log'[Hub]
      BY <1>7, HubApart
    <3> QED BY <1>1, <3>1 DEF Safe, Uids
  <2>5. \A v \in DOMAIN born : v \in DOMAIN born'
    BY <1>2, <1>6
  <2> QED BY <1>6, <2>1, <2>2, <2>3, <2>4, <2>5 DEF Grows
<1>12. \A v \in DOMAIN born' : v \in DOMAIN born \/
          /\ born'[v].kind # "enabled" => born'[v].issue \in Issues
          /\ born'[v].origin \in Spokes => \E e \in log'[born'[v].origin] : e.uid = v
  <2>1. \A v \in DOMAIN born' : v \in DOMAIN born \/ v = u
    BY <1>2, <1>6
  <2>2. born'[u].issue \in Issues /\ \E e \in log'[born'[u].origin] : e.uid = u
    BY <1>4, <1>5, <1>6, <1>7
  <2> QED BY <2>1, <2>2
<1>13. \A x \in Spokes : /\ log[x] \subseteq log'[x]
                         /\ binding'[x].push = binding[x].push
                         /\ quarantine'[x] <= last[x]
  BY <1>1, <1>7, HubApart DEF IInv, CursorsOK
<1>14. LateOK' /\ hub'.horizon >= 1
  BY <1>1, <1>11, LateGrows DEF IInv, CursorsOK
<1> QED BY <1>1, <1>10, <1>11, <1>12, <1>13, <1>14, Steady

\* What a purge takes from the hub counts as safe: it was there.
LEMMA PurgeKeeps ==
    ASSUME IInv, NEW i \in Issues, Purge(i)
    PROVE  IInv'
<1> DEFINE events == {e \in log[Hub] : born[e.uid].issue = i}
<1>1. /\ log' = [log EXCEPT ![Hub] = @ \ events]
      /\ purged' = purged \cup {e.uid : e \in events}
      /\ last' = [last EXCEPT ![Hub] = @ + 1]
      /\ row' = [row EXCEPT ![Hub][i] = NoRow]
      /\ hub' = [hub EXCEPT !.reset = last[Hub] + 1, !.refresh = TRUE, !.purges = @ + 1]
      /\ UNCHANGED <<born, binding, quarantine, unfinished, skipped, turn, late, faults>>
  BY DEF Purge, spokeVars
<1>2. Hub \in Nodes /\ last[Hub] \in Nat /\ log[Hub] \in SUBSET Entry
  BY HubApart DEF IInv, TypeOK
<1>3. {e.uid : e \in events} \subseteq Nat
  BY <1>2 DEF Entry
<1>4. /\ hub' \in [horizon : Nat, reset : Nat, refresh : BOOLEAN, purges : Nat]
      /\ hub'.horizon = hub.horizon
  <2>1. hub \in [horizon : Nat, reset : Nat, refresh : BOOLEAN, purges : Nat]
    BY DEF IInv, TypeOK
  <2>2. hub' = [horizon |-> hub.horizon, reset |-> last[Hub] + 1, refresh |-> TRUE,
                purges |-> hub.purges + 1]
    BY <1>1, <2>1
  <2>3. last[Hub] + 1 \in Nat /\ hub.purges + 1 \in Nat /\ hub.horizon \in Nat
    BY <1>2, <2>1
  <2> QED BY <2>2, <2>3
<1>5. row' \in [Nodes -> [Issues -> Nat]]
  <2>1. [row[Hub] EXCEPT ![i] = NoRow] \in [Issues -> Nat]
    BY <1>2 DEF IInv, TypeOK, NoRow
  <2> QED BY <1>1, <2>1 DEF IInv, TypeOK
<1> HIDE DEF events
<1>6. /\ log'[Hub] = log[Hub] \ events /\ \A n \in Nodes \ {Hub} : log'[n] = log[n]
      /\ last'[Hub] = last[Hub] + 1 /\ \A n \in Nodes \ {Hub} : last'[n] = last[n]
  BY <1>1, <1>2 DEF IInv, TypeOK
<1>7. log' \in [Nodes -> SUBSET Entry] /\ last' \in [Nodes -> Nat]
  BY <1>1, <1>2 DEF IInv, TypeOK
<1>8. purged' \subseteq Nat
  BY <1>1, <1>3 DEF IInv, TypeOK
<1>9. TypeOK'
  BY <1>1, <1>4, <1>5, <1>7, <1>8 DEF IInv, TypeOK
<1>10. Safe \subseteq Safe'
  <2>1. Uids(Hub) \subseteq Uids(Hub)' \cup purged'
    BY <1>1, <1>6 DEF Uids
  <2> QED BY <1>1, <2>1 DEF Safe
<1>11. Grows
  <2>1. \A n \in Nodes : last[n] <= last'[n]
    <3>1. \A n \in Nodes : last[n] \in Nat
      BY DEF IInv, TypeOK
    <3> QED BY <1>6, <3>1
  <2>2. \A x \in Spokes : binding[x].push <= binding'[x].push
    BY <1>1 DEF IInv, TypeOK
  <2>3. \A n \in Nodes : log'[n] \subseteq log[n]
    BY <1>6
  <2> QED BY <1>1, <1>10, <2>1, <2>2, <2>3 DEF Grows
<1>12. \A x \in Spokes : /\ log[x] \subseteq log'[x]
                         /\ binding'[x].push = binding[x].push
                         /\ quarantine'[x] <= last[x]
  BY <1>1, <1>6, HubApart DEF IInv, CursorsOK
<1>13. LateOK' /\ hub'.horizon >= 1
  BY <1>1, <1>4, <1>11, LateGrows DEF IInv, CursorsOK
<1> QED BY <1>1, <1>9, <1>11, <1>12, <1>13, Steady

LEMMA RefreshKeeps ==
    ASSUME IInv, NEW skew \in 1..Skew, Refresh(skew)
    PROVE  IInv'
<1>1. /\ Baseline(skew)
      /\ hub' = [hub EXCEPT !.horizon = last[Hub] + 1, !.refresh = FALSE]
      /\ UNCHANGED <<row, purged, binding, quarantine, unfinished, skipped, turn, late, faults>>
  BY DEF Refresh, spokeVars
<1>2. skew \in Nat
  BY BoundsAssumption
<1>3. /\ born' \in Seq(Event)
      /\ log' \in [Nodes -> SUBSET Entry] /\ last' \in [Nodes -> Nat]
      /\ Grows
      /\ \A v \in DOMAIN born' : v \in DOMAIN born \/
             /\ born'[v].origin = Hub
             /\ born'[v].kind # "enabled" => born'[v].issue \in Issues
      /\ \A n \in Nodes \ {Hub} : log'[n] = log[n]
  BY <1>1, <1>2, BaselineAdds
<1>4. /\ hub' \in [horizon : Nat, reset : Nat, refresh : BOOLEAN, purges : Nat]
      /\ hub'.horizon >= 1
  <2>1. hub \in [horizon : Nat, reset : Nat, refresh : BOOLEAN, purges : Nat] /\ last[Hub] \in Nat
    BY HubApart DEF IInv, TypeOK
  <2>2. hub' = [horizon |-> last[Hub] + 1, reset |-> hub.reset, refresh |-> FALSE,
                purges |-> hub.purges]
    BY <1>1, <2>1
  <2>3. last[Hub] + 1 \in Nat /\ last[Hub] + 1 >= 1
    BY <2>1
  <2> QED BY <2>1, <2>2, <2>3
<1>5. TypeOK'
  BY <1>1, <1>3, <1>4 DEF IInv, TypeOK
<1>6. \A x \in Spokes : /\ log[x] \subseteq log'[x]
                        /\ binding'[x].push = binding[x].push
                        /\ quarantine'[x] <= last[x]
  BY <1>1, <1>3, HubApart DEF IInv, CursorsOK
<1>7. LateOK'
  BY <1>1, <1>3, LateGrows
<1>8. \A v \in DOMAIN born' : v \in DOMAIN born \/
         /\ born'[v].kind # "enabled" => born'[v].issue \in Issues
         /\ born'[v].origin \in Spokes => \E e \in log'[born'[v].origin] : e.uid = v
  BY <1>3, HubApart
<1> QED BY <1>1, <1>3, <1>4, <1>5, <1>6, <1>7, <1>8, Steady

LEMMA NothingGrows ==
    ASSUME IInv, UNCHANGED <<born, log, last, purged, skipped, binding>>
    PROVE  Grows
<1>1. Safe' = Safe
  BY DEF Safe, Uids
<1>2. \A n \in Nodes : last[n] \in Nat
  BY DEF IInv, TypeOK
<1>3. \A s \in Spokes : binding[s].push \in Nat
  BY DEF IInv, TypeOK
<1> QED BY <1>1, <1>2, <1>3 DEF Grows

LEMMA RefreshFailsKeeps ==
    ASSUME IInv, RefreshFails
    PROVE  IInv'
<1>1. /\ hub' = [hub EXCEPT !.refresh = FALSE] /\ faults' = faults + 1
      /\ UNCHANGED <<born, log, last, row, purged, binding, quarantine, unfinished, skipped, turn,
                     late>>
  BY DEF RefreshFails, spokeVars
<1>2. hub' \in [horizon : Nat, reset : Nat, refresh : BOOLEAN, purges : Nat]
      /\ hub'.horizon = hub.horizon
  BY <1>1 DEF IInv, TypeOK
<1>3. TypeOK'
  BY <1>1, <1>2 DEF IInv, TypeOK
<1>4. Grows
  BY <1>1, NothingGrows
<1>5. LateOK' /\ hub'.horizon >= 1
      /\ \A x \in Spokes : log[x] \subseteq log'[x] /\ binding'[x].push = binding[x].push
                          /\ quarantine'[x] <= last[x]
  BY <1>1, <1>2 DEF IInv, LateOK, CursorsOK
<1> QED BY <1>1, <1>3, <1>4, <1>5, Steady

LEMMA RetryKeeps ==
    ASSUME IInv, NEW s \in Spokes, Retry(s)
    PROVE  IInv'
<1>1. /\ quarantine' = [quarantine EXCEPT ![s] = 0]
      /\ UNCHANGED <<born, log, last, row, hub, purged, binding, unfinished, skipped, turn, late,
                     faults>>
  BY DEF Retry, hubVars
<1>2. TypeOK'
  BY <1>1 DEF IInv, TypeOK
<1>3. Grows
  BY <1>1, NothingGrows
<1>4. \A x \in Spokes : quarantine'[x] <= last[x]
  BY <1>1, HubApart DEF IInv, CursorsOK, TypeOK
<1>5. LateOK' /\ hub'.horizon >= 1
  BY <1>1 DEF IInv, LateOK, CursorsOK
<1> QED BY <1>1, <1>2, <1>3, <1>4, <1>5, Steady

\* The events a skip passes count as safe, by the operator's word.
LEMMA SkipKeeps ==
    ASSUME IInv, NEW s \in Spokes, Skip(s)
    PROVE  IInv'
<1> DEFINE q == quarantine[s]
           passed == {f \in Pending(s, binding[s].push) : f.id <= q}
<1>1. /\ skipped' = skipped \cup {e.uid : e \in passed}
      /\ binding' = [binding EXCEPT ![s].push = Larger(@, q)]
      /\ quarantine' = [quarantine EXCEPT ![s] = 0]
      /\ UNCHANGED <<born, log, last, row, hub, purged, unfinished, turn, late, faults>>
  BY DEF Skip, hubVars
<1>2. s \in Nodes /\ last[s] \in Nat /\ q \in Nat /\ q <= last[s]
      /\ binding[s] \in [push : Nat, pull : Nat, horizon : Nat] /\ binding[s].push <= last[s]
  BY HubApart DEF IInv, TypeOK, CursorsOK
<1>3. passed \in SUBSET Sent
  BY <1>2, PendingIs DEF IInv
<1>4. skipped' \subseteq Nat
  BY <1>1, <1>3 DEF IInv, TypeOK, Sent
<1>5. /\ Larger(binding[s].push, q) \in Nat /\ binding[s].push <= Larger(binding[s].push, q)
      /\ Larger(binding[s].push, q) \in {binding[s].push, q}
  BY <1>2 DEF Larger
<1>6. /\ binding' \in [Spokes -> [push : Nat, pull : Nat, horizon : Nat]]
      /\ binding'[s].push = Larger(binding[s].push, q)
      /\ \A x \in Spokes \ {s} : binding'[x] = binding[x]
  BY <1>1, <1>2, <1>5 DEF IInv, TypeOK
<1>7. TypeOK'
  BY <1>1, <1>4, <1>6 DEF IInv, TypeOK
<1>8. Safe' = Safe \cup {e.uid : e \in passed}
  BY <1>1 DEF Safe, Uids
<1>9. Grows
  <2>1. \A n \in Nodes : last[n] <= last'[n]
    BY <1>1 DEF IInv, TypeOK
  <2>2. \A x \in Spokes : binding[x].push <= binding'[x].push
    <3> SUFFICES ASSUME NEW x \in Spokes PROVE binding[x].push <= binding'[x].push
      OBVIOUS
    <3>1. binding[x].push \in Nat
      BY DEF IInv, TypeOK
    <3>2. CASE x = s
      BY <1>5, <1>6, <3>2
    <3>3. CASE x # s
      <4>1. binding'[x] = binding[x]
        BY <1>6, <3>3
      <4> QED BY <3>1, <4>1
    <3> QED BY <3>2, <3>3
  <2> QED BY <1>1, <1>8, <2>1, <2>2 DEF Grows
<1>10. PassedOK'
  <2> SUFFICES ASSUME NEW x \in Spokes, NEW e \in log[x],
                      born[e.uid].origin = x, e.id <= binding'[x].push
               PROVE  e.uid \in Safe'
    BY <1>1 DEF PassedOK
  <2>1. CASE x # s \/ e.id <= binding[x].push
    BY <1>6, <1>8, <2>1 DEF IInv, PassedOK
  <2>2. CASE x = s /\ ~(e.id <= binding[s].push)
    <3>1. e.id \in Nat
      BY <1>2, <2>2 DEF IInv, TypeOK, Entry
    <3>2. e.id > binding[s].push /\ e.id <= q
      BY <1>2, <1>5, <1>6, <2>2, <3>1
    <3> DEFINE p == [id |-> e.id, uid |-> e.uid]
    <3>3. p \in Pending(s, binding[s].push)
      BY <2>2, <3>2 DEF Pending
    <3>4. p \in passed /\ p.uid = e.uid
      BY <3>2, <3>3
    <3> HIDE DEF p, passed
    <3> QED BY <1>8, <3>4
  <2> QED BY <2>1, <2>2
<1>11. KeptOK'
  BY <1>1, <1>8 DEF IInv, KeptOK, Uids
<1>12. CursorsOK'
  <2> SUFFICES ASSUME NEW x \in Spokes
               PROVE  binding'[x].push <= last[x] /\ quarantine'[x] <= last[x]
    BY <1>1 DEF IInv, CursorsOK
  <2>1. CASE x = s
    BY <1>1, <1>2, <1>5, <1>6, <2>1 DEF IInv, TypeOK
  <2>2. CASE x # s
    <3>1. binding'[x] = binding[x] /\ quarantine'[x] = quarantine[x]
      BY <1>1, <1>6, <2>2 DEF IInv, TypeOK
    <3> QED BY <3>1 DEF IInv, CursorsOK
  <2> QED BY <2>1, <2>2
<1>13. LogsOK' /\ EventsOK' /\ LateOK'
  BY <1>1 DEF IInv, LogsOK, EventsOK, LateOK
<1>14. \A t \in Turns : SendsOK(t)' /\ PageOK(t)'
  BY <1>1, <1>7, <1>9, TurnUndisturbed
<1> QED BY <1>7, <1>10, <1>11, <1>12, <1>13, <1>14 DEF IInv

---------------------------------------------------------------------------
(* The theorems                                                            *)

\* An enabled hub: the founding issues, their baseline, and spokes that start before it.
LEMMA StartsWell ==
    ASSUME Init
    PROVE  IInv
<1> DEFINE founded == Cardinality(Founding)
           Numbered(n) == CHOOSE i \in Founding : Nth(i, Founding) = n
           First(u) ==
               [origin |-> Hub,
                clock |-> IF u <= founded THEN u ELSE founded + 1,
                kind |-> IF u <= founded THEN "created"
                         ELSE IF u = founded + 1 THEN "enabled" ELSE "snapshot",
                issue |-> IF u <= founded THEN Numbered(u)
                          ELSE IF u = founded + 1 THEN 0 ELSE Numbered(u - founded - 1),
                title |-> IF u <= founded THEN u
                          ELSE IF u = founded + 1 THEN 0 ELSE u - founded - 1]
           all == 1..(2 * founded + 1)
           entries == {[id |-> u, uid |-> u, pulled |-> FALSE] : u \in all}
<1>1. /\ born = [u \in all |-> First(u)]
      /\ log = [n \in Nodes |-> IF n = Hub THEN entries ELSE {}]
      /\ last = [n \in Nodes |-> IF n = Hub THEN 2 * founded + 1 ELSE 0]
      /\ row = [n \in Nodes |-> [i \in Issues |->
                   IF n = Hub /\ i \in Founding THEN Nth(i, Founding) ELSE NoRow]]
      /\ hub = [horizon |-> founded + 1, reset |-> 0, refresh |-> FALSE, purges |-> 0]
      /\ binding = [s \in Spokes |-> [push |-> 0, pull |-> founded, horizon |-> founded + 1]]
      /\ quarantine = [s \in Spokes |-> 0]
      /\ unfinished = [s \in Spokes |-> FALSE]
      /\ turn = [t \in Turns |-> Resting]
      /\ late = {} /\ purged = {} /\ skipped = {} /\ faults = 0
  BY DEF Init
<1>2. Founding \in SUBSET Nat /\ IsFiniteSet(Founding) /\ founded \in Nat
  <2>1. IsFiniteSet(Founding)
    BY IssuesAssumption, FS_Subset
  <2> QED BY <2>1, IssuesAssumption, FS_CardinalityType
<1>3. \A n \in 1..founded : Numbered(n) \in Founding
  BY <1>2, NthOnto
<1>4. \A i \in Founding : Nth(i, Founding) \in Nat
  BY <1>2, NthIn
<1> HIDE DEF founded, Numbered
<1>5. ASSUME NEW u \in all
      PROVE  First(u) \in Event /\ First(u).origin = Hub
             /\ (First(u).kind # "enabled" => First(u).issue \in Issues)
  <2>1. u \in Nat
    BY <1>2
  <2>2. CASE u <= founded
    <3>1. u \in 1..founded
      BY <1>2, <2>2
    <3>2. Numbered(u) \in Issues
      BY <1>3, <3>1, IssuesAssumption
    <3>3. First(u) = [origin |-> Hub, clock |-> u, kind |-> "created", issue |-> Numbered(u),
                      title |-> u]
      BY <2>2
    <3> HIDE DEF First
    <3> QED BY <2>1, <3>2, <3>3, HubApart DEF Event, Edits
  <2>3. CASE u = founded + 1
    <3>1. First(u) = [origin |-> Hub, clock |-> founded + 1, kind |-> "enabled", issue |-> 0,
                      title |-> 0]
      BY <1>2, <2>3
    <3>2. founded + 1 \in Nat
      BY <1>2
    <3> HIDE DEF First
    <3> QED BY <3>1, <3>2, HubApart DEF Event
  <2>4. CASE u > founded + 1
    <3>1. u - founded - 1 \in 1..founded /\ founded + 1 \in Nat
      BY <1>2, <2>4
    <3>2. Numbered(u - founded - 1) \in Issues
      BY <1>3, <3>1, IssuesAssumption
    <3>3. First(u) = [origin |-> Hub, clock |-> founded + 1, kind |-> "snapshot",
                      issue |-> Numbered(u - founded - 1), title |-> u - founded - 1]
      BY <1>2, <2>4
    <3>4. u - founded - 1 \in Nat
      BY <3>1
    <3> HIDE DEF First
    <3> QED BY <3>1, <3>2, <3>3, <3>4, HubApart DEF Event
  <2> QED BY <1>2, <2>1, <2>2, <2>3, <2>4
<1> HIDE DEF First
<1>6. born \in Seq(Event) /\ DOMAIN born = all
  <2>1. 2 * founded + 1 \in Nat
    BY <1>2
  <2> QED BY <1>1, <1>5, <2>1
<1>7. \A u \in DOMAIN born : /\ born[u].origin = Hub
                             /\ born[u].kind # "enabled" => born[u].issue \in Issues
  BY <1>1, <1>5, <1>6
<1>8. entries \in SUBSET Entry
  <2> SUFFICES ASSUME NEW u \in all PROVE [id |-> u, uid |-> u, pulled |-> FALSE] \in Entry
    OBVIOUS
  <2>1. u \in Nat
    OBVIOUS
  <2> HIDE DEF all
  <2> QED BY <2>1 DEF Entry
<1>9. log[Hub] = entries /\ \A s \in Spokes : log[s] = {}
  BY <1>1, HubApart
<1>10. TypeOK
  <2>1. log \in [Nodes -> SUBSET Entry]
    <3> HIDE DEF entries
    <3> QED BY <1>1, <1>8
  <2>2. last \in [Nodes -> Nat]
    BY <1>1, <1>2
  <2>3. row \in [Nodes -> [Issues -> Nat]]
    BY <1>1, <1>4 DEF NoRow
  <2>4. hub \in [horizon : Nat, reset : Nat, refresh : BOOLEAN, purges : Nat]
    BY <1>1, <1>2
  <2>5. binding \in [Spokes -> [push : Nat, pull : Nat, horizon : Nat]]
    BY <1>1, <1>2
  <2>6. turn \in [Turns -> Turn]
    BY <1>1, Rested
  <2> QED BY <1>1, <1>6, <2>1, <2>2, <2>3, <2>4, <2>5, <2>6 DEF TypeOK
<1>11. EventsOK
  BY <1>7 DEF EventsOK
<1>12. LogsOK
  <2>1. \A e \in log[Hub] : e.id \in 1..last[Hub] /\ e.uid \in DOMAIN born
    BY <1>1, <1>6, <1>9, HubApart
  <2> QED BY <1>9, <2>1, NodesAssumption DEF LogsOK, Nodes
<1>13. CursorsOK
  BY <1>1, <1>2, HubApart DEF CursorsOK
<1>14. PassedOK /\ KeptOK
  BY <1>7, <1>9, NodesAssumption DEF PassedOK, KeptOK
<1>15. LateOK
  BY <1>1 DEF LateOK
<1>16. ASSUME NEW t \in Turns PROVE SendsOK(t) /\ PageOK(t)
  BY <1>1, TurnsAssumption DEF SendsOK, PageOK, Resting
<1> QED BY <1>10, <1>11, <1>12, <1>13, <1>14, <1>15, <1>16 DEF IInv

LEMMA StutterKeeps ==
    ASSUME IInv, UNCHANGED vars
    PROVE  IInv'
<1>1. UNCHANGED <<born, log, last, row, hub, purged, binding, quarantine, unfinished, skipped,
                  turn, late, faults>>
  BY DEF vars, hubVars, spokeVars
<1>2. TypeOK' /\ EventsOK' /\ LogsOK' /\ CursorsOK'
  BY <1>1 DEF IInv, TypeOK, EventsOK, LogsOK, CursorsOK
<1>3. PassedOK' /\ KeptOK' /\ LateOK'
  BY <1>1 DEF IInv, PassedOK, KeptOK, LateOK, Safe, Uids
<1>4. \A t \in Turns : SendsOK(t)' /\ PageOK(t)'
  BY <1>1 DEF IInv, SendsOK, PageOK, Pending, Safe, Uids
<1> QED BY <1>2, <1>3, <1>4 DEF IInv

LEMMA TurnKeeps ==
    ASSUME IInv, NEW t \in Turns, TurnRuns(t) \/ TurnFails(t)
    PROVE  IInv'
<1>1. CASE \/ Begin(t) \/ ReadPending(t) \/ TakeAck(t)
           \/ \E id \in {e.id : e \in turn[t].todo} : PushAccepted(t, id) \/ PushRefused(t, id)
  BY <1>1, BeginKeeps, ReadPendingKeeps, TakeAckKeeps, PushAcceptedKeeps, PushRefusedKeeps
<1>2. CASE \/ StartPull(t) \/ Poll(t) \/ CheckBlockers(t) \/ Repoll(t) \/ Reset(t)
           \/ \E skew \in 1..Skew : FetchHorizon(t, skew)
  BY <1>2, StartPullKeeps, PollKeeps, CheckBlockersKeeps, RepollKeeps, ResetKeeps,
     FetchHorizonKeeps
<1>3. CASE Insert(t) \/ Materialize(t) \/ AdvancePull(t) \/ FinishPull(t)
  BY <1>3, InsertKeeps, MaterializeKeeps, AdvancePullKeeps, FinishPullKeeps
<1>4. CASE TurnFails(t)
  BY <1>4, PushTimesOutKeeps, ReapplyKeeps, AbortKeeps DEF TurnFails
<1> QED BY <1>1, <1>2, <1>3, <1>4 DEF TurnRuns

LEMMA StepKeeps ==
    ASSUME IInv, [Next]_vars
    PROVE  IInv'
<1>1. CASE \E n \in Nodes, i \in Issues, kind \in Edits, skew \in 1..Skew : Edit(n, i, kind, skew)
  BY <1>1, EditKeeps
<1>2. CASE \E t \in Turns : TurnRuns(t) \/ TurnFails(t)
  BY <1>2, TurnKeeps
<1>3. CASE \E s \in Spokes : Skip(s) \/ Retry(s)
  BY <1>3, SkipKeeps, RetryKeeps
<1>4. CASE HubRuns
  BY <1>4, RefreshKeeps, RefreshFailsKeeps, PurgeKeeps, LateArrivalKeeps DEF HubRuns
<1>5. CASE UNCHANGED vars
  BY <1>5, StutterKeeps
<1> QED BY <1>1, <1>2, <1>3, <1>4, <1>5 DEF Next

\* The conjunction of everything the proofs below rest on holds in every state of
\* pushes, pulls, resets, purges, edits and operator's skips, in any order.
THEOREM Invariance == Spec => []IInv
  BY StartsWell, StepKeeps, PTL DEF Spec

\* Logs, rows, cursors, quarantines and the data a sync turn carries have their types.
THEOREM TypeCorrect == Spec => []TypeOK
<1>1. IInv => TypeOK
  BY DEF IInv
<1> QED BY <1>1, Invariance, PTL

\* No edit of a spoke's user is lost between federation_push_cursor and the hub's log:
\* it is on the hub, was purged there or skipped by an operator, or the next push of
\* its spoke still reads it, although turns overlap, die, time out and reset the log.
THEOREM NothingLost == Spec => []EditsNeverLost
<1>1. ASSUME IInv PROVE EditsNeverLost
  <2> SUFFICES ASSUME NEW u \in DOMAIN born, born[u].origin \in Spokes, u \notin Safe
               PROVE  \E e \in Pending(born[u].origin, binding[born[u].origin].push) : e.uid = u
    BY DEF EditsNeverLost, Safe
  <2> DEFINE s == born[u].origin
  <2>1. PICK e \in log[s] : e.uid = u
    BY <1>1 DEF IInv, KeptOK, Uids
  <2>2. e.id \in Nat /\ binding[s].push \in Nat
    BY <1>1, <2>1, HubApart DEF IInv, TypeOK, Entry
  <2>3. e.id > binding[s].push
    BY <1>1, <2>1, <2>2 DEF IInv, PassedOK
  <2>4. [id |-> e.id, uid |-> e.uid] \in Pending(s, binding[s].push)
    BY <2>1, <2>3 DEF Pending
  <2> QED BY <2>1, <2>4
<1> QED BY <1>1, Invariance, PTL

---------------------------------------------------------------------------
(* Pulls, for spokes of which one turn at a time pulls.  (With two, one of *)
(* them may pass what the other has stored and not applied: see README.)   *)
(*                                                                         *)
(* The three properties of a pull are not inductive.  A turn applies in    *)
(* three transactions a page it read long ago, dies in between, and the    *)
(* next turn must find the same events again: so what is needed is that a  *)
(* page has no holes (WholePage), that an event stored above the cursor    *)
(* lies on the next page (Early) and that the turn which meets it knows of *)
(* the unfinished attempt (Coming), and that a baseline is above all that  *)
(* it replaces (Dominated).                                                *)

\* Of the turns of a spoke one pulls; any number of others push.
OnePuller == \A t, u \in Turns :
    At[t] = At[u] /\ Mode[t] # "push" /\ Mode[u] # "push" => t = u

\* An event has one entry in a log, a page, a batch.
Unique(S) == \A d, e \in S : d.uid = e.uid => d.id = e.id
UniqueOK == /\ \A n \in Nodes : Unique(log[n])
            /\ \A t \in Turns : Unique(turn[t].todo) /\ Unique(turn[t].page)
            /\ \A r \in late : Unique(r.entries)

\* Every event of an issue sets a title, the enabling event is of no issue.
TitlesOK == \A u \in DOMAIN born :
    /\ born[u].kind = "enabled" => born[u].issue = 0
    /\ born[u].issue # 0 => born[u].title > 0

\* What the log of an instance shows of an issue.
Shown(n, i) == Fold(Uids(n), i)
HubRows == \A i \in Issues : row[Hub][i] = Shown(Hub, i)

\* What the hub's log holds of an issue below a baseline comes before something above it.
Dominated(c) ==
    \A h \in log[Hub] : h.id < c /\ born[h.uid].issue \in Issues =>
        \E g \in log[Hub] : /\ g.id >= c /\ born[g.uid].issue = born[h.uid].issue
                            /\ Before(h.uid, g.uid)

HubOK == /\ hub.reset <= last[Hub] /\ hub.horizon <= last[Hub] + 1
         /\ Dominated(hub.horizon) /\ HubRows /\ purged \subseteq DOMAIN born

\* An event that comes again for a cursor c, on a page or by starting over.
AwaitedFrom(c, u) ==
    IF u \in Uids(Hub) THEN \E h \in log[Hub] : h.uid = u /\ h.id > c ELSE hub.reset > c

\* An event of the next page.
Early(s, h) ==
    Nth(h.id, {g.id : g \in {f \in log[Hub] : f.id > binding[s].pull}}) <= PollLimit

\* Others' events that the spoke holds although its cursor has not passed them.
Coming(s) ==
    {h \in log[Hub] : /\ h.id > binding[s].pull
                      /\ \E e \in log[s] : e.pulled /\ born[e.uid].origin # s /\ e.uid = h.uid}

\* A purge has moved the reset cursor past the spoke's.
Behind(s) == ResetRequired(binding[s].pull)

\* A spoke holds what the hub holds, unless it is to start over, or it is to push it.
Kept(s) == \A e \in log[s] :
    /\ ~e.pulled => born[e.uid].origin = s
    /\ e.uid \in Uids(Hub) \/ Behind(s) \/ (~e.pulled /\ e.uid \notin purged)

\* What the cursor has passed since the horizon is stored.
Stored(s) == \A h \in log[Hub] :
    h.id >= binding[s].horizon /\ h.id <= binding[s].pull => h.uid \in Uids(s)

\* A row follows the log or a pulled event of the issue comes again for a cursor c.
RowsFrom(s, c, i) ==
    \/ row[s][i] = Shown(s, i)
    \/ \E e \in log[s] : e.pulled /\ born[e.uid].issue = i /\ AwaitedFrom(c, e.uid)

SpokeOK(s) ==
    /\ binding[s].pull <= last[Hub] /\ binding[s].horizon <= binding[s].pull + 1
    /\ Dominated(binding[s].horizon)
    /\ Kept(s) /\ Stored(s)
    /\ \A i \in Issues : RowsFrom(s, binding[s].pull, i)
    /\ Behind(s) \/ \A h \in Coming(s) : unfinished[s] /\ Early(s, h)

Applying == {"insert", "materialize", "advance"}
Starting == {"poll", "blockers", "horizon", "reset", "repoll"}
Calm == {"idle", "push", "send", "acked"}

\* A page has all there is between the turn's cursor and the one behind the page, and
\* what it meets of an earlier attempt the turn knows.
WholePage(t) ==
    /\ turn[t].next <= last[Hub] /\ turn[t].pull <= turn[t].next
    /\ Behind(At[t]) => ResetRequired(turn[t].next)
    /\ \A h \in log[Hub] : h.id > turn[t].pull /\ h.id <= turn[t].next =>
          /\ [id |-> h.id, uid |-> h.uid] \in turn[t].page
          /\ Behind(At[t]) \/ Early(At[t], h)
    /\ \A p \in turn[t].page :
          /\ p.id > turn[t].pull /\ p.id <= turn[t].next
          /\ p.uid \notin Uids(Hub) => ResetRequired(turn[t].next)
          /\ \A h \in log[Hub] : h.uid = p.uid =>
                h.id = p.id \/ (h.id > turn[t].next /\ ResetRequired(turn[t].next))
    /\ \A h \in Coming(At[t]) :
          IF h.id <= turn[t].next THEN turn[t].resume \/ h.uid \in turn[t].mine
                                  ELSE Behind(At[t])

\* Where a turn is and what it has read fit the spoke's cursor, log and rows.
PullOK(t) ==
    /\ Mode[t] = "push" => turn[t].pc \in Calm
    /\ Mode[t] # "push" /\ turn[t].pc \notin {"idle", "finish"} => turn[t].pull = binding[At[t]].pull
    /\ turn[t].pc \in Starting \cup Applying \cup {"finish"} => unfinished[At[t]]
    /\ turn[t].pc = "reset" => turn[t].next <= last[Hub] /\ Dominated(turn[t].next + 1)
    /\ turn[t].pc \in Starting => Behind(At[t]) \/ Coming(At[t]) = {} \/ turn[t].resume
    /\ turn[t].pc = "finish" => Behind(At[t]) \/ Coming(At[t]) = {}
    /\ turn[t].pc \in Applying => WholePage(t)
    /\ turn[t].pc \in {"materialize", "advance"} =>
          /\ \A p \in turn[t].page : p.uid \in Uids(At[t])
          /\ \A i \in Issues : \/ turn[t].pc = "materialize" /\ i \in turn[t].scope
                               \/ RowsFrom(At[t], turn[t].next, i)

PInv == /\ TitlesOK /\ UniqueOK /\ HubOK
        /\ \A s \in Spokes : SpokeOK(s)
        /\ \A t \in Turns : PullOK(t)

---------------------------------------------------------------------------
(* What a log shows of an issue: the title of its top event.               *)

Top(n, i, m) ==
    /\ m \in Uids(n) /\ born[m].issue = i
    /\ \A v \in Uids(n) : born[v].issue = i => v = m \/ Before(v, m)

ShownFacts ==
    \A n \in Nodes, i \in Issues :
        /\ (\A u \in Uids(n) : born[u].issue # i) => Shown(n, i) = NoRow
        /\ \A m \in Uids(n) : Top(n, i, m) => Shown(n, i) = born[m].title
        /\ (\E u \in Uids(n) : born[u].issue = i) => \E m \in Uids(n) : Top(n, i, m)

\* The latest of some events is the only one that all others come before.
LEMMA LatestOnly ==
    ASSUME TypeOK, NEW S, S \subseteq DOMAIN born, NEW m \in S,
           \A v \in S : v = m \/ Before(v, m)
    PROVE  Latest(S) = m
<1>1. S # {} /\ Latest(S) \in S /\ \A v \in S : v = Latest(S) \/ Before(v, Latest(S))
  BY LatestIs
<1>2. SUFFICES ASSUME Latest(S) # m PROVE FALSE
  OBVIOUS
<1>3. Before(m, Latest(S)) /\ Before(Latest(S), m)
  BY <1>1, <1>2
<1>4. m \in DOMAIN born /\ Latest(S) \in DOMAIN born
  BY <1>1
<1>5. /\ born[m].clock \in Nat /\ born[Latest(S)].clock \in Nat
      /\ Rank[born[m].origin] \in Nat /\ Rank[born[Latest(S)].origin] \in Nat
  BY <1>4, BornIs
<1>6. m \in Nat /\ Latest(S) \in Nat
  BY <1>4 DEF TypeOK
<1> QED BY <1>3, <1>5, <1>6 DEF Before

LEMMA FoldTop ==
    ASSUME TypeOK, NEW S, S \subseteq DOMAIN born, NEW i, NEW m \in S, born[m].issue = i,
           \A v \in S : born[v].issue = i => v = m \/ Before(v, m)
    PROVE  Fold(S, i) = born[m].title
<1> DEFINE titles == {u \in S : born[u].issue = i}
<1>1. titles \subseteq DOMAIN born /\ m \in titles /\ \A v \in titles : v = m \/ Before(v, m)
  OBVIOUS
<1>2. Latest(titles) = m
  <2> HIDE DEF titles
  <2> QED BY <1>1, LatestOnly
<1> QED BY <1>1, <1>2 DEF Fold

LEMMA ShownIs == TypeOK /\ LogsOK => ShownFacts
<1> SUFFICES ASSUME TypeOK, LogsOK, NEW n \in Nodes, NEW i \in Issues
             PROVE  /\ (\A u \in Uids(n) : born[u].issue # i) => Shown(n, i) = NoRow
                    /\ \A m \in Uids(n) : Top(n, i, m) => Shown(n, i) = born[m].title
                    /\ (\E u \in Uids(n) : born[u].issue = i)
                         => \E m \in Uids(n) : Top(n, i, m)
  BY DEF ShownFacts
<1>1. Uids(n) \subseteq DOMAIN born
  BY UidsIn
<1>2. (\A u \in Uids(n) : born[u].issue # i) => Shown(n, i) = NoRow
  BY DEF Shown, Fold
<1>3. ASSUME NEW m \in Uids(n), Top(n, i, m) PROVE Shown(n, i) = born[m].title
  BY <1>1, <1>3, FoldTop DEF Top, Shown
<1>4. ASSUME NEW u \in Uids(n), born[u].issue = i PROVE \E m \in Uids(n) : Top(n, i, m)
  <2> DEFINE titles == {v \in Uids(n) : born[v].issue = i}
  <2>1. titles \subseteq DOMAIN born /\ titles # {}
    BY <1>1, <1>4
  <2>2. Latest(titles) \in titles /\ \A v \in titles : v = Latest(titles) \/ Before(v, Latest(titles))
    <3> HIDE DEF titles
    <3> QED BY <2>1, LatestIs
  <2> QED BY <2>2 DEF Top
<1> QED BY <1>2, <1>3, <1>4

LEMMA ShownNext == (TypeOK /\ LogsOK => ShownFacts)'
BY ShownIs, PTL

\* Events and ids stay given out.
Lasting ==
    /\ \A u \in DOMAIN born : u \in DOMAIN born' /\ born'[u] = born[u]
    /\ \A n \in Nodes : last[n] <= last'[n]

BornFacts ==
    \A u \in DOMAIN born : /\ born[u].origin \in Nodes /\ born[u].clock \in Nat
                           /\ Rank[born[u].origin] \in Nat

LEMMA BornAll == TypeOK => BornFacts
BY BornIs DEF BornFacts

LEMMA BornNext == (TypeOK => BornFacts)'
BY BornAll, PTL

\* Events that are there before and after are ordered alike.
LEMMA OrderStays ==
    ASSUME NEW u, NEW v, born'[u] = born[u], born'[v] = born[v]
    PROVE  Before(u, v)' <=> Before(u, v)
BY DEF Before

\* A log shows the same of an issue as long as it has the same events of it.
LEMMA ShownStays ==
    ASSUME IInv, IInv', Lasting, NEW n \in Nodes, NEW i \in Issues,
           \A u : u \in Uids(n)' /\ born'[u].issue = i <=> u \in Uids(n) /\ born[u].issue = i
    PROVE  Shown(n, i)' = Shown(n, i)
<1>1. ShownFacts /\ ShownFacts'
  BY ShownIs, ShownNext DEF IInv
<1>2. \A u \in Uids(n) : born'[u] = born[u]
  BY UidsIn DEF IInv, Lasting
<1>3. CASE \E u \in Uids(n) : born[u].issue = i
  <2>1. PICK m \in Uids(n) : Top(n, i, m)
    BY <1>1, <1>3 DEF ShownFacts
  <2>2. m \in Uids(n)' /\ born'[m].issue = i
    BY <2>1 DEF Top
  <2>3. ASSUME NEW v \in Uids(n)', born'[v].issue = i PROVE v = m \/ Before(v, m)'
    <3>1. v \in Uids(n) /\ born[v].issue = i
      BY <2>3
    <3>2. v = m \/ Before(v, m)
      BY <2>1, <3>1 DEF Top
    <3> QED BY <1>2, <2>1, <3>1, <3>2, OrderStays
  <2>4. Top(n, i, m)'
    BY <2>2, <2>3 DEF Top
  <2> QED BY <1>1, <1>2, <2>1, <2>2, <2>4 DEF ShownFacts
<1>4. CASE \A u \in Uids(n) : born[u].issue # i
  <2>1. \A u \in Uids(n)' : born'[u].issue # i
    BY <1>4
  <2> QED BY <1>1, <1>4, <2>1 DEF ShownFacts
<1> QED BY <1>3, <1>4

\* A new event above every clock of a log is what it shows.
LEMMA ShownAbove ==
    ASSUME IInv, IInv', Lasting, NEW n \in Nodes, NEW i \in Issues,
           NEW m \in Uids(n)', m \notin DOMAIN born, born'[m].issue = i,
           born'[m].clock > TopClock(n),
           \A u \in Uids(n)' : u \in Uids(n) \/ u = m \/ born'[u].issue # i
    PROVE  Shown(n, i)' = born'[m].title
<1>1. ShownFacts'
  BY ShownNext DEF IInv
<1>2. TopClock(n) \in Nat /\ \A u \in Uids(n) : born[u].clock <= TopClock(n)
  BY TopClockIs DEF IInv
<1>3. \A u \in Uids(n) : u \in DOMAIN born /\ born'[u] = born[u]
  BY UidsIn DEF IInv, Lasting
<1>4. ASSUME NEW v \in Uids(n)', born'[v].issue = i PROVE v = m \/ Before(v, m)'
  <2>1. CASE v = m
    BY <2>1
  <2>2. CASE v \in Uids(n)
    <3>1. born'[v].clock <= TopClock(n) /\ born[v].clock \in Nat
      BY <1>2, <1>3, <2>2, BornIs DEF IInv
    <3>2. m \in DOMAIN born'
      BY DEF IInv, LogsOK, Uids
    <3>3. born'[m].clock \in Nat
      BY <3>2, BornNext DEF IInv, BornFacts
    <3>4. born'[v].clock < born'[m].clock
      BY <1>2, <1>3, <2>2, <3>1, <3>3
    <3> QED BY <3>4 DEF Before
  <2> QED BY <1>4, <2>1, <2>2
<1>5. Top(n, i, m)'
  BY <1>4 DEF Top
<1> QED BY <1>1, <1>5 DEF ShownFacts

---------------------------------------------------------------------------
(* Steps of the hub, and what they leave as it is for a spoke.             *)

\* The log grows above the last id, or a purge takes issues as a whole and
\* moves the reset cursor above the last id.
HubMoves ==
    /\ hub.reset <= hub'.reset
    /\ \A h \in log'[Hub] : h \in log[Hub] \/ (h.id > last[Hub] /\ h.uid \notin Uids(Hub))
    /\ \A h \in log[Hub], g \in log'[Hub] :
          g \in log[Hub] /\ born[g.uid].issue = born[h.uid].issue => h \in log'[Hub]
    /\ \/ log[Hub] \subseteq log'[Hub] /\ purged' = purged /\ hub'.reset = hub.reset
       \/ /\ log'[Hub] \subseteq log[Hub] /\ hub'.reset > last[Hub]
          /\ purged' \subseteq purged \cup Uids(Hub)

LEMMA HubTypes ==
    ASSUME IInv
    PROVE  /\ Hub \in Nodes /\ last[Hub] \in Nat /\ hub.reset \in Nat /\ hub.horizon \in Nat
           /\ \A h \in log[Hub] : /\ h.id \in Nat /\ h.id <= last[Hub] /\ h.uid \in DOMAIN born
                                  /\ h.uid \in Uids(Hub)
           /\ \A u \in Uids(Hub) : \E h \in log[Hub] : h.uid = u
<1>1. Hub \in Nodes
  BY HubApart
<1>2. last[Hub] \in Nat /\ hub.reset \in Nat /\ hub.horizon \in Nat
  BY <1>1 DEF IInv, TypeOK
<1>3. \A h \in log[Hub] : h.id \in 1..last[Hub] /\ h.uid \in DOMAIN born
  BY <1>1 DEF IInv, LogsOK
<1> QED BY <1>1, <1>2, <1>3 DEF Uids

LEMMA HubTypesNext ==
    ASSUME IInv'
    PROVE  /\ last'[Hub] \in Nat /\ hub'.reset \in Nat /\ hub'.horizon \in Nat
           /\ \A h \in log'[Hub] : /\ h.id \in Nat /\ h.id <= last'[Hub]
                                   /\ h.uid \in DOMAIN born' /\ h.uid \in Uids(Hub)'
<1>1. Hub \in Nodes
  BY HubApart
<1>2. last'[Hub] \in Nat /\ hub'.reset \in Nat /\ hub'.horizon \in Nat
  BY <1>1 DEF IInv, TypeOK
<1>3. \A h \in log'[Hub] : h.id \in 1..last'[Hub] /\ h.uid \in DOMAIN born'
  BY <1>1 DEF IInv, LogsOK
<1> QED BY <1>1, <1>2, <1>3 DEF Uids

LEMMA SpokeTypes ==
    ASSUME IInv, NEW s \in Spokes
    PROVE  /\ s \in Nodes /\ s # Hub /\ last[s] \in Nat
           /\ binding[s].push \in Nat /\ binding[s].pull \in Nat /\ binding[s].horizon \in Nat
           /\ unfinished[s] \in BOOLEAN
           /\ \A e \in log[s] : /\ e \in Entry /\ e.id \in Nat /\ e.uid \in DOMAIN born
                                /\ e.pulled \in BOOLEAN
<1>1. s \in Nodes /\ s # Hub
  BY HubApart
<1>2. last[s] \in Nat /\ unfinished[s] \in BOOLEAN
      /\ binding[s] \in [push : Nat, pull : Nat, horizon : Nat] /\ log[s] \in SUBSET Entry
  BY <1>1 DEF IInv, TypeOK
<1>3. \A e \in log[s] : e.uid \in DOMAIN born
  BY <1>1 DEF IInv, LogsOK
<1> QED BY <1>1, <1>2, <1>3 DEF Entry

LEMMA NoMove ==
    ASSUME IInv, log'[Hub] = log[Hub], hub'.reset = hub.reset, purged' = purged
    PROVE  HubMoves
BY HubTypes DEF HubMoves

\* A baseline that dominates what is before it goes on doing so.
LEMMA DominatedStays ==
    ASSUME IInv, IInv', Lasting, HubMoves, NEW c \in Nat, c <= last[Hub] + 1, Dominated(c)
    PROVE  Dominated(c)'
<1> SUFFICES ASSUME NEW h \in log'[Hub], h.id < c, born'[h.uid].issue \in Issues
             PROVE  \E g \in log'[Hub] : /\ g.id >= c /\ born'[g.uid].issue = born'[h.uid].issue
                                         /\ Before(h.uid, g.uid)'
  BY DEF Dominated
<1>1. h \in log[Hub]
  BY HubTypes, HubTypesNext DEF HubMoves
<1>2. \A f \in log[Hub] : f.uid \in DOMAIN born /\ born'[f.uid] = born[f.uid]
  BY HubTypes DEF Lasting
<1>3. PICK g \in log[Hub] : /\ g.id >= c /\ born[g.uid].issue = born[h.uid].issue
                            /\ Before(h.uid, g.uid)
  BY <1>1, <1>2 DEF Dominated
<1>4. g \in log'[Hub]
  BY <1>1, <1>3 DEF HubMoves
<1> QED BY <1>1, <1>2, <1>3, <1>4, OrderStays

LEMMA AwaitedStays ==
    ASSUME IInv, IInv', HubMoves, NEW c \in Nat, c <= last[Hub], NEW u, AwaitedFrom(c, u)
    PROVE  AwaitedFrom(c, u)'
<1>1. CASE u \notin Uids(Hub)'
  <2>1. hub'.reset > c
    BY <1>1, HubTypes, HubTypesNext DEF HubMoves, AwaitedFrom, Uids
  <2> QED BY <1>1, <2>1 DEF AwaitedFrom
<1>2. CASE u \in Uids(Hub)'
  <2>1. PICK g \in log'[Hub] : g.uid = u
    BY <1>2 DEF Uids
  <2>2. CASE g \in log[Hub]
    <3>1. PICK h \in log[Hub] : h.uid = u /\ h.id > c
      BY <2>1, <2>2, HubTypes DEF AwaitedFrom
    <3>2. h \in log'[Hub]
      BY <2>1, <2>2, <3>1 DEF HubMoves
    <3> QED BY <1>2, <3>1, <3>2 DEF AwaitedFrom
  <2>3. CASE g.id > last[Hub]
    <3>1. g.id > c
      BY <2>1, <2>3, HubTypes, HubTypesNext
    <3> QED BY <1>2, <2>1, <3>1 DEF AwaitedFrom
  <2> QED BY <2>1, <2>2, <2>3 DEF HubMoves
<1> QED BY <1>1, <1>2

\* A spoke that is behind a reset stays behind it, and a purge leaves every spoke behind.
LEMMA BehindStays ==
    ASSUME IInv, IInv', HubMoves, NEW s \in Spokes, binding[s].pull <= last[Hub],
           binding'[s].pull = binding[s].pull
    PROVE  /\ Behind(s) => Behind(s)'
           /\ Behind(s)' \/ (log[Hub] \subseteq log'[Hub] /\ purged' = purged)
BY HubTypes, HubTypesNext, SpokeTypes DEF HubMoves, Behind, ResetRequired

LEMMA EarlyStays ==
    ASSUME IInv, IInv', HubMoves, NEW s \in Spokes, binding[s].pull <= last[Hub],
           binding'[s].pull = binding[s].pull, NEW h \in log[Hub], Early(s, h)
    PROVE  Behind(s)' \/ Early(s, h)'
<1> SUFFICES ASSUME log[Hub] \subseteq log'[Hub] PROVE Early(s, h)'
  BY BehindStays
<1> DEFINE S == {g.id : g \in {f \in log[Hub] : f.id > binding[s].pull}}
           T == {g.id : g \in {f \in log'[Hub] : f.id > binding'[s].pull}}
<1>1. \A x : x \in S /\ x <= h.id <=> x \in T /\ x <= h.id
  <2> SUFFICES ASSUME NEW g \in log'[Hub], g.id > binding[s].pull, g.id <= h.id
               PROVE  g \in log[Hub]
    OBVIOUS
  <2>1. ~ (g.id > last[Hub])
    BY HubTypes, HubTypesNext
  <2> QED BY <2>1 DEF HubMoves
<1>2. {y \in S : y <= h.id} = {y \in T : y <= h.id}
  <2> HIDE DEF S, T
  <2> QED BY <1>1
<1>3. Nth(h.id, S) = Nth(h.id, T)
  <2> HIDE DEF S, T
  <2> QED BY <1>2 DEF Nth
<1> QED BY <1>3 DEF Early

\* What the hub writes again after a purge finds the spoke behind that purge.
LEMMA ComingStays ==
    ASSUME IInv, IInv', Lasting, HubMoves, NEW s \in Spokes, Kept(s),
           log'[s] = log[s], binding'[s].pull = binding[s].pull, NEW h \in Coming(s)'
    PROVE  h \in Coming(s) \/ (h.id > last[Hub] /\ Behind(s))
<1>1. PICK e \in log[s] : e.pulled /\ born'[e.uid].origin # s /\ e.uid = h.uid
  BY DEF Coming
<1>2. h \in log'[Hub] /\ h.id > binding[s].pull
  BY DEF Coming
<1>3. born'[e.uid] = born[e.uid]
  BY <1>1, SpokeTypes DEF Lasting
<1>4. CASE h \in log[Hub]
  BY <1>1, <1>2, <1>3, <1>4 DEF Coming
<1>5. CASE h.id > last[Hub] /\ h.uid \notin Uids(Hub)
  BY <1>1, <1>5 DEF Kept
<1> QED BY <1>2, <1>4, <1>5 DEF HubMoves

SpokeStill(s) ==
    /\ log'[s] = log[s] /\ row'[s] = row[s]
    /\ binding'[s].pull = binding[s].pull /\ binding'[s].horizon = binding[s].horizon

SpokeStands(s) == SpokeStill(s) /\ (unfinished[s] => unfinished'[s])

\* Rows go on following the log when it gets events of other issues.
LEMMA RowsStay ==
    ASSUME IInv, IInv', Lasting, HubMoves, NEW s \in Spokes, NEW i \in Issues,
           log[s] \subseteq log'[s], row'[s][i] = row[s][i],
           \A e \in log'[s] : e \in log[s] \/ born'[e.uid].issue # i,
           NEW c \in Nat, c <= last[Hub], RowsFrom(s, c, i)
    PROVE  RowsFrom(s, c, i)'
<1>1. \A e \in log[s] : e.uid \in DOMAIN born /\ born'[e.uid] = born[e.uid]
  BY SpokeTypes DEF Lasting
<1>2. CASE row[s][i] = Shown(s, i)
  <2>1. \A u : u \in Uids(s)' /\ born'[u].issue = i <=> u \in Uids(s) /\ born[u].issue = i
    BY <1>1 DEF Uids
  <2>2. Shown(s, i)' = Shown(s, i)
    BY <2>1, ShownStays, SpokeTypes
  <2> QED BY <1>2, <2>2 DEF RowsFrom
<1>3. CASE \E e \in log[s] : e.pulled /\ born[e.uid].issue = i /\ AwaitedFrom(c, e.uid)
  <2>1. PICK e \in log[s] : e.pulled /\ born[e.uid].issue = i /\ AwaitedFrom(c, e.uid)
    BY <1>3
  <2>2. AwaitedFrom(c, e.uid)'
    BY <2>1, AwaitedStays
  <2> QED BY <1>1, <2>1, <2>2 DEF RowsFrom
<1> QED BY <1>2, <1>3 DEF RowsFrom

LEMMA SpokeStays ==
    ASSUME IInv, IInv', Lasting, HubMoves, NEW s \in Spokes, SpokeOK(s), SpokeStill(s),
           (unfinished[s] => unfinished'[s]) \/ Behind(s)' \/ Coming(s)' = {}
    PROVE  SpokeOK(s)'
<1>0. PICK pull, horizon : pull = binding[s].pull /\ horizon = binding[s].horizon
  OBVIOUS
<1>1. /\ pull \in Nat /\ horizon \in Nat /\ pull <= last[Hub] /\ horizon <= pull + 1
      /\ last[Hub] \in Nat /\ last'[Hub] \in Nat /\ last[Hub] <= last'[Hub]
  BY <1>0, SpokeTypes, HubTypes, HubTypesNext DEF SpokeOK, Lasting
<1>2. binding'[s].pull = pull /\ binding'[s].horizon = horizon /\ log'[s] = log[s]
  BY <1>0 DEF SpokeStill
<1>3. Dominated(binding[s].horizon)'
  <2>1. Dominated(horizon)'
    BY <1>0, <1>1, DominatedStays DEF SpokeOK
  <2> QED BY <1>2, <2>1 DEF Dominated
<1>4. Kept(s)'
  <2> SUFFICES ASSUME NEW e \in log[s]
               PROVE  /\ ~e.pulled => born'[e.uid].origin = s
                      /\ e.uid \in Uids(Hub)' \/ Behind(s)' \/ (~e.pulled /\ e.uid \notin purged')
    BY <1>2 DEF Kept
  <2>1. born'[e.uid] = born[e.uid]
    BY SpokeTypes DEF Lasting
  <2>2. Behind(s)' \/ (Uids(Hub) \subseteq Uids(Hub)' /\ purged' = purged)
    BY <1>0, <1>1, <1>2, BehindStays DEF Uids
  <2> QED BY <1>0, <1>1, <1>2, <2>1, <2>2, BehindStays DEF Kept, SpokeOK
<1>5. Stored(s)'
  <2> SUFFICES ASSUME NEW h \in log'[Hub], h.id >= horizon, h.id <= pull
               PROVE  h.uid \in Uids(s)
    BY <1>2 DEF Stored, Uids
  <2>1. h \in log[Hub]
    BY <1>1, HubTypesNext DEF HubMoves
  <2> QED BY <1>0, <2>1 DEF SpokeOK, Stored
<1>6. ASSUME NEW i \in Issues PROVE RowsFrom(s, binding[s].pull, i)'
  <2>1. RowsFrom(s, pull, i)'
    BY <1>0, <1>1, RowsStay DEF SpokeOK, SpokeStill
  <2> QED BY <1>2, <2>1 DEF RowsFrom, AwaitedFrom
<1>7. ASSUME ~Behind(s)', NEW h \in Coming(s)' PROVE unfinished'[s] /\ Early(s, h)'
  <2>1. ~Behind(s)
    BY <1>0, <1>1, <1>2, <1>7, BehindStays
  <2>2. h \in Coming(s)
    BY <1>0, <1>2, <1>7, <2>1, ComingStays DEF SpokeOK, SpokeStill
  <2>3. h \in log[Hub]
    BY <2>2 DEF Coming
  <2> QED BY <1>0, <1>1, <1>2, <1>7, <2>1, <2>2, <2>3, EarlyStays DEF SpokeOK, SpokeStill
<1> QED BY <1>0, <1>1, <1>2, <1>3, <1>4, <1>5, <1>6, <1>7 DEF SpokeOK

LEMMA TurnTypes ==
    ASSUME IInv, NEW t \in Turns
    PROVE  /\ At[t] \in Spokes /\ turn[t] \in Turn
           /\ turn[t].pull \in Nat /\ turn[t].next \in Nat /\ turn[t].resume \in BOOLEAN
           /\ turn[t].page \in SUBSET Sent
           /\ \A p \in turn[t].page : /\ p.id \in Nat /\ p.uid \in DOMAIN born
                                      /\ p = [id |-> p.id, uid |-> p.uid]
<1>1. At[t] \in Spokes /\ turn[t] \in Turn /\ PageOK(t)
  BY TurnHere DEF IInv
<1>2. /\ turn[t].pull \in Nat /\ turn[t].next \in Nat /\ turn[t].resume \in BOOLEAN
      /\ turn[t].page \in SUBSET Sent
  BY <1>1 DEF Turn
<1>3. \A p \in turn[t].page : p.id \in Nat /\ p = [id |-> p.id, uid |-> p.uid]
  BY <1>2 DEF Sent
<1> QED BY <1>1, <1>2, <1>3 DEF PageOK

LEMMA PageStays ==
    ASSUME IInv, IInv', Lasting, HubMoves, NEW t \in Turns, SpokeOK(At[t]), SpokeStands(At[t]),
           WholePage(t), turn[t].pull = binding[At[t]].pull, turn'[t] = turn[t]
    PROVE  WholePage(t)'
<1>0. PICK s, pull, next, page : /\ s = At[t] /\ pull = binding[s].pull
                                 /\ next = turn[t].next /\ page = turn[t].page
  OBVIOUS
<1>1. /\ s \in Spokes /\ pull \in Nat /\ next \in Nat /\ pull <= next /\ next <= last[Hub]
      /\ last[Hub] \in Nat /\ last'[Hub] \in Nat /\ last[Hub] <= last'[Hub]
      /\ hub.reset \in Nat /\ hub'.reset \in Nat
  BY <1>0, SpokeTypes, TurnTypes, HubTypes, HubTypesNext DEF WholePage, Lasting
<1>2. /\ turn'[t].next = next /\ turn'[t].page = page /\ turn[t].pull = pull
      /\ turn'[t].pull = pull /\ binding'[s].pull = pull /\ log'[s] = log[s]
      /\ turn'[t].resume = turn[t].resume /\ turn'[t].mine = turn[t].mine
  BY <1>0 DEF SpokeStands, SpokeStill
<1>3. ASSUME Behind(s)' PROVE hub'.reset > next
  BY <1>0, <1>1, <1>2, <1>3 DEF HubMoves, WholePage, Behind, ResetRequired
<1>4. ASSUME NEW h \in log'[Hub], h.id > pull, h.id <= next
      PROVE  [id |-> h.id, uid |-> h.uid] \in page /\ (Behind(s)' \/ Early(s, h)')
  <2>1. h \in log[Hub]
    BY <1>1, <1>4, HubTypesNext DEF HubMoves
  <2>2. [id |-> h.id, uid |-> h.uid] \in page /\ (Behind(s) \/ Early(s, h))
    BY <1>0, <1>2, <1>4, <2>1 DEF WholePage
  <2>3. Behind(s) => Behind(s)'
    BY <1>0, <1>1, <1>2, BehindStays
  <2>4. Early(s, h) => Behind(s)' \/ Early(s, h)'
    BY <1>0, <1>1, <1>2, <2>1, EarlyStays DEF SpokeOK
  <2> QED BY <2>2, <2>3, <2>4
<1>5. ASSUME NEW p \in page, p.uid \notin Uids(Hub)' PROVE hub'.reset > next
  <2>1. CASE p.uid \notin Uids(Hub)
    BY <1>0, <1>1, <2>1 DEF WholePage, ResetRequired, HubMoves
  <2>2. CASE p.uid \in Uids(Hub)
    BY <1>1, <1>5, <2>2 DEF HubMoves, Uids
  <2> QED BY <2>1, <2>2
<1>6. ASSUME NEW p \in page, NEW h \in log'[Hub], h.uid = p.uid
      PROVE  h.id = p.id \/ (h.id > next /\ hub'.reset > next)
  <2>1. CASE h \in log[Hub]
    BY <1>0, <1>1, <1>6, <2>1 DEF WholePage, ResetRequired, HubMoves
  <2>2. CASE h.id > last[Hub] /\ h.uid \notin Uids(Hub)
    <3>1. hub.reset > next
      BY <1>0, <1>6, <2>2 DEF WholePage, ResetRequired
    <3>2. h.id \in Nat
      BY HubTypesNext
    <3> QED BY <1>1, <2>2, <3>1, <3>2 DEF HubMoves
  <2> QED BY <2>1, <2>2 DEF HubMoves
<1>7. ASSUME NEW h \in Coming(s)'
      PROVE  IF h.id <= next THEN turn[t].resume \/ h.uid \in turn[t].mine ELSE Behind(s)'
  <2>1. h.id \in Nat
    BY HubTypesNext DEF Coming
  <2>2. h \in Coming(s) \/ (h.id > last[Hub] /\ Behind(s))
    BY <1>0, <1>1, <1>2, ComingStays DEF SpokeOK
  <2>3. Behind(s) => Behind(s)'
    BY <1>0, <1>1, <1>2, BehindStays
  <2>4. h \in Coming(s) =>
           IF h.id <= next THEN turn[t].resume \/ h.uid \in turn[t].mine ELSE Behind(s)
    BY <1>0 DEF WholePage
  <2> QED BY <1>1, <2>1, <2>2, <2>3, <2>4
<1>8. \A p \in page : p.id > pull /\ p.id <= next
  BY <1>0, <1>2 DEF WholePage
<1> QED BY <1>0, <1>1, <1>2, <1>3, <1>4, <1>5, <1>6, <1>7, <1>8 DEF WholePage, ResetRequired

LEMMA PullStays ==
    ASSUME IInv, IInv', Lasting, HubMoves, NEW t \in Turns, SpokeOK(At[t]), SpokeStands(At[t]),
           PullOK(t), turn'[t] = turn[t]
    PROVE  PullOK(t)'
<1>0. PICK s, r : s = At[t] /\ r = turn[t]
  OBVIOUS
<1>1. /\ s \in Spokes /\ binding'[s].pull = binding[s].pull /\ binding[s].pull \in Nat
      /\ r.next \in Nat /\ r.pull \in Nat /\ unfinished[s] \in BOOLEAN
      /\ last[Hub] \in Nat /\ last'[Hub] \in Nat /\ last[Hub] <= last'[Hub]
  BY <1>0, SpokeTypes, TurnTypes, HubTypes, HubTypesNext DEF SpokeStands, SpokeStill, Lasting
<1>2. turn'[t] = r /\ log'[s] = log[s] /\ row'[s] = row[s] /\ (unfinished[s] => unfinished'[s])
  BY <1>0 DEF SpokeStands, SpokeStill
<1>3. ASSUME r.pc = "reset" PROVE r.next <= last'[Hub] /\ Dominated(r.next + 1)'
  <2>1. r.next <= last[Hub] /\ Dominated(r.next + 1)
    BY <1>0, <1>3 DEF PullOK
  <2>2. PICK c \in Nat : c = r.next + 1
    BY <1>1
  <2>3. Dominated(c)'
    BY <1>1, <2>1, <2>2, DominatedStays
  <2> QED BY <1>1, <2>1, <2>2, <2>3
<1>4. ASSUME ~Behind(s)' PROVE ~Behind(s) /\ Coming(s)' \subseteq Coming(s)
  <2>1. ~Behind(s)
    BY <1>0, <1>1, <1>4, BehindStays DEF SpokeOK
  <2> QED BY <1>0, <1>1, <1>2, <2>1, ComingStays DEF SpokeOK
<1>5. r.pc \in Applying => WholePage(t)'
  <2>1. r.pc \in Applying => r.pull = binding[s].pull /\ WholePage(t)
    BY <1>0 DEF PullOK, Applying, Calm
  <2> QED BY <1>0, <2>1, PageStays
<1>6. ASSUME r.pc \in {"materialize", "advance"}
      PROVE  /\ \A p \in r.page : p.uid \in Uids(s)'
             /\ \A i \in Issues : (r.pc = "materialize" /\ i \in r.scope) \/ RowsFrom(s, r.next, i)'
  <2>1. Uids(s)' = Uids(s)
    BY <1>2 DEF Uids
  <2>2. r.next <= last[Hub]
    BY <1>0, <1>6 DEF PullOK, WholePage, Applying
  <2>3. \A i \in Issues : RowsFrom(s, r.next, i) => RowsFrom(s, r.next, i)'
    BY <1>0, <1>1, <1>2, <2>2, RowsStay
  <2> QED BY <1>0, <1>6, <2>1, <2>3 DEF PullOK
<1> QED BY <1>0, <1>1, <1>2, <1>3, <1>4, <1>5, <1>6 DEF PullOK

---------------------------------------------------------------------------
(* What is left to show of a step.                                         *)

LEMMA CalmOK ==
    ASSUME NEW t \in Turns, turn'[t].pc \in Calm \cup {"pull"},
           Mode[t] = "push" => turn'[t].pc \in Calm,
           turn'[t].pc = "idle" \/ turn'[t].pull = binding'[At[t]].pull
    PROVE  PullOK(t)'
BY DEF PullOK, Calm, Starting, Applying

\* One turn of a spoke pulls: the others only push.
LEMMA PushersOK ==
    ASSUME OnePuller, NEW t \in Turns, Mode[t] # "push",
           NEW o \in Turns \ {t}, At[o] = At[t], PullOK(o), turn'[o] = turn[o]
    PROVE  PullOK(o)'
<1>1. Mode[o] = "push"
  BY DEF OnePuller
<1>2. turn'[o].pc \in Calm
  BY <1>1 DEF PullOK
<1> QED BY <1>1, <1>2 DEF PullOK, Calm, Starting, Applying

LEMMA TitlesStay ==
    ASSUME TitlesOK, born' = born
    PROVE  TitlesOK'
BY DEF TitlesOK

LEMMA HubStays ==
    ASSUME IInv, IInv', Lasting, HubOK, log'[Hub] = log[Hub], last'[Hub] = last[Hub],
           row'[Hub] = row[Hub], hub'.reset = hub.reset, hub'.horizon = hub.horizon,
           purged' = purged
    PROVE  HubOK'
<1>1. PICK c \in Nat : c = hub.horizon
  BY HubTypes
<1>2. Dominated(c)'
  BY <1>1, HubTypes, NoMove, DominatedStays DEF HubOK
<1>3. Dominated(hub.horizon)'
  BY <1>1, <1>2 DEF Dominated
<1>4. ASSUME NEW i \in Issues PROVE row'[Hub][i] = Shown(Hub, i)'
  <2>1. Uids(Hub)' = Uids(Hub) /\ \A u \in Uids(Hub) : born'[u] = born[u]
    BY HubTypes DEF Uids, Lasting
  <2>2. Shown(Hub, i)' = Shown(Hub, i)
    BY <2>1, HubTypes, ShownStays
  <2> QED BY <2>2 DEF HubOK, HubRows
<1>5. HubRows'
  BY <1>4 DEF HubRows
<1>6. purged' \subseteq DOMAIN born'
  BY DEF HubOK, Lasting
<1> QED BY <1>3, <1>5, <1>6 DEF HubOK

\* A step that no spoke's pull notices.
LEMMA FrameStep ==
    ASSUME IInv, IInv', Lasting, HubMoves, PInv, TitlesOK', UniqueOK', HubOK',
           \A s \in Spokes : SpokeStands(s),
           \A t \in Turns : turn'[t] = turn[t] \/ PullOK(t)'
    PROVE  PInv'
<1>1. \A s \in Spokes : SpokeOK(s)'
  BY SpokeStays DEF PInv, SpokeStands
<1>2. ASSUME NEW t \in Turns PROVE PullOK(t)'
  <2>1. At[t] \in Spokes
    BY TurnTypes
  <2> QED BY <2>1, PullStays DEF PInv
<1> QED BY <1>1, <1>2 DEF PInv

LEMMA NothingNew ==
    ASSUME IInv, UNCHANGED <<born, last>>
    PROVE  Lasting
BY DEF IInv, TypeOK, Lasting

LEMMA QuietStep ==
    ASSUME IInv, IInv', PInv, UNCHANGED <<born, log, last, row, purged>>,
           hub'.reset = hub.reset, hub'.horizon = hub.horizon,
           \A s \in Spokes : /\ binding'[s].pull = binding[s].pull
                             /\ binding'[s].horizon = binding[s].horizon
                             /\ unfinished[s] => unfinished'[s],
           \A t \in Turns : turn'[t] = turn[t] \/ (/\ PullOK(t)'
               /\ Unique(turn'[t].todo) /\ Unique(turn'[t].page)),
           \A r \in late' : Unique(r.entries)
    PROVE  PInv'
<1>1. Lasting /\ HubMoves
  BY NothingNew, NoMove
<1>2. UniqueOK'
  BY DEF PInv, UniqueOK
<1>3. TitlesOK' /\ HubOK'
  BY <1>1, TitlesStay, HubStays DEF PInv
<1>4. \A s \in Spokes : SpokeStands(s)
  BY DEF SpokeStands, SpokeStill
<1> QED BY <1>1, <1>2, <1>3, <1>4, FrameStep

\* A step of a spoke's pull.
LEMMA OwnStep ==
    ASSUME IInv, IInv', OnePuller, PInv, NEW t \in Turns, Mode[t] # "push",
           UNCHANGED <<born, hub, purged, late>>, Lasting,
           log'[Hub] = log[Hub], last'[Hub] = last[Hub], row'[Hub] = row[Hub],
           Unique(log'[At[t]]),
           \A x \in Spokes \ {At[t]} : SpokeStands(x),
           \A o \in Turns \ {t} : turn'[o] = turn[o],
           turn'[t].todo = turn[t].todo \/ turn'[t].todo = {},
           turn'[t].page = turn[t].page \/ turn'[t].page = {},
           SpokeOK(At[t])', PullOK(t)'
    PROVE  PInv'
<1>1. HubMoves
  BY NoMove
<1>2. TitlesOK' /\ HubOK'
  BY TitlesStay, HubStays DEF PInv
<1>3. ASSUME NEW x \in Spokes PROVE SpokeOK(x)'
  BY <1>1, SpokeStays DEF PInv, SpokeStands
<1>4. ASSUME NEW o \in Turns PROVE PullOK(o)'
  <2>1. CASE o = t
    BY <2>1
  <2>2. CASE o # t /\ At[o] = At[t]
    BY <2>2, PushersOK DEF PInv
  <2>3. CASE o # t /\ At[o] # At[t]
    BY <1>1, <2>3, TurnTypes, PullStays DEF PInv
  <2> QED BY <2>1, <2>2, <2>3
<1>5. UniqueOK'
  <2>1. \A n \in Nodes : Unique(log'[n])
    BY DEF PInv, UniqueOK, SpokeStands, SpokeStill, Nodes
  <2>2. \A o \in Turns : Unique(turn'[o].todo) /\ Unique(turn'[o].page)
    BY DEF PInv, UniqueOK, Unique
  <2> QED BY <2>1, <2>2 DEF PInv, UniqueOK
<1> QED BY <1>2, <1>3, <1>4, <1>5 DEF PInv

---------------------------------------------------------------------------
(* Steps that change nothing a pull depends on.                            *)

LEMMA RestsHolds ==
    ASSUME IInv, IInv', PInv, NEW t \in Turns, Rests(t),
           UNCHANGED <<born, log, last, row, hubVars>>,
           \A s \in Spokes : /\ binding'[s].pull = binding[s].pull
                             /\ binding'[s].horizon = binding[s].horizon
                             /\ unfinished'[s] = unfinished[s],
           \A r \in late' : Unique(r.entries)
    PROVE  PInv'
<1>1. turn'[t] = Resting /\ \A o \in Turns \ {t} : turn'[o] = turn[o]
  BY DEF Rests, IInv, TypeOK
<1>2. Resting.pc = "idle" /\ Resting.todo = {} /\ Resting.page = {}
  BY DEF Resting
<1>3. PullOK(t)' /\ Unique(turn'[t].todo) /\ Unique(turn'[t].page)
  BY <1>1, <1>2, CalmOK DEF Calm, Unique
<1> QED BY <1>1, <1>3, QuietStep DEF hubVars

\* One turn goes elsewhere, and everything else stands.
LEMMA MoveHolds ==
    ASSUME IInv, IInv', PInv, NEW t \in Turns, NEW r, turn' = [turn EXCEPT ![t] = r],
           UNCHANGED <<born, log, last, row, hubVars, late>>,
           \A s \in Spokes : /\ binding'[s].pull = binding[s].pull
                             /\ binding'[s].horizon = binding[s].horizon
                             /\ unfinished[s] => unfinished'[s],
           Unique(r.todo), Unique(r.page), PullOK(t)'
    PROVE  PInv'
<1>1. turn'[t] = r /\ \A o \in Turns \ {t} : turn'[o] = turn[o]
  BY DEF IInv, TypeOK
<1>2. \A q \in late' : Unique(q.entries)
  BY DEF PInv, UniqueOK
<1> QED BY <1>1, <1>2, QuietStep DEF hubVars

LEMMA BeginHolds ==
    ASSUME IInv, IInv', PInv, NEW t \in Turns, Begin(t)
    PROVE  PInv'
<1> DEFINE r == [turn[t] EXCEPT !.pc = IF Mode[t] = "pull" THEN "pull" ELSE "push",
                                !.push = binding[At[t]].push, !.pull = binding[At[t]].pull]
<1>1. turn[t] \in Turn /\ turn' = [turn EXCEPT ![t] = r]
      /\ UNCHANGED <<born, log, last, row, hubVars, spokeVars, late>>
  BY TurnTypes DEF Begin
<1>2. /\ r.pc = (IF Mode[t] = "pull" THEN "pull" ELSE "push")
      /\ r.pull = binding[At[t]].pull /\ r.todo = turn[t].todo /\ r.page = turn[t].page
  BY <1>1 DEF Turn
<1>3. turn'[t] = r
  BY <1>1 DEF IInv, TypeOK
<1> HIDE DEF r
<1>4. PullOK(t)'
  BY <1>1, <1>2, <1>3, CalmOK DEF Calm, spokeVars
<1>5. Unique(r.todo) /\ Unique(r.page)
  BY <1>2 DEF PInv, UniqueOK
<1> QED BY <1>1, <1>4, <1>5, MoveHolds DEF spokeVars

LEMMA GoesIs ==
    ASSUME IInv, NEW t \in Turns, NEW pc, Goes(t, pc)
    PROVE  \E r : /\ turn' = [turn EXCEPT ![t] = r] /\ turn'[t] = r /\ r.pc = pc
                  /\ r.pull = turn[t].pull /\ r.next = turn[t].next /\ r.todo = turn[t].todo
                  /\ r.page = turn[t].page /\ r.resume = turn[t].resume
                  /\ r.mine = turn[t].mine /\ r.scope = turn[t].scope
<1> DEFINE r == [turn[t] EXCEPT !.pc = pc]
<1>1. turn' = [turn EXCEPT ![t] = r] /\ turn[t] \in Turn
  BY TurnTypes DEF Goes
<1>2. /\ r.pc = pc /\ r.pull = turn[t].pull /\ r.next = turn[t].next /\ r.todo = turn[t].todo
      /\ r.page = turn[t].page /\ r.resume = turn[t].resume
      /\ r.mine = turn[t].mine /\ r.scope = turn[t].scope
  BY <1>1 DEF Turn
<1> HIDE DEF r
<1>3. turn'[t] = r
  BY <1>1 DEF IInv, TypeOK
<1> QED BY <1>1, <1>2, <1>3

LEMMA ReadPendingHolds ==
    ASSUME IInv, IInv', PInv, NEW t \in Turns, ReadPending(t)
    PROVE  PInv'
<1> DEFINE pending == Pending(At[t], turn[t].push)
           r == [turn[t] EXCEPT !.pc = "send", !.todo = pending]
<1>1. /\ UNCHANGED <<born, log, last, row, hubVars, late, binding, unfinished>>
      /\ turn[t] \in Turn /\ turn[t].pc = "push"
  BY TurnTypes DEF ReadPending, spokeVars
<1>2. /\ Mode[t] # "push" => turn[t].pull = binding[At[t]].pull
      /\ Unique(turn[t].todo) /\ Unique(turn[t].page) /\ \A q \in late : Unique(q.entries)
  BY <1>1 DEF PInv, PullOK, UniqueOK
<1>3. CASE Rests(t)
  BY <1>1, <1>2, <1>3, RestsHolds
<1>4. CASE Goes(t, "pull") /\ Mode[t] # "push"
  <2>1. PICK q : /\ turn' = [turn EXCEPT ![t] = q] /\ turn'[t] = q /\ q.pc = "pull"
                 /\ q.pull = turn[t].pull /\ q.todo = turn[t].todo /\ q.page = turn[t].page
    BY <1>4, GoesIs
  <2>2. PullOK(t)'
    BY <1>1, <1>2, <1>4, <2>1, CalmOK
  <2> QED BY <1>1, <1>2, <2>1, <2>2, MoveHolds
<1>5. CASE turn' = [turn EXCEPT ![t].pc = "send", ![t].todo = pending]
  <2>1. turn' = [turn EXCEPT ![t] = r]
    BY <1>5
  <2>2. r.pc = "send" /\ r.todo = pending /\ r.pull = turn[t].pull /\ r.page = turn[t].page
    BY <1>1 DEF Turn
  <2>3. turn'[t] = r
    BY <2>1 DEF IInv, TypeOK
  <2>4. Unique(pending)
    <3>1. Unique(log[At[t]])
      BY TurnTypes DEF PInv, UniqueOK, Nodes
    <3> QED BY <3>1 DEF Pending, Unique
  <2> HIDE DEF r, pending
  <2>5. PullOK(t)'
    <3>1. CASE Mode[t] # "push"
      BY <1>1, <1>2, <2>2, <2>3, <3>1, CalmOK DEF Calm
    <3>2. CASE Mode[t] = "push"
      BY <2>2, <2>3, <3>2 DEF PullOK, Calm, Starting, Applying
    <3> QED BY <3>1, <3>2
  <2> QED BY <1>1, <1>2, <2>1, <2>2, <2>4, <2>5, MoveHolds
<1> QED BY <1>3, <1>4, <1>5 DEF ReadPending

LEMMA PushRefusedHolds ==
    ASSUME IInv, IInv', PInv, NEW t \in Turns, NEW id, PushRefused(t, id)
    PROVE  PInv'
<1>1. UNCHANGED <<born, log, last, row, hubVars, binding, unfinished, late>> /\ Rests(t)
  BY DEF PushRefused
<1>2. \A q \in late : Unique(q.entries)
  BY DEF PInv, UniqueOK
<1> QED BY <1>1, <1>2, RestsHolds

LEMMA PushTimesOutHolds ==
    ASSUME IInv, IInv', PInv, NEW t \in Turns, NEW id, PushTimesOut(t, id)
    PROVE  PInv'
<1>1. /\ UNCHANGED <<born, log, last, row, hubVars, binding, unfinished>> /\ Rests(t)
      /\ late' = late \cup {[entries |-> BatchTo(t, id), no |-> faults]}
  BY DEF PushTimesOut, spokeVars
<1>2. Unique(BatchTo(t, id))
  BY DEF PInv, UniqueOK, Unique, BatchTo
<1>3. \A q \in late' : Unique(q.entries)
  BY <1>1, <1>2 DEF PInv, UniqueOK
<1> QED BY <1>1, <1>3, RestsHolds

LEMMA TakeAckHolds ==
    ASSUME IInv, IInv', PInv, NEW t \in Turns, TakeAck(t)
    PROVE  PInv'
<1> DEFINE rest == {e \in turn[t].todo : e.id > turn[t].ack}
           r == [turn[t] EXCEPT !.pc = IF rest = {} THEN "push" ELSE "send",
                                !.push = turn[t].ack, !.todo = rest, !.ack = 0]
<1>1. /\ UNCHANGED <<born, log, last, row, hubVars, unfinished, late>>
      /\ turn[t] \in Turn /\ turn[t].pc = "acked" /\ turn' = [turn EXCEPT ![t] = r]
      /\ binding' = [binding EXCEPT ![At[t]].push = Larger(@, turn[t].ack)]
  BY TurnTypes DEF TakeAck
<1>2. r.pc \in {"push", "send"} /\ r.todo = rest /\ r.pull = turn[t].pull /\ r.page = turn[t].page
  BY <1>1 DEF Turn
<1>3. turn'[t] = r
  BY <1>1 DEF IInv, TypeOK
<1>4. Unique(rest) /\ Unique(turn[t].page)
  BY DEF PInv, UniqueOK, Unique
<1> HIDE DEF r, rest
<1>5. \A s \in Spokes : /\ binding'[s].pull = binding[s].pull
                        /\ binding'[s].horizon = binding[s].horizon
  BY <1>1 DEF IInv, TypeOK
<1>6. PullOK(t)'
  <2>1. CASE Mode[t] # "push"
    <3>1. turn[t].pull = binding[At[t]].pull
      BY <1>1, <2>1 DEF PInv, PullOK
    <3> QED BY <1>2, <1>3, <1>5, <2>1, <3>1, TurnTypes, CalmOK DEF Calm
  <2>2. CASE Mode[t] = "push"
    BY <1>2, <1>3, <2>2 DEF PullOK, Calm, Starting, Applying
  <2> QED BY <2>1, <2>2
<1> QED BY <1>1, <1>2, <1>4, <1>5, <1>6, MoveHolds

LEMMA SkipHolds ==
    ASSUME IInv, IInv', PInv, NEW s \in Spokes, Skip(s)
    PROVE  PInv'
<1>1. \A x \in Spokes : /\ binding'[x].pull = binding[x].pull
                        /\ binding'[x].horizon = binding[x].horizon
  BY DEF Skip, IInv, TypeOK
<1>2. \A q \in late : Unique(q.entries)
  BY DEF PInv, UniqueOK
<1> QED BY <1>1, <1>2, QuietStep DEF Skip, hubVars

LEMMA RetryHolds ==
    ASSUME IInv, IInv', PInv, NEW s \in Spokes, Retry(s)
    PROVE  PInv'
<1>1. \A q \in late : Unique(q.entries)
  BY DEF PInv, UniqueOK
<1> QED BY <1>1, QuietStep DEF Retry, hubVars

LEMMA RefreshFailsHolds ==
    ASSUME IInv, IInv', PInv, RefreshFails
    PROVE  PInv'
<1>1. \A q \in late : Unique(q.entries)
  BY DEF PInv, UniqueOK
<1>2. hub'.reset = hub.reset /\ hub'.horizon = hub.horizon
  BY DEF RefreshFails, IInv, TypeOK
<1> QED BY <1>1, <1>2, QuietStep DEF RefreshFails, spokeVars

LEMMA AbortHolds ==
    ASSUME IInv, IInv', PInv, NEW t \in Turns, Abort(t)
    PROVE  PInv'
<1>1. \A q \in late : Unique(q.entries)
  BY DEF PInv, UniqueOK
<1> QED BY <1>1, RestsHolds DEF Abort, spokeVars

---------------------------------------------------------------------------
(* A turn's pull                                                           *)

\* A turn that pulls does so with the spoke's cursor and on its behalf.
LEMMA PullerIs ==
    ASSUME IInv, PInv, NEW t \in Turns, turn[t].pc \in Starting \cup Applying \cup {"pull", "finish"}
    PROVE  /\ Mode[t] # "push" /\ At[t] \in Spokes /\ SpokeOK(At[t]) /\ PullOK(t)
           /\ turn[t].pc # "finish" => turn[t].pull = binding[At[t]].pull
           /\ turn[t].pc # "pull" => unfinished[At[t]]
           /\ Unique(turn[t].todo) /\ Unique(turn[t].page)
<1>1. At[t] \in Spokes /\ PullOK(t) /\ SpokeOK(At[t])
  BY TurnTypes DEF PInv
<1>2. Unique(turn[t].todo) /\ Unique(turn[t].page)
  BY DEF PInv, UniqueOK
<1> QED BY <1>1, <1>2 DEF PullOK, Starting, Applying, Calm

LEMMA Unmoved ==
    ASSUME UNCHANGED <<born, log, hub>>, NEW s, binding'[s].pull = binding[s].pull
    PROVE  /\ Behind(s)' <=> Behind(s)
           /\ Coming(s)' = Coming(s)
           /\ \A h : Early(s, h)' <=> Early(s, h)
           /\ Uids(s)' = Uids(s)
BY DEF Behind, ResetRequired, Coming, Early, Uids

LEMMA StartPullHolds ==
    ASSUME IInv, IInv', PInv, NEW t \in Turns, StartPull(t)
    PROVE  PInv'
<1> DEFINE r == [turn[t] EXCEPT !.pc = "poll", !.resume = unfinished[At[t]]]
<1>1. /\ UNCHANGED <<born, log, last, row, hubVars, binding, late>>
      /\ turn[t] \in Turn /\ turn[t].pc = "pull" /\ turn' = [turn EXCEPT ![t] = r]
      /\ unfinished' = [unfinished EXCEPT ![At[t]] = TRUE]
  BY TurnTypes DEF StartPull
<1>2. /\ r.pc = "poll" /\ r.resume = unfinished[At[t]]
      /\ r.todo = turn[t].todo /\ r.pull = turn[t].pull /\ r.page = turn[t].page
  BY <1>1 DEF Turn
<1>3. turn'[t] = r
  BY <1>1 DEF IInv, TypeOK
<1> HIDE DEF r
<1>4. /\ Mode[t] # "push" /\ At[t] \in Spokes /\ SpokeOK(At[t])
      /\ turn[t].pull = binding[At[t]].pull
      /\ Unique(turn[t].todo) /\ Unique(turn[t].page)
  BY <1>1, PullerIs
<1>5. \A s \in Spokes : unfinished[s] => unfinished'[s]
  BY <1>1 DEF IInv, TypeOK
<1>6. unfinished'[At[t]]
  BY <1>1, <1>4 DEF IInv, TypeOK
<1>7. Behind(At[t])' \/ Coming(At[t])' = {} \/ r.resume
  <2>1. Behind(At[t]) \/ Coming(At[t]) = {} \/ unfinished[At[t]]
    BY <1>4 DEF SpokeOK
  <2> QED BY <1>1, <1>2, <2>1, Unmoved DEF hubVars
<1>8. PullOK(t)'
  BY <1>1, <1>2, <1>3, <1>4, <1>6, <1>7 DEF PullOK, Starting, Applying, Calm
<1> QED BY <1>1, <1>2, <1>4, <1>5, <1>8, MoveHolds

LEMMA BlockersHold ==
    ASSUME IInv, IInv', PInv, NEW t \in Turns,
           turn[t].pc \in {"poll", "blockers"}, Goes(t, "blockers") \/ Goes(t, "horizon"),
           UNCHANGED <<born, log, last, row, hubVars, spokeVars, late>>
    PROVE  PInv'
<1>1. PICK r : /\ turn' = [turn EXCEPT ![t] = r] /\ turn'[t] = r /\ r.pc \in {"blockers", "horizon"}
               /\ r.pull = turn[t].pull /\ r.todo = turn[t].todo
               /\ r.page = turn[t].page /\ r.resume = turn[t].resume
  BY GoesIs
<1>2. /\ Mode[t] # "push" /\ PullOK(t) /\ turn[t].pull = binding[At[t]].pull
      /\ unfinished[At[t]] /\ Unique(turn[t].todo) /\ Unique(turn[t].page)
  BY PullerIs DEF Starting
<1>3. Behind(At[t])' \/ Coming(At[t])' = {} \/ r.resume
  <2>1. Behind(At[t]) \/ Coming(At[t]) = {} \/ r.resume
    BY <1>1, <1>2 DEF PullOK, Starting
  <2> QED BY <2>1, Unmoved DEF hubVars, spokeVars
<1>4. PullOK(t)'
  BY <1>1, <1>2, <1>3 DEF PullOK, Starting, Applying, Calm, spokeVars
<1> QED BY <1>1, <1>2, <1>4, MoveHolds DEF spokeVars

\* A page holds all there is up to its last id.
LEMMA PageIs ==
    ASSUME IInv, NEW s \in Spokes, NEW c \in Nat, c = binding[s].pull, NEW page, page = Page(c)
    PROVE  /\ \A p \in page : \E h \in log[Hub] : /\ p = [id |-> h.id, uid |-> h.uid]
                                                  /\ h.id > c /\ Early(s, h)
           /\ \A h \in log[Hub] : h.id > c /\ Early(s, h) => [id |-> h.id, uid |-> h.uid] \in page
           /\ \A p \in page, h \in log[Hub] :
                h.id > c /\ h.id <= p.id => [id |-> h.id, uid |-> h.uid] \in page /\ Early(s, h)
<1> DEFINE ids == {g.id : g \in {f \in log[Hub] : f.id > c}}
<1>1. page = {[id |-> e.id, uid |-> e.uid] :
                 e \in {f \in log[Hub] : f.id > c /\ Nth(f.id, ids) <= PollLimit}}
  BY DEF Page
<1>2. \A h : Early(s, h) <=> Nth(h.id, ids) <= PollLimit
  BY DEF Early
<1>3. ids \in SUBSET Nat /\ IsFiniteSet(ids)
  <2>1. ids \in SUBSET Nat /\ \A x \in ids : x <= last[Hub]
    BY HubTypes
  <2>2. last[Hub] \in Nat
    BY HubTypes
  <2> HIDE DEF ids
  <2> QED BY <2>1, <2>2, FS_BoundedSetOfNaturals
<1>4. ASSUME NEW x \in ids, NEW y \in ids, x <= y, Nth(y, ids) <= PollLimit
      PROVE  Nth(x, ids) <= PollLimit
  <2> HIDE DEF ids
  <2>1. {z \in ids : z <= x} \subseteq {z \in ids : z <= y} /\ {z \in ids : z <= y} \subseteq ids
    <3>1. \A z \in ids : z <= x => z <= y
      BY <1>3, <1>4
    <3> QED BY <3>1
  <2>2. /\ IsFiniteSet({z \in ids : z <= y})
        /\ Cardinality({z \in ids : z <= x}) <= Cardinality({z \in ids : z <= y})
        /\ Cardinality({z \in ids : z <= x}) \in Nat /\ Cardinality({z \in ids : z <= y}) \in Nat
    BY <1>3, <2>1, FS_Subset, FS_CardinalityType
  <2> QED BY <1>4, <2>2, BoundsAssumption DEF Nth
<1>5. \A h \in log[Hub] : h.id > c => h.id \in ids
  OBVIOUS
<1>6. \A p \in page : \E h \in log[Hub] : /\ p = [id |-> h.id, uid |-> h.uid]
                                          /\ h.id > c /\ Early(s, h)
  <2> HIDE DEF ids
  <2> QED BY <1>1, <1>2
<1>7. \A h \in log[Hub] : h.id > c /\ Early(s, h) => [id |-> h.id, uid |-> h.uid] \in page
  <2> HIDE DEF ids
  <2> QED BY <1>1, <1>2
<1>8. ASSUME NEW p \in page, NEW h \in log[Hub], h.id > c, h.id <= p.id PROVE Early(s, h)
  <2>1. PICK g \in log[Hub] : p = [id |-> g.id, uid |-> g.uid] /\ g.id > c /\ Early(s, g)
    BY <1>6
  <2> HIDE DEF ids
  <2> QED BY <1>2, <1>4, <1>5, <1>8, <2>1
<1> QED BY <1>6, <1>7, <1>8

\* A spoke that is not behind a reset takes a page: a part of the log that has no holes
\* and covers what an earlier attempt stored.
LEMMA TakesPageHolds ==
    ASSUME IInv, IInv', PInv, NEW t \in Turns, turn[t].pc \in {"poll", "repoll"},
           ~ResetRequired(turn[t].pull), TakesPage(t),
           UNCHANGED <<born, log, last, row, hubVars, spokeVars, late>>
    PROVE  PInv'
<1>0. PICK s, c, page, next :
          /\ s = At[t] /\ c = turn[t].pull /\ page = Page(c)
          /\ next = IF page = {} THEN c ELSE Greatest({e.id : e \in page})
  OBVIOUS
<1> DEFINE r == [turn[t] EXCEPT !.pc = "insert", !.page = page, !.next = next]
<1>1. turn[t] \in Turn /\ turn' = [turn EXCEPT ![t] = r] /\ s \in Spokes
  BY <1>0, TurnTypes DEF TakesPage
<1>2. /\ r.pc = "insert" /\ r.page = page /\ r.next = next /\ r.resume = turn[t].resume
      /\ r.mine = turn[t].mine /\ r.todo = turn[t].todo /\ r.pull = c
  BY <1>0, <1>1 DEF Turn
<1>3. turn'[t] = r
  BY <1>1 DEF IInv, TypeOK
<1> HIDE DEF r
<1>4. /\ Mode[t] # "push" /\ SpokeOK(s) /\ PullOK(t) /\ c = binding[s].pull /\ c \in Nat
      /\ unfinished[s] /\ Unique(turn[t].todo) /\ ~Behind(s) /\ Unique(log[Hub])
  BY <1>0, PullerIs, TurnTypes, HubTypes DEF Starting, Behind, PInv, UniqueOK
<1>5. /\ \A p \in page : \E h \in log[Hub] : /\ p = [id |-> h.id, uid |-> h.uid]
                                             /\ h.id > c /\ Early(s, h)
      /\ \A h \in log[Hub] : h.id > c /\ Early(s, h) => [id |-> h.id, uid |-> h.uid] \in page
      /\ \A p \in page, h \in log[Hub] :
           h.id > c /\ h.id <= p.id => [id |-> h.id, uid |-> h.uid] \in page /\ Early(s, h)
  BY <1>0, <1>1, <1>4, PageIs
<1>6. /\ next \in Nat /\ c <= next /\ next <= last[Hub]
      /\ \A p \in page : p.id <= next
      /\ page # {} => \E p \in page : p.id = next
      /\ page = {} => next = c
  <2>1. CASE page = {}
    BY <1>0, <1>4, <2>1 DEF SpokeOK
  <2>2. CASE page # {}
    <3> DEFINE ids == {e.id : e \in page}
    <3>1. ids \in SUBSET Nat /\ ids # {} /\ \A x \in ids : x <= last[Hub] /\ x > c
      BY <1>5, <2>2, HubTypes
    <3>2. last[Hub] \in Nat /\ next = Greatest(ids)
      BY <1>0, <2>2, HubTypes
    <3>3. next \in ids /\ \A x \in ids : x <= next
      <4> HIDE DEF ids
      <4> QED BY <3>1, <3>2, FS_BoundedSetOfNaturals, GreatestIs
    <3>4. next \in Nat /\ next <= last[Hub] /\ next > c
      <4> HIDE DEF ids
      <4> QED BY <3>1, <3>3
    <3> QED BY <1>4, <2>2, <3>3, <3>4
  <2> QED BY <2>1, <2>2
<1>7. ASSUME NEW h \in log[Hub], h.id > c, h.id <= next
      PROVE  [id |-> h.id, uid |-> h.uid] \in page /\ Early(s, h)
  BY <1>4, <1>5, <1>6, <1>7, HubTypes
<1>8. ASSUME NEW p \in page
      PROVE  /\ p.id > c /\ p.id <= next /\ p.uid \in Uids(Hub)
             /\ \A h \in log[Hub] : h.uid = p.uid => h.id = p.id
  BY <1>4, <1>5, <1>6, HubTypes DEF Unique
<1>9. ASSUME NEW h \in Coming(s) PROVE h.id <= next /\ r.resume
  <2>1. h \in log[Hub] /\ h.id > c /\ Early(s, h)
    BY <1>4 DEF SpokeOK, Coming
  <2>2. h.id <= next
    BY <1>5, <1>6, <2>1
  <2> QED BY <1>0, <1>2, <1>4, <2>2 DEF PullOK, Starting
<1>10. WholePage(t)'
  <2>1. /\ Behind(s)' <=> Behind(s)
        /\ Coming(s)' = Coming(s)
        /\ \A h : Early(s, h)' <=> Early(s, h)
    BY Unmoved DEF hubVars, spokeVars
  <2>2. Uids(Hub)' = Uids(Hub)
    BY DEF Uids
  <2> QED BY <1>0, <1>2, <1>3, <1>4, <1>6, <1>7, <1>8, <1>9, <2>1, <2>2 DEF WholePage
<1>11. Unique(page)
  <2> SUFFICES ASSUME NEW p \in page, NEW q \in page, p.uid = q.uid PROVE p.id = q.id
    BY DEF Unique
  <2>1. PICK g \in log[Hub] : p = [id |-> g.id, uid |-> g.uid]
    BY <1>5
  <2> QED BY <1>8, <2>1
<1>12. PullOK(t)'
  BY <1>0, <1>2, <1>3, <1>4, <1>10 DEF PullOK, Starting, Applying, Calm, spokeVars
<1> QED BY <1>1, <1>2, <1>4, <1>11, <1>12, MoveHolds DEF spokeVars

LEMMA PollHolds ==
    ASSUME IInv, IInv', PInv, NEW t \in Turns, Poll(t) \/ Repoll(t) \/ CheckBlockers(t)
    PROVE  PInv'
<1>1. UNCHANGED <<born, log, last, row, hubVars, spokeVars, late, faults>>
  BY DEF Poll, Repoll, CheckBlockers
<1>2. \A q \in late : Unique(q.entries)
  BY DEF PInv, UniqueOK
<1>3. CASE Rests(t)
  BY <1>1, <1>2, <1>3, RestsHolds DEF spokeVars
<1>4. CASE TakesPage(t) /\ ~ResetRequired(turn[t].pull) /\ turn[t].pc \in {"poll", "repoll"}
  BY <1>1, <1>4, TakesPageHolds
<1>5. CASE (Goes(t, "blockers") \/ Goes(t, "horizon")) /\ turn[t].pc \in {"poll", "blockers"}
  BY <1>1, <1>5, BlockersHold
<1> QED BY <1>3, <1>4, <1>5 DEF Poll, Repoll, CheckBlockers

LEMMA ReapplyHolds ==
    ASSUME IInv, IInv', PInv, NEW t \in Turns, Reapply(t)
    PROVE  PInv'
<1>1. /\ turn[t].pc \in Applying /\ Goes(t, "insert")
      /\ UNCHANGED <<born, log, last, row, hubVars, spokeVars, late>>
  BY DEF Reapply, Applying
<1>2. PICK r : /\ turn' = [turn EXCEPT ![t] = r] /\ turn'[t] = r /\ r.pc = "insert"
               /\ r.pull = turn[t].pull /\ r.next = turn[t].next /\ r.todo = turn[t].todo
               /\ r.page = turn[t].page /\ r.resume = turn[t].resume /\ r.mine = turn[t].mine
  BY <1>1, GoesIs
<1>3. /\ Mode[t] # "push" /\ PullOK(t) /\ turn[t].pull = binding[At[t]].pull
      /\ unfinished[At[t]] /\ Unique(turn[t].todo) /\ Unique(turn[t].page)
  BY <1>1, PullerIs DEF Applying
<1>4. WholePage(t)
  BY <1>1, <1>3 DEF PullOK
<1>5. WholePage(t)'
  <2>1. Uids(Hub)' = Uids(Hub)
    BY <1>1 DEF Uids
  <2>2. /\ Behind(At[t])' <=> Behind(At[t])
        /\ Coming(At[t])' = Coming(At[t])
        /\ \A h : Early(At[t], h)' <=> Early(At[t], h)
    BY <1>1, Unmoved DEF hubVars, spokeVars
  <2> QED BY <1>1, <1>2, <1>4, <2>1, <2>2 DEF WholePage, ResetRequired, hubVars
<1>6. PullOK(t)'
  BY <1>1, <1>2, <1>3, <1>5 DEF PullOK, Starting, Applying, Calm, spokeVars
<1> QED BY <1>1, <1>2, <1>3, <1>6, MoveHolds DEF spokeVars

LEMMA FinishPullHolds ==
    ASSUME IInv, IInv', OnePuller, PInv, NEW t \in Turns, FinishPull(t)
    PROVE  PInv'
<1> DEFINE s == At[t]
<1>1. /\ UNCHANGED <<born, log, last, row, hub, purged, binding, late>>
      /\ unfinished' = [unfinished EXCEPT ![s] = FALSE]
      /\ turn[t].pc = "finish" /\ turn' = [turn EXCEPT ![t] = Resting]
  BY DEF FinishPull, hubVars, Rests
<1>2. Mode[t] # "push" /\ s \in Spokes /\ SpokeOK(s) /\ PullOK(t)
  BY <1>1, PullerIs
<1>3. turn'[t] = Resting /\ \A o \in Turns \ {t} : turn'[o] = turn[o]
  BY <1>1 DEF IInv, TypeOK
<1>4. Resting.pc = "idle" /\ Resting.todo = {} /\ Resting.page = {}
  BY DEF Resting
<1>5. Lasting /\ HubMoves
  BY <1>1, NothingNew, NoMove
<1>6. PullOK(t)'
  BY <1>3, <1>4, CalmOK DEF Calm
<1>7. Behind(s)' \/ Coming(s)' = {}
  <2>1. Behind(s) \/ Coming(s) = {}
    BY <1>1, <1>2 DEF PullOK
  <2> QED BY <1>1, <2>1, Unmoved
<1>8. SpokeOK(s)'
  BY <1>1, <1>2, <1>5, <1>7, SpokeStays DEF SpokeStill
<1>9. \A x \in Spokes \ {s} : SpokeStands(x)
  BY <1>1 DEF SpokeStands, SpokeStill, IInv, TypeOK
<1>10. Unique(log'[s])
  BY <1>1, <1>2 DEF PInv, UniqueOK, Nodes
<1> HIDE DEF s
<1> QED BY <1>1, <1>2, <1>3, <1>4, <1>5, <1>6, <1>8, <1>9, <1>10, OwnStep DEF s

\* The cursor passes a page that is stored and applied.
LEMMA AdvancePullHolds ==
    ASSUME IInv, IInv', OnePuller, PInv, NEW t \in Turns, AdvancePull(t)
    PROVE  PInv'
<1>0. PICK s, pull, next, horizon :
          s = At[t] /\ pull = binding[s].pull /\ next = turn[t].next /\ horizon = binding[s].horizon
  OBVIOUS
<1> DEFINE r == [Resting EXCEPT !.pc = "finish"]
<1>1. /\ UNCHANGED <<born, log, last, row, hub, purged, unfinished, late>>
      /\ binding' = [binding EXCEPT ![s].pull = Larger(@, next)]
      /\ turn[t].pc = "advance" /\ turn' = [turn EXCEPT ![t] = r]
  BY <1>0 DEF AdvancePull, hubVars
<1>2. /\ Mode[t] # "push" /\ s \in Spokes /\ SpokeOK(s) /\ PullOK(t) /\ turn[t].pull = pull
      /\ unfinished[s] /\ WholePage(t)
      /\ pull \in Nat /\ next \in Nat /\ horizon \in Nat /\ pull <= next
  BY <1>0, <1>1, PullerIs, SpokeTypes, TurnTypes DEF Applying, PullOK, WholePage
<1>3. turn'[t] = r /\ \A o \in Turns \ {t} : turn'[o] = turn[o]
  BY <1>1 DEF IInv, TypeOK
<1>4. r.pc = "finish" /\ r.todo = {} /\ r.page = {}
  BY DEF Resting
<1> HIDE DEF r
<1>5. Lasting /\ HubMoves
  BY <1>1, NothingNew, NoMove
<1>6. /\ binding'[s].pull = next /\ binding'[s].horizon = horizon
      /\ \A x \in Spokes \ {s} : binding'[x] = binding[x]
  BY <1>0, <1>1, <1>2 DEF IInv, TypeOK, Larger
<1>7. Behind(s) => Behind(s)'
  BY <1>0, <1>1, <1>2, <1>6 DEF WholePage, Behind, ResetRequired
<1>8. Behind(s)' \/ Coming(s)' = {}
  <2> SUFFICES ASSUME NEW h \in Coming(s)' PROVE Behind(s)
    BY <1>7
  <2>1. h \in log[Hub] /\ h.id > next
    BY <1>1, <1>6 DEF Coming
  <2>2. h \in Coming(s)
    BY <1>0, <1>1, <1>2, <1>6, <2>1, HubTypes DEF Coming
  <2> QED BY <1>0, <1>2, <2>1, <2>2, HubTypes DEF WholePage
<1>9. SpokeOK(s)'
  <2>1. next <= last[Hub] /\ horizon <= next + 1
    BY <1>0, <1>2 DEF SpokeOK, WholePage
  <2>2. Dominated(binding[s].horizon)'
    <3>1. Dominated(horizon)'
      BY <1>0, <1>2, <1>5, HubTypes, DominatedStays DEF SpokeOK
    <3> QED BY <1>6, <3>1 DEF Dominated
  <2>3. Kept(s)'
    BY <1>1, <1>2, <1>7 DEF SpokeOK, Kept, Uids
  <2>4. Stored(s)'
    <3> SUFFICES ASSUME NEW h \in log[Hub], h.id >= horizon, h.id <= next
                 PROVE  h.uid \in Uids(s)
      BY <1>1, <1>6 DEF Stored, Uids
    <3>1. CASE h.id <= pull
      BY <1>0, <1>2, <3>1 DEF SpokeOK, Stored
    <3>2. CASE ~(h.id <= pull)
      <4>1. [id |-> h.id, uid |-> h.uid] \in turn[t].page
        BY <1>0, <1>2, <3>2, HubTypes DEF WholePage
      <4> QED BY <1>0, <1>1, <1>2, <4>1 DEF PullOK
    <3> QED BY <3>1, <3>2
  <2>5. ASSUME NEW i \in Issues PROVE RowsFrom(s, binding[s].pull, i)'
    <3>1. RowsFrom(s, next, i)
      BY <1>0, <1>1, <1>2 DEF PullOK
    <3>2. RowsFrom(s, next, i)'
      BY <1>1, <1>2, <1>5, <2>1, <3>1, RowsStay
    <3> QED BY <1>6, <3>2 DEF RowsFrom, AwaitedFrom
  <2> QED BY <1>1, <1>6, <1>8, <2>1, <2>2, <2>3, <2>4, <2>5 DEF SpokeOK
<1>10. PullOK(t)'
  BY <1>0, <1>1, <1>2, <1>3, <1>4, <1>8 DEF PullOK, Starting, Applying, Calm
<1>11. \A x \in Spokes \ {s} : SpokeStands(x)
  BY <1>1, <1>6 DEF SpokeStands, SpokeStill
<1>12. Unique(log'[s])
  BY <1>1, <1>2 DEF PInv, UniqueOK, Nodes
<1> QED BY <1>0, <1>1, <1>2, <1>3, <1>4, <1>5, <1>9, <1>10, <1>11, <1>12, OwnStep

LEMMA MaterializeHolds ==
    ASSUME IInv, IInv', OnePuller, PInv, NEW t \in Turns, Materialize(t)
    PROVE  PInv'
<1>0. PICK s, pull, next : s = At[t] /\ pull = binding[s].pull /\ next = turn[t].next
  OBVIOUS
<1>1. /\ UNCHANGED <<born, log, last, hub, purged, binding, unfinished, late>>
      /\ row' = Refolded(s, Uids(s), turn[t].scope)
      /\ turn[t].pc = "materialize" /\ Goes(t, "advance")
  BY <1>0 DEF Materialize, hubVars, spokeVars
<1>2. PICK r : /\ turn' = [turn EXCEPT ![t] = r] /\ turn'[t] = r /\ r.pc = "advance"
               /\ r.pull = turn[t].pull /\ r.next = turn[t].next /\ r.todo = turn[t].todo
               /\ r.page = turn[t].page /\ r.resume = turn[t].resume /\ r.mine = turn[t].mine
  BY <1>1, GoesIs
<1>3. /\ Mode[t] # "push" /\ s \in Spokes /\ s # Hub /\ s \in Nodes
      /\ SpokeOK(s) /\ PullOK(t) /\ turn[t].pull = pull /\ unfinished[s] /\ WholePage(t)
      /\ pull \in Nat /\ next \in Nat /\ pull <= last[Hub] /\ next <= last[Hub]
  BY <1>0, <1>1, PullerIs, SpokeTypes, TurnTypes DEF Applying, PullOK, WholePage, SpokeOK
<1>4. \A o \in Turns \ {t} : turn'[o] = turn[o]
  BY <1>2 DEF IInv, TypeOK
<1>5. Lasting /\ HubMoves
  BY <1>1, NothingNew, NoMove
<1>6. /\ \A i \in Issues : row'[s][i] = IF i \in turn[t].scope THEN Shown(s, i) ELSE row[s][i]
      /\ \A n \in Nodes \ {s} : row'[n] = row[n]
  BY <1>1, <1>3 DEF Refolded, Shown, IInv, TypeOK
<1>7. ASSUME NEW i \in Issues, NEW c \in Nat, c <= last[Hub],
             i \in turn[t].scope \/ RowsFrom(s, c, i)
      PROVE  RowsFrom(s, c, i)'
  <2>1. CASE i \in turn[t].scope
    <3>1. Shown(s, i)' = Shown(s, i)
      BY <1>1, <1>3, <1>5, ShownStays DEF Uids
    <3> QED BY <1>6, <2>1, <3>1 DEF RowsFrom
  <2>2. CASE i \notin turn[t].scope
    <3>1. row'[s][i] = row[s][i]
      BY <1>6, <2>2
    <3> QED BY <1>1, <1>3, <1>5, <1>7, <2>2, <3>1, RowsStay
  <2> QED BY <2>1, <2>2
<1>8. /\ Behind(s)' <=> Behind(s)
      /\ Coming(s)' = Coming(s)
      /\ \A h : Early(s, h)' <=> Early(s, h)
      /\ Uids(s)' = Uids(s) /\ Uids(Hub)' = Uids(Hub)
  BY <1>1, Unmoved DEF Uids
<1>9. SpokeOK(s)'
  <2>1. Dominated(binding[s].horizon)'
    <3>1. PICK c \in Nat : c = binding[s].horizon
      BY <1>3, SpokeTypes
    <3>2. Dominated(c)'
      BY <1>0, <1>3, <1>5, <3>1, HubTypes, DominatedStays DEF SpokeOK
    <3> QED BY <1>1, <3>1, <3>2 DEF Dominated
  <2>2. Kept(s)' /\ Stored(s)'
    BY <1>1, <1>3, <1>8 DEF SpokeOK, Kept, Stored
  <2>3. ASSUME NEW i \in Issues PROVE RowsFrom(s, binding[s].pull, i)'
    <3>1. RowsFrom(s, pull, i)'
      BY <1>0, <1>3, <1>7 DEF SpokeOK
    <3> QED BY <1>0, <1>1, <3>1 DEF RowsFrom, AwaitedFrom
  <2> QED BY <1>1, <1>3, <1>8, <2>1, <2>2, <2>3 DEF SpokeOK
<1>10. WholePage(t)'
  BY <1>0, <1>1, <1>2, <1>3, <1>8 DEF WholePage, ResetRequired
<1>11. ASSUME NEW i \in Issues PROVE RowsFrom(s, next, i)'
  BY <1>0, <1>1, <1>3, <1>7 DEF PullOK
<1>12. PullOK(t)'
  <2>1. \A p \in turn[t].page : p.uid \in Uids(s)
    BY <1>0, <1>1, <1>3 DEF PullOK
  <2>2. \A i \in Issues : RowsFrom(At[t], turn[t].next, i)'
    BY <1>0, <1>2, <1>11 DEF RowsFrom, AwaitedFrom
  <2> QED BY <1>0, <1>1, <1>2, <1>3, <1>8, <1>10, <2>1, <2>2
          DEF PullOK, Starting, Applying, Calm
<1>13. \A x \in Spokes \ {s} : SpokeStands(x)
  BY <1>1, <1>6, HubApart DEF SpokeStands, SpokeStill
<1>14. Unique(log'[s]) /\ row'[Hub] = row[Hub]
  BY <1>1, <1>3, <1>6, HubApart DEF PInv, UniqueOK
<1> QED BY <1>0, <1>1, <1>2, <1>3, <1>4, <1>5, <1>9, <1>12, <1>13, <1>14, OwnStep

\* A reset leaves nothing that could be missing or out of date.
LEMMA ResetHolds ==
    ASSUME IInv, IInv', OnePuller, PInv, NEW t \in Turns, Reset(t)
    PROVE  PInv'
<1>0. PICK s, next : s = At[t] /\ next = turn[t].next
  OBVIOUS
<1>1. UNCHANGED <<born, last, hub, purged, unfinished, late>> /\ turn[t].pc = "reset"
  BY DEF Reset, hubVars
<1>2. CASE Rests(t) /\ UNCHANGED <<log, row, binding>>
  <2>1. \A q \in late : Unique(q.entries)
    BY DEF PInv, UniqueOK
  <2> QED BY <1>1, <1>2, <2>1, RestsHolds DEF hubVars
<1>3. CASE /\ log' = [log EXCEPT ![s] = {}]
           /\ row' = [row EXCEPT ![s] = [i \in Issues |-> NoRow]]
           /\ binding' = [binding EXCEPT ![s].pull = next, ![s].horizon = next + 1]
           /\ turn' = [turn EXCEPT ![t].pc = "repoll", ![t].pull = next]
  <2> DEFINE r == [turn[t] EXCEPT !.pc = "repoll", !.pull = next]
  <2>1. /\ Mode[t] # "push" /\ s \in Spokes /\ s # Hub /\ s \in Nodes /\ Hub \in Nodes
        /\ SpokeOK(s) /\ PullOK(t) /\ unfinished[s] /\ next \in Nat
    BY <1>0, <1>1, PullerIs, SpokeTypes, TurnTypes, HubTypes DEF Starting
  <2>2. turn[t] \in Turn /\ turn' = [turn EXCEPT ![t] = r]
    BY <1>3, TurnTypes
  <2>3. r.pc = "repoll" /\ r.pull = next /\ r.todo = turn[t].todo /\ r.page = turn[t].page
    BY <2>2 DEF Turn
  <2>4. turn'[t] = r /\ \A o \in Turns \ {t} : turn'[o] = turn[o]
    BY <2>2 DEF IInv, TypeOK
  <2> HIDE DEF r
  <2>5. /\ log'[s] = {} /\ \A n \in Nodes \ {s} : log'[n] = log[n] /\ row'[n] = row[n]
        /\ \A i \in Issues : row'[s][i] = NoRow
        /\ binding'[s].pull = next /\ binding'[s].horizon = next + 1
        /\ \A x \in Spokes \ {s} : binding'[x] = binding[x]
    BY <1>3, <2>1 DEF IInv, TypeOK
  <2>6. Lasting /\ HubMoves
    BY <1>1, <2>1, <2>5, NothingNew, NoMove
  <2>7. next <= last[Hub] /\ Dominated(next + 1)
    BY <1>0, <1>1, <2>1 DEF PullOK
  <2>8. Coming(s)' = {} /\ Uids(s)' = {}
    BY <2>5 DEF Coming, Uids
  <2>9. SpokeOK(s)'
    <3>1. Dominated(binding[s].horizon)'
      <4>1. PICK c \in Nat : c = next + 1
        BY <2>1
      <4>2. Dominated(c)'
        BY <2>1, <2>6, <2>7, <4>1, HubTypes, DominatedStays
      <4> QED BY <2>5, <4>1, <4>2 DEF Dominated
    <3>2. Kept(s)' /\ Stored(s)'
      BY <1>1, <2>1, <2>5, HubTypes DEF Kept, Stored
    <3>3. ASSUME NEW i \in Issues PROVE RowsFrom(s, binding[s].pull, i)'
      <4>1. Shown(s, i)' = NoRow
        BY <2>1, <2>8, ShownNext DEF ShownFacts, IInv
      <4> QED BY <2>5, <4>1 DEF RowsFrom
    <3> QED BY <1>1, <2>1, <2>5, <2>7, <2>8, <3>1, <3>2, <3>3 DEF SpokeOK
  <2>10. PullOK(t)'
    BY <1>0, <1>1, <2>1, <2>3, <2>4, <2>5, <2>8 DEF PullOK, Starting, Applying, Calm
  <2>11. \A x \in Spokes \ {s} : SpokeStands(x)
    BY <1>1, <2>5, HubApart DEF SpokeStands, SpokeStill
  <2>12. Unique(log'[s])
    BY <2>5 DEF Unique
  <2> QED BY <1>0, <1>1, <2>1, <2>3, <2>4, <2>5, <2>6, <2>9, <2>10, <2>11, <2>12, OwnStep
<1> QED BY <1>0, <1>2, <1>3 DEF Reset

\* What an insert adds to a spoke's log.
LEMMA InsertIs ==
    ASSUME IInv, PInv, NEW t \in Turns, Insert(t)
    PROVE  \E fresh, applied, r :
              /\ fresh = {p \in turn[t].page : p.uid \notin Uids(At[t])}
              /\ applied = fresh \cup {p \in turn[t].page \ fresh : Reapplied(t, p)}
              /\ turn'[t] = r /\ \A o \in Turns \ {t} : turn'[o] = turn[o]
              /\ r.pc = "materialize" /\ r.pull = turn[t].pull /\ r.next = turn[t].next
              /\ r.todo = turn[t].todo /\ r.page = turn[t].page /\ r.resume = turn[t].resume
              /\ r.mine = turn[t].mine \cup {p.uid : p \in fresh} /\ r.scope = Scope(applied)
              /\ \A n \in Nodes \ {At[t]} : log'[n] = log[n] /\ last'[n] = last[n]
              /\ last[At[t]] <= last'[At[t]]
              /\ log[At[t]] \subseteq log'[At[t]]
              /\ \A e \in log'[At[t]] \ log[At[t]] : e.pulled /\ \E p \in fresh : e.uid = p.uid
              /\ \A p \in fresh : \E e \in log'[At[t]] : e.pulled /\ e.uid = p.uid
              /\ Unique(log'[At[t]])
              /\ UNCHANGED <<born, row, hub, purged, binding, unfinished, late>>
<1> DEFINE s == At[t]
           page == turn[t].page
           fresh == {p \in page : p.uid \notin Uids(s)}
           ids == {p.id : p \in fresh}
           applied == fresh \cup {p \in page \ fresh : Reapplied(t, p)}
           Entered(p) == [id |-> last[s] + Nth(p.id, ids), uid |-> p.uid, pulled |-> TRUE]
           stored == {Entered(p) : p \in fresh}
           r == [turn[t] EXCEPT !.pc = "materialize", !.mine = @ \cup {p.uid : p \in fresh},
                                !.scope = Scope(applied)]
<1>1. turn[t] \in Turn /\ s \in Spokes /\ s \in Nodes /\ last[s] \in Nat /\ PageOK(t)
  BY TurnHere DEF IInv, TypeOK
<1>2. Cardinality(ids) \in Nat
  <2>1. ids \in SUBSET Nat /\ \A i \in ids : i <= last[Hub]
    BY <1>1, TurnTypes DEF PageOK
  <2>2. last[Hub] \in Nat
    BY HubTypes
  <2> HIDE DEF ids
  <2> QED BY <2>1, <2>2, FS_BoundedSetOfNaturals, FS_CardinalityType
<1>3. /\ log' = [log EXCEPT ![s] = @ \cup stored]
      /\ last' = [last EXCEPT ![s] = @ + Cardinality(ids)]
      /\ turn' = [turn EXCEPT ![t] = r]
      /\ UNCHANGED <<born, row, hub, purged, binding, unfinished, late>>
  BY DEF Insert, hubVars, spokeVars
<1>4. /\ r.pc = "materialize" /\ r.pull = turn[t].pull /\ r.next = turn[t].next
      /\ r.todo = turn[t].todo /\ r.page = turn[t].page /\ r.resume = turn[t].resume
      /\ r.mine = turn[t].mine \cup {p.uid : p \in fresh} /\ r.scope = Scope(applied)
  BY <1>1 DEF Turn
<1>5. \A p \in fresh : /\ Entered(p) \in stored /\ Entered(p).pulled /\ Entered(p).uid = p.uid
                       /\ Entered(p).id = last[s] + Nth(p.id, ids)
  OBVIOUS
<1>6. \A e \in stored : \E p \in fresh : e = Entered(p)
  OBVIOUS
<1> HIDE DEF ids, stored, Entered, r, applied
<1>7. turn'[t] = r /\ \A o \in Turns \ {t} : turn'[o] = turn[o]
  BY <1>3 DEF IInv, TypeOK
<1>8. /\ log'[s] = log[s] \cup stored /\ last'[s] = last[s] + Cardinality(ids)
      /\ \A n \in Nodes \ {s} : log'[n] = log[n] /\ last'[n] = last[n]
  BY <1>1, <1>3 DEF IInv, TypeOK
<1>9. Unique(log'[s])
  <2> SUFFICES ASSUME NEW d \in log'[s], NEW e \in log'[s], d.uid = e.uid PROVE d.id = e.id
    BY DEF Unique
  <2>1. Unique(log[s]) /\ Unique(page)
    BY <1>1 DEF PInv, UniqueOK
  <2>2. \A f \in log[s], g \in stored : f.uid # g.uid
    BY <1>5, <1>6 DEF Uids
  <2>3. CASE d \in log[s] /\ e \in log[s]
    BY <2>1, <2>3 DEF Unique
  <2>4. CASE d \in stored /\ e \in stored
    <3>1. PICK p \in fresh : d = Entered(p)
      BY <1>6, <2>4
    <3>2. PICK q \in fresh : e = Entered(q)
      BY <1>6, <2>4
    <3>3. p.id = q.id
      BY <1>5, <2>1, <3>1, <3>2 DEF Unique
    <3> QED BY <1>5, <3>1, <3>2, <3>3
  <2> QED BY <1>8, <2>2, <2>3, <2>4
<1>10. /\ last[s] <= last'[s] /\ log[s] \subseteq log'[s]
       /\ \A e \in log'[s] \ log[s] : e.pulled /\ \E p \in fresh : e.uid = p.uid
       /\ \A p \in fresh : \E e \in log'[s] : e.pulled /\ e.uid = p.uid
  <2>1. last[s] <= last'[s]
    BY <1>1, <1>2, <1>8
  <2>2. \A e \in stored : e.pulled /\ \E p \in fresh : e.uid = p.uid
    BY <1>5, <1>6
  <2>3. \A p \in fresh : \E e \in log'[s] : e.pulled /\ e.uid = p.uid
    BY <1>5, <1>8
  <2> QED BY <1>8, <2>1, <2>2, <2>3
<1> WITNESS fresh, applied, r
<1>11. applied = fresh \cup {p \in page \ fresh : Reapplied(t, p)}
  BY DEF applied
<1> HIDE DEF fresh
<1> QED BY <1>3, <1>4, <1>7, <1>8, <1>9, <1>10, <1>11 DEF fresh

\* A page is stored; what an earlier pull stored of it is applied again.
LEMMA InsertHolds ==
    ASSUME IInv, IInv', OnePuller, PInv, NEW t \in Turns, Insert(t)
    PROVE  PInv'
<1>0. PICK s, pull, next, page :
          s = At[t] /\ pull = binding[s].pull /\ next = turn[t].next /\ page = turn[t].page
  OBVIOUS
<1>a. PICK fresh, applied, r :
         /\ fresh = {p \in turn[t].page : p.uid \notin Uids(At[t])}
         /\ applied = fresh \cup {p \in turn[t].page \ fresh : Reapplied(t, p)}
         /\ turn'[t] = r /\ \A o \in Turns \ {t} : turn'[o] = turn[o]
         /\ r.pc = "materialize" /\ r.pull = turn[t].pull /\ r.next = turn[t].next
         /\ r.todo = turn[t].todo /\ r.page = turn[t].page /\ r.resume = turn[t].resume
         /\ r.mine = turn[t].mine \cup {p.uid : p \in fresh} /\ r.scope = Scope(applied)
         /\ \A n \in Nodes \ {At[t]} : log'[n] = log[n] /\ last'[n] = last[n]
         /\ last[At[t]] <= last'[At[t]]
         /\ log[At[t]] \subseteq log'[At[t]]
         /\ \A e \in log'[At[t]] \ log[At[t]] : e.pulled /\ \E p \in fresh : e.uid = p.uid
         /\ \A p \in fresh : \E e \in log'[At[t]] : e.pulled /\ e.uid = p.uid
         /\ Unique(log'[At[t]])
         /\ UNCHANGED <<born, row, hub, purged, binding, unfinished, late>>
  BY InsertIs
<1>1. /\ fresh = {p \in page : p.uid \notin Uids(s)}
      /\ applied = fresh \cup {p \in page \ fresh : Reapplied(t, p)}
      /\ turn'[t] = r /\ \A o \in Turns \ {t} : turn'[o] = turn[o]
      /\ r.pc = "materialize" /\ r.pull = turn[t].pull /\ r.next = next
      /\ r.todo = turn[t].todo /\ r.page = page /\ r.resume = turn[t].resume
      /\ r.mine = turn[t].mine \cup {p.uid : p \in fresh} /\ r.scope = Scope(applied)
      /\ \A n \in Nodes \ {s} : log'[n] = log[n] /\ last'[n] = last[n]
      /\ last[s] <= last'[s]
      /\ log[s] \subseteq log'[s]
      /\ \A e \in log'[s] \ log[s] : e.pulled /\ \E p \in fresh : e.uid = p.uid
      /\ \A p \in fresh : \E e \in log'[s] : e.pulled /\ e.uid = p.uid
      /\ Unique(log'[s])
      /\ UNCHANGED <<born, row, hub, purged, binding, unfinished, late>>
  BY <1>0, <1>a
<1>2. turn[t].pc = "insert"
  BY DEF Insert
<1>3. /\ Mode[t] # "push" /\ s \in Spokes /\ s # Hub /\ s \in Nodes /\ Hub \in Nodes
      /\ SpokeOK(s) /\ PullOK(t) /\ turn[t].pull = pull /\ unfinished[s] /\ WholePage(t)
      /\ pull \in Nat /\ next \in Nat /\ pull <= next /\ next <= last[Hub] /\ hub.reset \in Nat
  BY <1>0, <1>2, PullerIs, SpokeTypes, TurnTypes, HubTypes DEF Applying, PullOK, WholePage
<1>4. Lasting /\ HubMoves
  <2>1. HubMoves
    BY <1>1, <1>3, NoMove
  <2>2. \A n \in Nodes : last[n] \in Nat
    BY DEF IInv, TypeOK
  <2> QED BY <1>1, <2>1, <2>2 DEF Lasting
<1>5. /\ Behind(s)' <=> Behind(s)
      /\ \A h : Early(s, h)' <=> Early(s, h)
      /\ Uids(Hub)' = Uids(Hub) /\ Uids(s) \subseteq Uids(s)'
  BY <1>1, <1>3 DEF Behind, ResetRequired, Early, Uids
<1>6. ASSUME NEW p \in page
      PROVE  /\ p.id > pull /\ p.id <= next /\ p.uid \in Uids(s)'
             /\ p.uid \in Uids(Hub) \/ (hub.reset > next /\ Behind(s))
             /\ \A h \in log[Hub] : h.uid = p.uid => h.id = p.id \/ (h.id > next /\ Behind(s))
  <2>1. /\ p.id > pull /\ p.id <= next
        /\ p.uid \in Uids(Hub) \/ hub.reset > next
        /\ \A h \in log[Hub] : h.uid = p.uid => h.id = p.id \/ (h.id > next /\ hub.reset > next)
    BY <1>0, <1>3 DEF WholePage, ResetRequired
  <2>2. hub.reset > next => Behind(s)
    BY <1>0, <1>3 DEF Behind, ResetRequired
  <2>3. p.uid \in Uids(s)'
    BY <1>1, <1>5 DEF Uids
  <2> QED BY <2>1, <2>2, <2>3
<1>7. ASSUME NEW h \in Coming(s)', h \notin Coming(s)
      PROVE  /\ h.uid \in {p.uid : p \in fresh} /\ h \in log[Hub] /\ h.id > pull
             /\ h.id <= next \/ (h.id > next /\ Behind(s))
  <2>1. h \in log[Hub] /\ h.id > pull
    BY <1>0, <1>1, <1>3, <1>7 DEF Coming
  <2>2. PICK e \in log'[s] : e.pulled /\ born[e.uid].origin # s /\ e.uid = h.uid
    BY <1>1, <1>7 DEF Coming
  <2>3. e \notin log[s]
    BY <1>0, <1>7, <2>1, <2>2 DEF Coming
  <2>4. PICK p \in fresh : p.uid = h.uid
    BY <1>1, <2>2, <2>3
  <2>5. p \in page
    BY <1>1
  <2> QED BY <1>6, <2>1, <2>4, <2>5
<1>8. \A p \in fresh : Scope(applied) = Issues \/ born[p.uid].issue \in Scope(applied)
  BY <1>1 DEF Scope
<1>9. ASSUME NEW i \in Issues, i \notin Scope(applied)
      PROVE  \A e \in log'[s] : e \in log[s] \/ born'[e.uid].issue # i
  BY <1>1, <1>8, <1>9
<1>10. SpokeOK(s)'
  <2>1. Dominated(binding[s].horizon)'
    <3>1. PICK c \in Nat : c = binding[s].horizon
      BY <1>3, SpokeTypes
    <3>2. Dominated(c)'
      BY <1>0, <1>3, <1>4, <3>1, HubTypes, DominatedStays DEF SpokeOK
    <3> QED BY <1>1, <3>1, <3>2 DEF Dominated
  <2>2. Kept(s)'
    <3> SUFFICES ASSUME NEW e \in log'[s]
                 PROVE  /\ ~e.pulled => born[e.uid].origin = s
                        /\ e.uid \in Uids(Hub) \/ Behind(s) \/ (~e.pulled /\ e.uid \notin purged)
      BY <1>1, <1>5 DEF Kept
    <3>1. CASE e \in log[s]
      BY <1>3, <3>1 DEF SpokeOK, Kept
    <3>2. CASE e \notin log[s]
      BY <1>1, <1>6, <3>2
    <3> QED BY <3>1, <3>2
  <2>3. Stored(s)'
    BY <1>1, <1>3, <1>5 DEF SpokeOK, Stored
  <2>4. ASSUME NEW i \in Issues PROVE RowsFrom(s, pull, i)'
    <3>1. CASE \E p \in fresh : born[p.uid].issue = i
      <4>1. PICK p \in fresh : born[p.uid].issue = i
        BY <3>1
      <4>2. PICK e \in log'[s] : e.pulled /\ e.uid = p.uid
        BY <1>1
      <4>3. p \in page
        BY <1>1
      <4>4. AwaitedFrom(pull, e.uid)'
        <5>1. CASE p.uid \in Uids(Hub)
          <6>1. PICK h \in log[Hub] : h.uid = p.uid
            BY <5>1, HubTypes
          <6>2. h.id > pull
            BY <1>3, <1>6, <4>3, <6>1, HubTypes
          <6> QED BY <1>1, <1>3, <1>5, <4>2, <5>1, <6>1, <6>2 DEF AwaitedFrom
        <5>2. CASE p.uid \notin Uids(Hub)
          BY <1>1, <1>3, <1>5, <1>6, <4>2, <4>3, <5>2 DEF AwaitedFrom
        <5> QED BY <5>1, <5>2
      <4> QED BY <1>1, <4>1, <4>2, <4>4 DEF RowsFrom
    <3>2. CASE \A p \in fresh : born[p.uid].issue # i
      <4>1. \A e \in log'[s] : e \in log[s] \/ born'[e.uid].issue # i
        BY <1>1, <3>2
      <4>2. RowsFrom(s, pull, i) /\ pull <= last[Hub]
        BY <1>0, <1>3 DEF SpokeOK
      <4> QED BY <1>1, <1>3, <1>4, <4>1, <4>2, RowsStay
    <3> QED BY <3>1, <3>2
  <2>5. \A i \in Issues : RowsFrom(s, binding[s].pull, i)'
    BY <1>0, <1>1, <2>4 DEF RowsFrom, AwaitedFrom
  <2>6. ASSUME ~Behind(s), NEW h \in Coming(s)' PROVE Early(s, h)
    <3>1. CASE h \in Coming(s)
      BY <1>3, <2>6, <3>1 DEF SpokeOK
    <3>2. CASE h \notin Coming(s)
      <4>1. h \in log[Hub] /\ h.id > pull /\ h.id <= next
        BY <1>7, <2>6, <3>2
      <4> QED BY <1>0, <1>3, <2>6, <4>1 DEF WholePage
    <3> QED BY <3>1, <3>2
  <2> QED BY <1>1, <1>3, <1>5, <2>1, <2>2, <2>3, <2>5, <2>6 DEF SpokeOK
<1>11. WholePage(t)'
  <2>1. ASSUME NEW h \in Coming(s)'
        PROVE  IF h.id <= next THEN turn[t].resume \/ h.uid \in r.mine ELSE Behind(s)
    <3>1. CASE h \in Coming(s)
      BY <1>0, <1>1, <1>3, <3>1 DEF WholePage
    <3>2. CASE h \notin Coming(s)
      BY <1>1, <1>7, <3>2
    <3> QED BY <3>1, <3>2
  <2> QED BY <1>0, <1>1, <1>3, <1>5, <2>1 DEF WholePage, ResetRequired
<1>12. ASSUME NEW i \in Issues, i \notin Scope(applied) PROVE RowsFrom(s, next, i)'
  <2>1. CASE row[s][i] = Shown(s, i)
    <3>1. RowsFrom(s, next, i)
      BY <2>1 DEF RowsFrom
    <3> QED BY <1>1, <1>3, <1>4, <1>9, <1>12, <3>1, RowsStay
  <2>2. CASE \E e \in log[s] : e.pulled /\ born[e.uid].issue = i /\ AwaitedFrom(pull, e.uid)
    <3>1. PICK e \in log[s] : e.pulled /\ born[e.uid].issue = i /\ AwaitedFrom(pull, e.uid)
      BY <2>2
    <3>2. CASE e.uid \notin Uids(Hub)
      <4>1. hub.reset > next
        BY <1>0, <1>3, <3>1, <3>2 DEF AwaitedFrom, WholePage, Behind, ResetRequired
      <4>2. AwaitedFrom(next, e.uid)'
        BY <1>1, <1>5, <3>2, <4>1 DEF AwaitedFrom
      <4> QED BY <1>1, <3>1, <4>2 DEF RowsFrom
    <3>3. CASE e.uid \in Uids(Hub)
      <4>1. PICK h \in log[Hub] : h.uid = e.uid /\ h.id > pull
        BY <3>1, <3>3 DEF AwaitedFrom
      <4>2. CASE h.id > next
        <5>1. AwaitedFrom(next, e.uid)'
          BY <1>1, <1>3, <1>5, <3>3, <4>1, <4>2 DEF AwaitedFrom
        <5> QED BY <1>1, <3>1, <5>1 DEF RowsFrom
      <4>3. CASE ~(h.id > next)
        <5>1. PICK p \in page : p = [id |-> h.id, uid |-> h.uid]
          <6>1. h.id \in Nat /\ h.id > turn[t].pull /\ h.id <= turn[t].next
            BY <1>0, <1>3, <4>1, <4>3, HubTypes
          <6>2. [id |-> h.id, uid |-> h.uid] \in page
            BY <1>0, <1>3, <4>1, <6>1 DEF WholePage
          <6> QED BY <6>2
        <5>2. p.id = h.id /\ p.uid = e.uid /\ p \notin fresh /\ next > pull
          BY <1>1, <1>3, <3>1, <4>1, <4>3, <5>1, HubTypes DEF Uids
        <5>3. born[p.uid].origin # s => turn[t].resume \/ p.uid \in turn[t].mine
          <6> SUFFICES ASSUME born[e.uid].origin # s PROVE turn[t].resume \/ p.uid \in turn[t].mine
            BY <5>2
          <6>1. h \in Coming(s) /\ h.id <= next
            BY <1>0, <1>3, <3>1, <4>1, <4>3, HubTypes DEF Coming
          <6> QED BY <1>0, <1>3, <4>1, <5>2, <6>1 DEF WholePage
        <5>4. Reapplied(t, p)
          BY <1>0, <1>3, <3>1, <4>1, <5>2, <5>3 DEF Reapplied
        <5>5. p \in applied
          BY <1>1, <5>2, <5>4
        <5>6. i \in Scope(applied)
          BY <3>1, <5>2, <5>5 DEF Scope
        <5> QED BY <1>12, <5>6
      <4> QED BY <4>2, <4>3
    <3> QED BY <3>2, <3>3
  <2> QED BY <1>0, <1>3, <2>1, <2>2 DEF SpokeOK, RowsFrom
<1>13. PullOK(t)'
  <2>1. \A i \in Issues : i \in r.scope \/ RowsFrom(At[t], turn[t].next, i)'
    BY <1>0, <1>1, <1>12 DEF RowsFrom, AwaitedFrom
  <2> QED BY <1>0, <1>1, <1>3, <1>6, <1>11, <2>1 DEF PullOK, Starting, Applying, Calm
<1>14. \A x \in Spokes \ {s} : SpokeStands(x)
  BY <1>1, HubApart DEF SpokeStands, SpokeStill
<1> QED BY <1>0, <1>1, <1>3, <1>4, <1>10, <1>13, <1>14, OwnStep

---------------------------------------------------------------------------
(* Steps of the hub                                                        *)

\* New entries above the last id, of events that were not in the log.
LEMMA HubAdds ==
    ASSUME IInv, UniqueOK, NEW new, log'[Hub] = log[Hub] \cup new,
           \A n \in Nodes \ {Hub} : log'[n] = log[n], hub'.reset = hub.reset, purged' = purged,
           \A e \in new : e.id > last[Hub] /\ e.uid \notin Uids(Hub), Unique(new)
    PROVE  HubMoves /\ \A n \in Nodes : Unique(log'[n])
<1>1. HubMoves
  BY HubTypes DEF HubMoves
<1>2. Unique(log'[Hub])
  <2>1. Unique(log[Hub])
    BY HubTypes DEF UniqueOK
  <2>2. \A d \in log[Hub], e \in new : d.uid # e.uid
    BY HubTypes
  <2> QED BY <2>1, <2>2 DEF Unique
<1> QED BY <1>1, <1>2 DEF UniqueOK

\* A hub that keeps its horizon goes on being well, if its rows follow its log.
LEMMA HubGoesOn ==
    ASSUME IInv, IInv', Lasting, HubMoves, HubOK, HubRows', purged' \subseteq DOMAIN born',
           hub'.reset <= last'[Hub], hub'.horizon = hub.horizon
    PROVE  HubOK'
<1>1. PICK c \in Nat : c = hub.horizon
  BY HubTypes
<1>2. Dominated(c)'
  BY <1>1, DominatedStays DEF HubOK
<1>3. Dominated(hub.horizon)'
  BY <1>1, <1>2 DEF Dominated
<1>4. hub'.horizon <= last'[Hub] + 1
  BY HubTypes, HubTypesNext DEF HubOK, Lasting
<1> QED BY <1>3, <1>4 DEF HubOK

\* What an edit writes.
Edited(n, i, u, entry) ==
    /\ u \notin DOMAIN born /\ DOMAIN born' = DOMAIN born \cup {u}
    /\ u \in Nat /\ u > 0
    /\ \A v \in DOMAIN born : born'[v] = born[v]
    /\ born'[u].origin = n /\ born'[u].issue = i /\ born'[u].title = u
    /\ born'[u].kind # "enabled" /\ born'[u].clock > TopClock(n)
    /\ entry.id = last[n] + 1 /\ entry.uid = u /\ ~entry.pulled
    /\ log'[n] = log[n] \cup {entry} /\ \A m \in Nodes \ {n} : log'[m] = log[m]
    /\ last'[n] = last[n] + 1 /\ \A m \in Nodes \ {n} : last'[m] = last[m]
    /\ row'[n][i] = u /\ \A j \in Issues \ {i} : row'[n][j] = row[n][j]
    /\ \A m \in Nodes \ {n} : row'[m] = row[m]
    /\ UNCHANGED <<hub, purged, binding, unfinished, turn, late>>

LEMMA EditIs ==
    ASSUME IInv, NEW n \in Nodes, NEW i \in Issues, NEW kind \in Edits, NEW skew \in 1..Skew,
           Edit(n, i, kind, skew)
    PROVE  \E u, entry : Edited(n, i, u, entry)
<1> DEFINE u == Len(born) + 1
           event == [origin |-> n, clock |-> TopClock(n) + skew, kind |-> kind,
                     issue |-> i, title |-> u]
           entry == [id |-> last[n] + 1, uid |-> u, pulled |-> FALSE]
<1>1. /\ born' = Append(born, event)
      /\ log' = [log EXCEPT ![n] = @ \cup {entry}]
      /\ last' = [last EXCEPT ![n] = @ + 1]
      /\ row' = [row EXCEPT ![n][i] = u]
      /\ UNCHANGED <<hub, purged, binding, unfinished, turn, late>>
  BY DEF Edit, hubVars, spokeVars
<1>2. born \in Seq(Event) /\ Len(born) \in Nat /\ DOMAIN born = 1..Len(born) /\ last[n] \in Nat
  BY DEF IInv, TypeOK
<1>3. TopClock(n) \in Nat /\ skew \in Nat /\ skew > 0
  BY TopClockIs, BoundsAssumption DEF IInv
<1>4. event.origin = n /\ event.issue = i /\ event.title = u /\ event.kind # "enabled"
      /\ event.clock > TopClock(n)
  BY <1>3 DEF Edits
<1>5. entry.id = last[n] + 1 /\ entry.uid = u /\ ~entry.pulled
  OBVIOUS
<1>6. event \in Event
  <2>1. kind \in Edits \cup {"enabled", "snapshot"} /\ i \in Issues \cup {0} /\ u \in Nat
        /\ TopClock(n) + skew \in Nat
    BY <1>2, <1>3
  <2> QED BY <2>1 DEF Event
<1> HIDE DEF event, entry
<1>7. /\ DOMAIN born' = 1..u /\ \A v \in DOMAIN born : born'[v] = born[v]
      /\ born'[u] = event
  <2> HIDE DEF Event
  <2> QED BY <1>1, <1>2, <1>6
<1>8. u \notin DOMAIN born /\ DOMAIN born' = DOMAIN born \cup {u} /\ u \in Nat /\ u > 0
  BY <1>2, <1>7
<1>9. /\ log'[n] = log[n] \cup {entry} /\ \A m \in Nodes \ {n} : log'[m] = log[m]
      /\ last'[n] = last[n] + 1 /\ \A m \in Nodes \ {n} : last'[m] = last[m]
      /\ row'[n][i] = u /\ \A j \in Issues \ {i} : row'[n][j] = row[n][j]
      /\ \A m \in Nodes \ {n} : row'[m] = row[m]
  BY <1>1 DEF IInv, TypeOK
<1> HIDE DEF u
<1>10. Edited(n, i, u, entry)
  BY <1>1, <1>4, <1>5, <1>7, <1>8, <1>9 DEF Edited
<1> QED BY <1>10

LEMMA EditAtHubHolds ==
    ASSUME IInv, IInv', PInv, NEW i \in Issues, NEW kind \in Edits, NEW skew \in 1..Skew,
           Edit(Hub, i, kind, skew)
    PROVE  PInv'
<1>0. Hub \in Nodes
  BY HubApart
<1>a. PICK u, entry : Edited(Hub, i, u, entry)
  BY <1>0, EditIs
<1>1. /\ u \notin DOMAIN born /\ DOMAIN born' = DOMAIN born \cup {u}
      /\ u \in Nat /\ u > 0
      /\ \A v \in DOMAIN born : born'[v] = born[v]
      /\ born'[u].origin = Hub /\ born'[u].issue = i /\ born'[u].title = u
      /\ born'[u].kind # "enabled" /\ born'[u].clock > TopClock(Hub)
      /\ entry.id = last[Hub] + 1 /\ entry.uid = u /\ ~entry.pulled
      /\ log'[Hub] = log[Hub] \cup {entry} /\ \A m \in Nodes \ {Hub} : log'[m] = log[m]
      /\ last'[Hub] = last[Hub] + 1 /\ \A m \in Nodes \ {Hub} : last'[m] = last[m]
      /\ row'[Hub][i] = u /\ \A j \in Issues \ {i} : row'[Hub][j] = row[Hub][j]
      /\ \A m \in Nodes \ {Hub} : row'[m] = row[m]
      /\ UNCHANGED <<hub, purged, binding, unfinished, turn, late>>
  BY <1>a DEF Edited
<1>2. TitlesOK'
  BY <1>1 DEF PInv, TitlesOK
<1>3. last[Hub] \in Nat /\ Uids(Hub) \subseteq DOMAIN born
  BY HubTypes
<1>4. HubMoves /\ \A n \in Nodes : Unique(log'[n])
  <2>1. \A e \in {entry} : e.id > last[Hub] /\ e.uid \notin Uids(Hub)
    BY <1>1, <1>3
  <2>2. Unique({entry})
    BY DEF Unique
  <2> QED BY <1>1, <2>1, <2>2, HubAdds DEF PInv
<1>5. Lasting
  <2>1. \A n \in Nodes : last[n] \in Nat
    BY DEF IInv, TypeOK
  <2> QED BY <1>1, <2>1 DEF Lasting
<1>6. Uids(Hub)' = Uids(Hub) \cup {u}
  BY <1>1 DEF Uids
<1>7. ASSUME NEW j \in Issues PROVE row'[Hub][j] = Shown(Hub, j)'
  <2>1. CASE j = i
    <3>1. Shown(Hub, i)' = born'[u].title
      BY <1>1, <1>5, <1>6, HubTypes, ShownAbove
    <3> QED BY <1>1, <2>1, <3>1
  <2>2. CASE j # i
    <3>1. \A v : v \in Uids(Hub)' /\ born'[v].issue = j <=> v \in Uids(Hub) /\ born[v].issue = j
      BY <1>1, <1>3, <1>6, <2>2
    <3>2. Shown(Hub, j)' = Shown(Hub, j)
      BY <1>5, <3>1, HubTypes, ShownStays
    <3> QED BY <1>1, <2>2, <3>2 DEF PInv, HubOK, HubRows
  <2> QED BY <2>1, <2>2
<1>8. HubOK'
  <2>1. HubRows'
    BY <1>7 DEF HubRows
  <2>2. purged' \subseteq DOMAIN born' /\ hub'.reset <= last'[Hub]
    BY <1>1, HubTypes DEF PInv, HubOK
  <2> QED BY <1>1, <1>4, <1>5, <2>1, <2>2, HubGoesOn DEF PInv
<1>9. UniqueOK'
  BY <1>1, <1>4 DEF PInv, UniqueOK
<1>10. \A s \in Spokes : SpokeStands(s)
  BY <1>1, HubApart DEF SpokeStands, SpokeStill
<1> QED BY <1>1, <1>2, <1>4, <1>5, <1>8, <1>9, <1>10, FrameStep

\* A purge takes an issue as a whole and leaves every spoke behind.
LEMMA PurgeHolds ==
    ASSUME IInv, IInv', PInv, NEW i \in Issues, Purge(i)
    PROVE  PInv'
<1> DEFINE events == {e \in log[Hub] : born[e.uid].issue = i}
<1>1. /\ log'[Hub] = log[Hub] \ events /\ \A n \in Nodes \ {Hub} : log'[n] = log[n]
      /\ purged' = purged \cup {e.uid : e \in events}
      /\ last'[Hub] = last[Hub] + 1 /\ \A n \in Nodes \ {Hub} : last'[n] = last[n]
      /\ row'[Hub][i] = NoRow /\ \A j \in Issues \ {i} : row'[Hub][j] = row[Hub][j]
      /\ \A n \in Nodes \ {Hub} : row'[n] = row[n]
      /\ hub'.reset = last[Hub] + 1 /\ hub'.horizon = hub.horizon
      /\ UNCHANGED <<born, binding, unfinished, turn, late>>
  BY HubTypes DEF Purge, IInv, TypeOK, spokeVars
<1>2. TitlesOK'
  BY <1>1, TitlesStay DEF PInv
<1>3. /\ last[Hub] \in Nat /\ hub.reset \in Nat /\ hub.reset <= last[Hub]
  BY HubTypes DEF PInv, HubOK
<1>4. HubMoves
  <2>1. {e.uid : e \in events} \subseteq Uids(Hub)
    BY DEF Uids
  <2>2. \A h \in log[Hub], g \in log'[Hub] :
            g \in log[Hub] /\ born[g.uid].issue = born[h.uid].issue => h \in log'[Hub]
    BY <1>1
  <2> QED BY <1>1, <1>3, <2>1, <2>2 DEF HubMoves
<1>5. Lasting
  <2>1. \A n \in Nodes : last[n] \in Nat
    BY DEF IInv, TypeOK
  <2> QED BY <1>1, <2>1 DEF Lasting
<1>6. \A u : u \in Uids(Hub)' => u \in Uids(Hub) /\ born[u].issue # i
  BY <1>1 DEF Uids
<1>7. \A u \in Uids(Hub) : born[u].issue # i => u \in Uids(Hub)'
  BY <1>1 DEF Uids
<1>8. ASSUME NEW j \in Issues PROVE row'[Hub][j] = Shown(Hub, j)'
  <2>1. CASE j = i
    <3>1. ShownFacts'
      BY ShownNext DEF IInv
    <3>2. Shown(Hub, i)' = NoRow
      BY <1>1, <1>6, <3>1, HubTypes DEF ShownFacts
    <3> QED BY <1>1, <2>1, <3>2
  <2>2. CASE j # i
    <3>1. \A v : v \in Uids(Hub)' /\ born'[v].issue = j <=> v \in Uids(Hub) /\ born[v].issue = j
      BY <1>1, <1>6, <1>7, <2>2
    <3>2. Shown(Hub, j)' = Shown(Hub, j)
      BY <1>5, <3>1, HubTypes, ShownStays
    <3> QED BY <1>1, <2>2, <3>2 DEF PInv, HubOK, HubRows
  <2> QED BY <2>1, <2>2
<1>9. HubOK'
  <2>1. HubRows'
    BY <1>8 DEF HubRows
  <2>2. purged' \subseteq DOMAIN born' /\ hub'.reset <= last'[Hub]
    BY <1>1, <1>3, HubTypes DEF PInv, HubOK
  <2> QED BY <1>1, <1>4, <1>5, <2>1, <2>2, HubGoesOn DEF PInv
<1>10. UniqueOK'
  <2>1. \A n \in Nodes : log'[n] \subseteq log[n]
    BY <1>1
  <2> QED BY <1>1, <2>1 DEF PInv, UniqueOK, Unique
<1>11. \A s \in Spokes : SpokeStands(s)
  BY <1>1, HubApart DEF SpokeStands, SpokeStill
<1> QED BY <1>1, <1>2, <1>4, <1>5, <1>9, <1>10, <1>11, FrameStep

\* A user's edit at a spoke adds an own event above all that its log shows.
LEMMA EditAtSpokeHolds ==
    ASSUME IInv, IInv', PInv, NEW s \in Spokes, NEW i \in Issues, NEW kind \in Edits,
           NEW skew \in 1..Skew, Edit(s, i, kind, skew)
    PROVE  PInv'
<1>0. s \in Nodes /\ s # Hub /\ Hub \in Nodes
  BY HubApart
<1>a. PICK u, entry : Edited(s, i, u, entry)
  BY <1>0, EditIs
<1>1. /\ u \notin DOMAIN born /\ DOMAIN born' = DOMAIN born \cup {u}
      /\ u \in Nat /\ u > 0
      /\ \A v \in DOMAIN born : born'[v] = born[v]
      /\ born'[u].origin = s /\ born'[u].issue = i /\ born'[u].title = u
      /\ born'[u].kind # "enabled" /\ born'[u].clock > TopClock(s)
      /\ entry.id = last[s] + 1 /\ entry.uid = u /\ ~entry.pulled
      /\ log'[s] = log[s] \cup {entry} /\ \A m \in Nodes \ {s} : log'[m] = log[m]
      /\ last'[s] = last[s] + 1 /\ \A m \in Nodes \ {s} : last'[m] = last[m]
      /\ row'[s][i] = u /\ \A j \in Issues \ {i} : row'[s][j] = row[s][j]
      /\ \A m \in Nodes \ {s} : row'[m] = row[m]
      /\ UNCHANGED <<hub, purged, binding, unfinished, turn, late>>
  BY <1>a DEF Edited
<1>2. TitlesOK'
  BY <1>1 DEF PInv, TitlesOK
<1>3. HubMoves
  BY <1>0, <1>1, NoMove
<1>4. Lasting
  <2>1. \A n \in Nodes : last[n] \in Nat
    BY DEF IInv, TypeOK
  <2> QED BY <1>1, <2>1 DEF Lasting
<1>5. HubOK'
  BY <1>0, <1>1, <1>4, HubStays DEF PInv
<1>6. SpokeOK(s) /\ Uids(s) \subseteq DOMAIN born /\ \A e \in log[s] : e.uid \in DOMAIN born
  BY SpokeTypes DEF PInv, Uids
<1>7. UniqueOK'
  <2>1. Unique(log'[s])
    <3>1. Unique(log[s])
      BY <1>0 DEF PInv, UniqueOK
    <3> QED BY <1>1, <1>6, <3>1 DEF Unique
  <2>2. \A n \in Nodes : Unique(log'[n])
    BY <1>1, <2>1 DEF PInv, UniqueOK
  <2> QED BY <1>1, <2>2 DEF PInv, UniqueOK
<1>8. /\ Behind(s)' <=> Behind(s)
      /\ Coming(s)' = Coming(s)
      /\ \A h : Early(s, h)' <=> Early(s, h)
      /\ Uids(Hub)' = Uids(Hub)
  <2>1. ASSUME NEW h \in log[Hub]
        PROVE  (\E e \in log'[s] : e.pulled /\ born'[e.uid].origin # s /\ e.uid = h.uid)
                 <=> (\E e \in log[s] : e.pulled /\ born[e.uid].origin # s /\ e.uid = h.uid)
    BY <1>1, <1>6
  <2>2. Coming(s)' = Coming(s)
    BY <1>0, <1>1, <2>1 DEF Coming
  <2> QED BY <1>0, <1>1, <2>2 DEF Behind, ResetRequired, Early, Uids
<1>9. Uids(s)' = Uids(s) \cup {u}
  BY <1>1 DEF Uids
\* What the rows follow they go on following, from any cursor up to the hub's last id.
<1>10. ASSUME NEW j \in Issues, NEW c \in Nat, c <= last[Hub], j = i \/ RowsFrom(s, c, j)
       PROVE  RowsFrom(s, c, j)'
  <2>1. CASE j = i
    <3>1. \A v \in Uids(s)' : v \in Uids(s) \/ v = u \/ born'[v].issue # i
      BY <1>9
    <3>2. Shown(s, i)' = born'[u].title
      BY <1>0, <1>1, <1>4, <1>9, <3>1, ShownAbove
    <3> QED BY <1>1, <2>1, <3>2 DEF RowsFrom
  <2>2. CASE j # i
    <3>1. \A e \in log'[s] : e \in log[s] \/ born'[e.uid].issue # j
      BY <1>1, <2>2
    <3> QED BY <1>1, <1>3, <1>4, <1>10, <2>2, <3>1, RowsStay
  <2> QED BY <2>1, <2>2
<1>11. SpokeOK(s)'
  <2>1. Dominated(binding[s].horizon)'
    <3>1. PICK c \in Nat : c = binding[s].horizon
      BY SpokeTypes
    <3>2. c <= last[Hub] + 1
      BY <1>6, <3>1, HubTypes, SpokeTypes DEF SpokeOK
    <3>3. Dominated(c)'
      BY <1>3, <1>4, <1>6, <3>1, <3>2, DominatedStays DEF SpokeOK
    <3> QED BY <1>1, <3>1, <3>3 DEF Dominated
  <2>2. Kept(s)'
    <3>1. u \notin purged
      BY <1>1 DEF PInv, HubOK
    <3> QED BY <1>1, <1>6, <1>8, <3>1 DEF SpokeOK, Kept
  <2>3. Stored(s)'
    BY <1>0, <1>1, <1>6, <1>9 DEF SpokeOK, Stored
  <2>4. ASSUME NEW j \in Issues PROVE RowsFrom(s, binding[s].pull, j)'
    <3>1. PICK c \in Nat : c = binding[s].pull
      BY SpokeTypes
    <3>2. RowsFrom(s, c, j)'
      BY <1>6, <1>10, <3>1 DEF SpokeOK
    <3> QED BY <1>1, <3>1, <3>2 DEF RowsFrom, AwaitedFrom
  <2> QED BY <1>0, <1>1, <1>6, <1>8, <2>1, <2>2, <2>3, <2>4 DEF SpokeOK
<1>12. ASSUME NEW t \in Turns, At[t] = s PROVE PullOK(t)'
  <2>0. PICK r : r = turn[t] /\ r = turn'[t]
    BY <1>1
  <2>1. PullOK(t) /\ r.next \in Nat
    BY <2>0, TurnTypes DEF PInv
  <2>2. r.pc \in Applying => WholePage(t)'
    BY <1>0, <1>1, <1>8, <1>12, <2>0, <2>1 DEF PullOK, WholePage, ResetRequired
  <2>3. r.pc = "reset" => r.next <= last'[Hub] /\ Dominated(r.next + 1)'
    <3> SUFFICES ASSUME r.pc = "reset" PROVE r.next <= last'[Hub] /\ Dominated(r.next + 1)'
      OBVIOUS
    <3>1. r.next <= last[Hub] /\ Dominated(r.next + 1)
      BY <2>0, <2>1 DEF PullOK
    <3>2. PICK c \in Nat : c = r.next + 1
      BY <2>1
    <3>3. c <= last[Hub] + 1
      BY <2>1, <3>1, <3>2, HubTypes
    <3>4. Dominated(c)'
      BY <1>3, <1>4, <3>1, <3>2, <3>3, DominatedStays
    <3> QED BY <1>0, <1>1, <3>1, <3>2, <3>4
  <2>4. r.pc \in {"materialize", "advance"} =>
          /\ \A p \in r.page : p.uid \in Uids(s)'
          /\ \A j \in Issues : (r.pc = "materialize" /\ j \in r.scope) \/ RowsFrom(s, r.next, j)'
    <3> SUFFICES ASSUME r.pc \in {"materialize", "advance"}
                 PROVE  /\ \A p \in r.page : p.uid \in Uids(s)'
                        /\ \A j \in Issues : (r.pc = "materialize" /\ j \in r.scope)
                                               \/ RowsFrom(s, r.next, j)'
      OBVIOUS
    <3>1. r.next <= last[Hub]
      BY <2>0, <2>1 DEF PullOK, WholePage, Applying
    <3>2. \A j \in Issues : RowsFrom(s, r.next, j) => RowsFrom(s, r.next, j)'
      BY <1>10, <2>1, <3>1
    <3> QED BY <1>9, <1>12, <2>0, <2>1, <3>2 DEF PullOK
  <2> QED BY <1>1, <1>8, <1>12, <2>0, <2>1, <2>2, <2>3, <2>4 DEF PullOK
<1>13. ASSUME NEW x \in Spokes PROVE SpokeOK(x)'
  <2>1. CASE x = s
    BY <1>11, <2>1
  <2>2. CASE x # s
    <3>1. SpokeStill(x) /\ (unfinished[x] => unfinished'[x]) /\ SpokeOK(x)
      BY <1>1, <2>2, HubApart DEF SpokeStill, PInv
    <3> QED BY <1>3, <1>4, <3>1, SpokeStays
  <2> QED BY <2>1, <2>2
<1>14. ASSUME NEW t \in Turns PROVE PullOK(t)'
  <2>1. CASE At[t] = s
    BY <1>12, <2>1
  <2>2. CASE At[t] # s
    <3>1. At[t] \in Spokes /\ turn'[t] = turn[t] /\ PullOK(t) /\ SpokeOK(At[t])
      BY <1>1, TurnTypes DEF PInv
    <3>2. SpokeStands(At[t])
      BY <1>1, <2>2, <3>1, HubApart DEF SpokeStands, SpokeStill
    <3> QED BY <1>3, <1>4, <3>1, <3>2, PullStays
  <2> QED BY <2>1, <2>2
<1> QED BY <1>2, <1>5, <1>7, <1>13, <1>14 DEF PInv

\* What a baseline writes: above every clock, and one snapshot of each row.
Baselined(new) ==
    /\ log'[Hub] = log[Hub] \cup new /\ \A n \in Nodes \ {Hub} : log'[n] = log[n]
    /\ last[Hub] + 1 <= last'[Hub]
    /\ Unique(new)
    /\ \A e \in new : /\ e.id > last[Hub] /\ e.uid \notin DOMAIN born
                      /\ born'[e.uid].clock > TopClock(Hub)
                      /\ born'[e.uid].issue \in Issues =>
                            /\ row[Hub][born'[e.uid].issue] # NoRow
                            /\ born'[e.uid].title = row[Hub][born'[e.uid].issue]
    /\ \A d, e \in new : born'[d.uid].issue = born'[e.uid].issue => d.uid = e.uid
    /\ \A i \in Issues : row[Hub][i] # NoRow => \E e \in new : born'[e.uid].issue = i
    /\ TitlesOK'

LEMMA BaselineIs ==
    ASSUME IInv, TitlesOK, NEW skew \in 1..Skew, Baseline(skew)
    PROVE  \E new : Baselined(new)
<1> DEFINE live == {i \in Issues : row[Hub][i] # NoRow}
           clock == TopClock(Hub) + skew
           u == Len(born) + 1
           count == Cardinality(live)
           Snapshot(i) == [origin |-> Hub, clock |-> clock, kind |-> "snapshot", issue |-> i,
                           title |-> row[Hub][i]]
           Numbered(n) == CHOOSE i \in live : Nth(i, live) = n
           enabling == [origin |-> Hub, clock |-> clock, kind |-> "enabled", issue |-> 0,
                        title |-> 0]
           Entered(n) == [id |-> last[Hub] + 1 + n, uid |-> u + n, pulled |-> FALSE]
           new == {Entered(n) : n \in 0..count}
<1>1. Hub \in Nodes /\ last[Hub] \in Nat /\ row[Hub] \in [Issues -> Nat]
  BY DEF IInv, TypeOK, Nodes
<1>2. IsFiniteSet(live) /\ live \in SUBSET Nat /\ count \in Nat
  <2>1. live \in SUBSET Issues /\ IsFiniteSet(Issues) /\ Issues \subseteq Nat
    BY IssuesAssumption
  <2> HIDE DEF live
  <2> QED BY <2>1, FS_Subset, FS_CardinalityType
<1>3. TopClock(Hub) \in Nat /\ clock > TopClock(Hub)
  BY <1>1, TopClockIs, BoundsAssumption DEF IInv
<1>4. DOMAIN born = 1..Len(born) /\ Len(born) \in Nat
  BY DEF IInv, TypeOK
<1>5. /\ born' = [v \in 1..(u + count) |->
             IF v < u THEN born[v] ELSE IF v > u THEN Snapshot(Numbered(v - u)) ELSE enabling]
      /\ log' = [log EXCEPT ![Hub] = @ \cup new]
      /\ last' = [last EXCEPT ![Hub] = @ + 1 + count]
  BY DEF Baseline
<1>6. \A n \in 1..count : Numbered(n) \in live /\ Nth(Numbered(n), live) = n
  <2> SUFFICES ASSUME NEW n \in 1..count PROVE Numbered(n) \in live /\ Nth(Numbered(n), live) = n
    OBVIOUS
  <2>1. \E i \in live : Nth(i, live) = n
    <3> HIDE DEF live
    <3> QED BY <1>2, NthOnto
  <2> HIDE DEF live
  <2> QED BY <2>1
<1>7. \A i \in live : Nth(i, live) \in 1..count /\ Numbered(Nth(i, live)) = i
  <2> SUFFICES ASSUME NEW i \in live PROVE Nth(i, live) \in 1..count /\ Numbered(Nth(i, live)) = i
    OBVIOUS
  <2>1. Nth(i, live) \in 1..count
    <3> HIDE DEF live
    <3> QED BY <1>2, NthIn
  <2>2. Numbered(Nth(i, live)) \in live /\ Nth(Numbered(Nth(i, live)), live) = Nth(i, live)
    BY <1>6, <2>1
  <2> HIDE DEF live, Numbered
  <2> QED BY <1>2, <2>1, <2>2, NthOne
<1>8. \A i : /\ Snapshot(i).clock = clock /\ Snapshot(i).kind = "snapshot"
             /\ Snapshot(i).issue = i /\ Snapshot(i).title = row[Hub][i]
  OBVIOUS
<1>9. enabling.clock = clock /\ enabling.kind = "enabled" /\ enabling.issue = 0
  OBVIOUS
<1>10. \A n : Entered(n).id = last[Hub] + 1 + n /\ Entered(n).uid = u + n
  OBVIOUS
<1>11. \A i \in live : i \in Issues /\ i # 0 /\ row[Hub][i] \in Nat /\ row[Hub][i] # NoRow
  BY <1>1, IssuesAssumption
<1>12. \A i \in Issues : row[Hub][i] # NoRow => i \in live
  OBVIOUS
<1> HIDE DEF live, clock, count, Numbered, Snapshot, enabling, Entered
<1>13. /\ DOMAIN born' = 1..(u + count)
       /\ \A v \in 1..(u + count) :
             born'[v] = IF v < u THEN born[v]
                        ELSE IF v > u THEN Snapshot(Numbered(v - u)) ELSE enabling
  BY <1>5
<1>14. /\ \A v \in DOMAIN born : v \in DOMAIN born' /\ born'[v] = born[v]
       /\ u \notin DOMAIN born /\ born'[u] = enabling
  BY <1>2, <1>4, <1>13
<1>15. \A n \in 1..count : u + n \notin DOMAIN born /\ born'[u + n] = Snapshot(Numbered(n))
  <2> SUFFICES ASSUME NEW n \in 1..count
               PROVE  u + n \notin DOMAIN born /\ born'[u + n] = Snapshot(Numbered(n))
    OBVIOUS
  <2>1. u + n \in 1..(u + count) /\ ~(u + n < u) /\ u + n > u /\ (u + n) - u = n
    BY <1>2, <1>4
  <2>2. u + n \notin DOMAIN born
    BY <1>4
  <2> HIDE DEF u
  <2> QED BY <1>13, <2>1, <2>2
<1>16. \A v \in DOMAIN born' : v \in DOMAIN born \/ v = u \/ \E n \in 1..count : v = u + n
  <2> SUFFICES ASSUME NEW v \in 1..(u + count), ~(v \in 1..Len(born)), v # u
               PROVE  \E n \in 1..count : v = u + n
    BY <1>4, <1>13
  <2>1. v - u \in 1..count /\ v = u + (v - u)
    BY <1>2, <1>4
  <2> QED BY <2>1
<1>17. \A n \in 0..count : n = 0 \/ n \in 1..count
  BY <1>2
<1>18. \A n \in 0..count : /\ u + n \notin DOMAIN born
                           /\ born'[u + n] = IF n = 0 THEN enabling ELSE Snapshot(Numbered(n))
  <2>1. u + 0 = u
    BY <1>4
  <2>2. \A n \in 1..count : n # 0
    OBVIOUS
  <2> HIDE DEF u
  <2> QED BY <1>14, <1>15, <1>17, <2>1, <2>2
<1>19. \A e \in new : \E n \in 0..count : e = Entered(n)
  OBVIOUS
<1>20. \A n \in 0..count : Entered(n) \in new
  OBVIOUS
<1>21. /\ log'[Hub] = log[Hub] \cup new /\ \A n \in Nodes \ {Hub} : log'[n] = log[n]
       /\ last[Hub] + 1 <= last'[Hub]
  <2>1. last'[Hub] = last[Hub] + 1 + count
    BY <1>1, <1>5 DEF IInv, TypeOK
  <2>2. log'[Hub] = log[Hub] \cup new /\ \A n \in Nodes \ {Hub} : log'[n] = log[n]
    <3> HIDE DEF new
    <3> QED BY <1>1, <1>5 DEF IInv, TypeOK
  <2> QED BY <1>1, <1>2, <2>1, <2>2
<1>22. u \in Nat
  BY <1>4
<1> HIDE DEF new, u
<1>23. Unique(new)
  BY <1>1, <1>2, <1>10, <1>19, <1>22 DEF Unique
<1>24. ASSUME NEW n \in 0..count, Entered(n) \in new
       PROVE  /\ Entered(n).id > last[Hub] /\ Entered(n).uid \notin DOMAIN born
              /\ born'[Entered(n).uid].clock > TopClock(Hub)
              /\ born'[Entered(n).uid].issue \in Issues =>
                            /\ row[Hub][born'[Entered(n).uid].issue] # NoRow
                            /\ born'[Entered(n).uid].title = row[Hub][born'[Entered(n).uid].issue]
  <2>1. Entered(n).id > last[Hub]
    BY <1>1, <1>10
  <2>2. CASE n = 0
    <3>1. born'[Entered(n).uid] = enabling
      BY <1>10, <1>18, <2>2
    <3>2. 0 \notin Issues
      BY IssuesAssumption
    <3> QED BY <1>3, <1>9, <1>10, <1>18, <2>1, <3>1, <3>2
  <2>3. CASE n \in 1..count
    <3>1. born'[Entered(n).uid] = Snapshot(Numbered(n))
      BY <1>10, <1>15, <2>3
    <3> QED BY <1>3, <1>6, <1>8, <1>10, <1>11, <1>18, <2>1, <2>3, <3>1
  <2> QED BY <1>17, <2>2, <2>3
<1>25. ASSUME NEW m \in 0..count, NEW n \in 0..count,
              born'[Entered(m).uid].issue = born'[Entered(n).uid].issue
       PROVE  m = n
  <2>1. \A k \in 0..count : born'[Entered(k).uid].issue = IF k = 0 THEN 0 ELSE Numbered(k)
    BY <1>8, <1>9, <1>10, <1>18
  <2>2. \A k \in 1..count : Numbered(k) # 0 /\ Nth(Numbered(k), live) = k
    BY <1>6, <1>11
  <2> QED BY <1>17, <1>25, <2>1, <2>2
<1>26. ASSUME NEW i \in Issues, row[Hub][i] # NoRow PROVE \E e \in new : born'[e.uid].issue = i
  <2>1. i \in live
    BY <1>12, <1>26
  <2>2. PICK n \in 1..count : Numbered(n) = i
    BY <1>7, <2>1
  <2>3. born'[Entered(n).uid].issue = i
    BY <1>8, <1>10, <1>15, <2>2
  <2>4. n \in 0..count
    BY <1>2
  <2> QED BY <1>20, <2>3, <2>4
<1>27. TitlesOK'
  <2> SUFFICES ASSUME NEW v \in DOMAIN born'
               PROVE  /\ born'[v].kind = "enabled" => born'[v].issue = 0
                      /\ born'[v].issue # 0 => born'[v].title > 0
    BY DEF TitlesOK
  <2>1. CASE v \in DOMAIN born
    BY <1>14, <2>1 DEF TitlesOK
  <2>2. CASE v = u
    BY <1>9, <1>14, <2>2
  <2>3. CASE \E n \in 1..count : v = u + n
    <3>1. PICK n \in 1..count : v = u + n
      BY <2>3
    <3> QED BY <1>6, <1>8, <1>11, <1>15, <3>1 DEF NoRow
  <2> QED BY <1>16, <2>1, <2>2, <2>3
<1>28. Baselined(new)
  <2>1. \A e \in new : /\ e.id > last[Hub] /\ e.uid \notin DOMAIN born
                       /\ born'[e.uid].clock > TopClock(Hub)
                       /\ born'[e.uid].issue \in Issues =>
                            /\ row[Hub][born'[e.uid].issue] # NoRow
                            /\ born'[e.uid].title = row[Hub][born'[e.uid].issue]
    BY <1>19, <1>24
  <2>2. \A d, e \in new : born'[d.uid].issue = born'[e.uid].issue => d.uid = e.uid
    BY <1>19, <1>25
  <2> QED BY <1>21, <1>23, <1>26, <1>27, <2>1, <2>2 DEF Baselined
<1> QED BY <1>28

\* A baseline dominates all that the log holds of any issue.
LEMMA BaselineStands ==
    ASSUME IInv, IInv', Lasting, PInv, NEW new, Baselined(new), row' = row,
           hub'.reset = hub.reset, purged' = purged, NEW c \in Nat, c = last[Hub] + 1
    PROVE  /\ HubMoves /\ TitlesOK' /\ HubRows' /\ Dominated(c)'
           /\ \A n \in Nodes : Unique(log'[n])
           /\ purged' \subseteq DOMAIN born' /\ hub'.reset <= last'[Hub]
<1>1. /\ log'[Hub] = log[Hub] \cup new /\ \A n \in Nodes \ {Hub} : log'[n] = log[n]
      /\ last[Hub] + 1 <= last'[Hub] /\ Unique(new) /\ TitlesOK'
  BY DEF Baselined
<1>2. \A e \in new : /\ e.id > last[Hub] /\ e.uid \notin DOMAIN born
                     /\ born'[e.uid].clock > TopClock(Hub)
                     /\ born'[e.uid].issue \in Issues =>
                            /\ row[Hub][born'[e.uid].issue] # NoRow
                            /\ born'[e.uid].title = row[Hub][born'[e.uid].issue]
  BY DEF Baselined
<1>3. \A i \in Issues : row[Hub][i] # NoRow => \E e \in new : born'[e.uid].issue = i
  BY DEF Baselined
<1>4. \A d, e \in new : born'[d.uid].issue = born'[e.uid].issue => d.uid = e.uid
  BY DEF Baselined
<1>5. HubMoves /\ \A n \in Nodes : Unique(log'[n])
  <2>1. \A e \in new : e.id > last[Hub] /\ e.uid \notin Uids(Hub)
    BY <1>2, HubTypes DEF Uids
  <2> QED BY <1>1, <2>1, HubAdds DEF PInv
<1>6. Uids(Hub)' = Uids(Hub) \cup {e.uid : e \in new}
  BY <1>1 DEF Uids
<1>7. \A u \in Uids(Hub) : u \in DOMAIN born /\ born'[u] = born[u]
  BY HubTypes DEF Lasting
<1>8. HubRows'
  <2> SUFFICES ASSUME NEW i \in Issues PROVE row'[Hub][i] = Shown(Hub, i)'
    BY DEF HubRows
  <2>1. row'[Hub][i] = row[Hub][i] /\ row[Hub][i] = Shown(Hub, i)
    BY DEF PInv, HubOK, HubRows
  <2>2. CASE row[Hub][i] # NoRow
    <3>1. PICK e \in new : born'[e.uid].issue = i
      BY <1>3, <2>2
    <3>2. \A u \in Uids(Hub)' : u \in Uids(Hub) \/ u = e.uid \/ born'[u].issue # i
      BY <1>4, <1>6, <3>1
    <3>3. PICK m : m = e.uid
      OBVIOUS
    <3>4. m \in Uids(Hub)' /\ m \notin DOMAIN born /\ born'[m].issue = i
          /\ born'[m].clock > TopClock(Hub)
      BY <1>2, <1>6, <3>1, <3>3
    <3>5. \A u \in Uids(Hub)' : u \in Uids(Hub) \/ u = m \/ born'[u].issue # i
      BY <3>2, <3>3
    <3>6. Shown(Hub, i)' = born'[m].title
      BY <3>4, <3>5, HubTypes, ShownAbove
    <3> QED BY <1>2, <2>1, <3>1, <3>3, <3>6
  <2>3. CASE row[Hub][i] = NoRow
    <3>1. \A e \in new : born'[e.uid].issue # i
      BY <1>2, <2>3
    <3>2. \A v : v \in Uids(Hub)' /\ born'[v].issue = i <=> v \in Uids(Hub) /\ born[v].issue = i
      BY <1>6, <1>7, <3>1
    <3>3. Shown(Hub, i)' = Shown(Hub, i)
      BY <3>2, HubTypes, ShownStays
    <3> QED BY <2>1, <3>3
  <2> QED BY <2>2, <2>3
<1>9. Dominated(c)'
  <2>1. ASSUME NEW h \in log'[Hub], h.id < c, born'[h.uid].issue \in Issues
        PROVE  \E g \in log'[Hub] : /\ g.id >= c /\ born'[g.uid].issue = born'[h.uid].issue
                                    /\ Before(h.uid, g.uid)'
    <3>1. h \in log[Hub]
      <4>1. ~(h.id > last[Hub])
        BY <2>1, HubTypes, HubTypesNext
      <4> QED BY <1>1, <1>2, <4>1
    <3>2. PICK i \in Issues : i = born[h.uid].issue /\ h.uid \in Uids(Hub)
      BY <1>7, <2>1, <3>1, HubTypes
    <3>3. Shown(Hub, i) # NoRow
      <4>1. PICK m \in Uids(Hub) : Top(Hub, i, m) /\ Shown(Hub, i) = born[m].title
        BY <3>2, HubTypes, ShownIs DEF IInv, ShownFacts
      <4>2. born[m].issue = i /\ i # 0 /\ m \in DOMAIN born
        BY <1>7, <4>1, IssuesAssumption DEF Top
      <4>3. born[m].title > 0
        BY <4>2 DEF PInv, TitlesOK
      <4> QED BY <4>1, <4>3 DEF NoRow
    <3>4. PICK e \in new : born'[e.uid].issue = i
      BY <1>3, <3>3 DEF PInv, HubOK, HubRows
    <3>5. e \in log'[Hub] /\ e.id > last[Hub] /\ born'[e.uid].clock > TopClock(Hub)
      BY <1>1, <1>2, <3>4
    <3>6. TopClock(Hub) \in Nat /\ born[h.uid].clock <= TopClock(Hub)
      BY <3>2, HubTypes, TopClockIs DEF IInv
    <3>7. born[h.uid].clock \in Nat /\ born'[e.uid].clock \in Nat
      BY <1>7, <3>2, <3>5, HubTypesNext, BornIs, BornNext DEF IInv, BornFacts
    <3>8. born'[h.uid].clock < born'[e.uid].clock
      BY <1>7, <3>2, <3>5, <3>6, <3>7
    <3>9. Before(h.uid, e.uid)'
      BY <3>8 DEF Before
    <3>10. e.id >= c
      BY <3>5, HubTypes, HubTypesNext
    <3> QED BY <1>7, <3>2, <3>4, <3>5, <3>9, <3>10
  <2> QED BY <2>1 DEF Dominated
<1>10. purged' \subseteq DOMAIN born' /\ hub'.reset <= last'[Hub]
  BY <1>1, HubTypes, HubTypesNext DEF PInv, HubOK, Lasting
<1> QED BY <1>1, <1>5, <1>8, <1>9, <1>10

LEMMA BaselineLasts ==
    ASSUME IInv, NEW skew \in 1..Skew, Baseline(skew), UNCHANGED <<purged, spokeVars>>
    PROVE  Lasting
<1>1. skew \in Nat
  BY BoundsAssumption
<1>2. Grows
  BY <1>1, BaselineAdds DEF spokeVars
<1> QED BY <1>2 DEF Grows, Lasting

LEMMA RefreshHolds ==
    ASSUME IInv, IInv', PInv, NEW skew \in 1..Skew, Refresh(skew)
    PROVE  PInv'
<1>0. PICK c \in Nat : c = last[Hub] + 1
  BY HubTypes
<1>1. /\ Baseline(skew) /\ UNCHANGED <<row, purged, spokeVars, turn, late>>
      /\ hub'.reset = hub.reset /\ hub'.horizon = last[Hub] + 1
  BY DEF Refresh, IInv, TypeOK
<1>2. PICK new : Baselined(new)
  BY <1>1, BaselineIs DEF PInv
<1>3. Lasting
  BY <1>1, BaselineLasts
<1>4. /\ HubMoves /\ TitlesOK' /\ HubRows' /\ Dominated(c)'
      /\ \A n \in Nodes : Unique(log'[n])
      /\ purged' \subseteq DOMAIN born' /\ hub'.reset <= last'[Hub]
  BY <1>0, <1>1, <1>2, <1>3, BaselineStands
<1>5. HubOK'
  <2>1. Dominated(hub.horizon)'
    BY <1>0, <1>1, <1>4 DEF Dominated
  <2>2. hub'.horizon <= last'[Hub] + 1
    BY <1>1, <1>3, HubTypes, HubTypesNext DEF Lasting
  <2> QED BY <1>4, <2>1, <2>2 DEF HubOK
<1>6. UniqueOK'
  BY <1>1, <1>4 DEF PInv, UniqueOK
<1>7. \A s \in Spokes : SpokeStands(s)
  BY <1>1, <1>2, HubApart DEF SpokeStands, SpokeStill, Baselined, spokeVars
<1> QED BY <1>1, <1>3, <1>4, <1>5, <1>6, <1>7, FrameStep

\* A spoke starts over at a baseline: the hub's own, or one that is written for it.
LEMMA FetchHorizonHolds ==
    ASSUME IInv, IInv', PInv, NEW t \in Turns, NEW skew \in 1..Skew, FetchHorizon(t, skew)
    PROVE  PInv'
<1> DEFINE r == [turn[t] EXCEPT !.pc = "reset", !.next = hub'.horizon - 1]
<1>1. /\ turn[t].pc = "horizon" /\ turn' = [turn EXCEPT ![t] = r] /\ turn[t] \in Turn
      /\ UNCHANGED <<row, purged, spokeVars, late>>
  BY TurnTypes DEF FetchHorizon
<1>2. /\ r.pc = "reset" /\ r.next = hub'.horizon - 1 /\ r.resume = turn[t].resume
      /\ r.todo = turn[t].todo /\ r.pull = turn[t].pull /\ r.page = turn[t].page
  BY <1>1 DEF Turn
<1>3. turn'[t] = r /\ \A o \in Turns \ {t} : turn'[o] = turn[o]
  BY <1>1 DEF IInv, TypeOK
<1>c. PICK q : q = r
  OBVIOUS
<1> HIDE DEF r
<1>4. /\ Mode[t] # "push" /\ At[t] \in Spokes /\ SpokeOK(At[t]) /\ PullOK(t)
      /\ turn[t].pull = binding[At[t]].pull /\ unfinished[At[t]]
      /\ Unique(turn[t].todo) /\ Unique(turn[t].page)
  BY <1>1, PullerIs DEF Starting
<1>5. /\ Lasting /\ HubMoves /\ TitlesOK' /\ HubOK'
      /\ \A n \in Nodes : Unique(log'[n])
      /\ \A n \in Nodes \ {Hub} : log'[n] = log[n]
  <2>1. CASE Baseline(skew) /\ hub' = [hub EXCEPT !.horizon = last[Hub] + 1]
    <3>0. PICK c \in Nat : c = last[Hub] + 1
      BY HubTypes
    <3>1. hub'.reset = hub.reset /\ hub'.horizon = last[Hub] + 1
      BY <2>1 DEF IInv, TypeOK
    <3>2. PICK new : Baselined(new)
      BY <2>1, BaselineIs DEF PInv
    <3>3. Lasting
      BY <1>1, <2>1, BaselineLasts
    <3>4. /\ HubMoves /\ TitlesOK' /\ HubRows' /\ Dominated(c)'
          /\ \A n \in Nodes : Unique(log'[n])
          /\ purged' \subseteq DOMAIN born' /\ hub'.reset <= last'[Hub]
      BY <1>1, <3>0, <3>1, <3>2, <3>3, BaselineStands
    <3>5. Dominated(hub.horizon)'
      BY <3>0, <3>1, <3>4 DEF Dominated
    <3>6. hub'.horizon <= last'[Hub] + 1
      BY <3>1, <3>3, HubTypes, HubTypesNext DEF Lasting
    <3> QED BY <3>2, <3>3, <3>4, <3>5, <3>6 DEF HubOK, Baselined
  <2>2. CASE UNCHANGED <<born, log, last, hub>>
    <3>1. Lasting /\ HubMoves
      BY <1>1, <2>2, NothingNew, NoMove
    <3>2. TitlesOK' /\ HubOK'
      BY <1>1, <2>2, <3>1, TitlesStay, HubStays DEF PInv
    <3> QED BY <2>2, <3>1, <3>2 DEF PInv, UniqueOK
  <2> QED BY <2>1, <2>2 DEF FetchHorizon
<1>6. PullOK(t)'
  <2>1. PICK c \in Nat : c = hub'.horizon
    BY HubTypesNext
  <2>2. hub'.horizon >= 1
    BY DEF IInv, CursorsOK
  <2>3. q.next <= last'[Hub] /\ q.next + 1 = c
    BY <1>2, <1>c, <1>5, <2>1, <2>2, HubTypesNext DEF HubOK
  <2>4. Dominated(q.next + 1)'
    <3>1. Dominated(c)'
      BY <1>5, <2>1 DEF HubOK, Dominated
    <3> QED BY <2>3, <3>1
  <2>5. Behind(At[t])' \/ Coming(At[t])' = {} \/ r.resume
    <3>1. Behind(At[t]) \/ Coming(At[t]) = {} \/ r.resume
      BY <1>1, <1>2, <1>4 DEF PullOK, Starting
    <3>2. Behind(At[t]) => Behind(At[t])'
      BY <1>1, <1>4, <1>5, BehindStays DEF SpokeOK, spokeVars
    <3>3. Coming(At[t])' # {} => Coming(At[t]) # {} \/ Behind(At[t])
      BY <1>1, <1>4, <1>5, HubApart, ComingStays DEF SpokeOK, spokeVars
    <3> QED BY <3>1, <3>2, <3>3
  <2> QED BY <1>1, <1>2, <1>3, <1>c, <1>4, <2>3, <2>4, <2>5 DEF PullOK, Starting, Applying, Calm, spokeVars
<1>7. UniqueOK'
  BY <1>1, <1>2, <1>3, <1>4, <1>5 DEF PInv, UniqueOK
<1>8. \A s \in Spokes : SpokeStands(s)
  BY <1>1, <1>5, HubApart DEF SpokeStands, SpokeStill, spokeVars
<1> QED BY <1>3, <1>5, <1>6, <1>7, <1>8, FrameStep

\* A batch adds what is new of it, and the rows of its issues are the fold again.
LEMMA IngestIs ==
    ASSUME IInv, IInv', PInv, NEW batch \in SUBSET Sent, IsFiniteSet({e.id : e \in batch}),
           \A e \in batch : e.uid \in DOMAIN born, Unique(batch),
           Ingest(batch), UNCHANGED <<born, hubVars, spokeVars>>
    PROVE  /\ Lasting /\ HubMoves /\ HubOK' /\ \A n \in Nodes : Unique(log'[n])
           /\ \A s \in Spokes : SpokeStands(s)
<1> DEFINE fresh == {e \in batch : e.uid \notin Uids(Hub)}
           ids == {e.id : e \in fresh}
           Entered(e) == [id |-> last[Hub] + Nth(e.id, ids), uid |-> e.uid, pulled |-> FALSE]
           stored == {Entered(e) : e \in fresh}
           all == Uids(Hub) \cup {e.uid : e \in fresh}
           scope == {born[e.uid].issue : e \in fresh}
<1>1. Hub \in Nodes /\ last[Hub] \in Nat
  BY HubTypes
<1>2. \A e \in fresh : Nth(e.id, ids) \in Nat /\ Nth(e.id, ids) > 0
  <2>1. IsFiniteSet(ids) /\ ids \in SUBSET Nat
    <3>1. ids \subseteq {e.id : e \in batch} /\ ids \subseteq Nat
      BY DEF Sent
    <3> HIDE DEF ids
    <3> QED BY <3>1, FS_Subset
  <2>2. \A e \in fresh : e.id \in ids
    OBVIOUS
  <2>3. \A x \in ids : Nth(x, ids) \in 1..Cardinality(ids) /\ Cardinality(ids) \in Nat
    <3> HIDE DEF ids
    <3> QED BY <2>1, NthIn
  <2> HIDE DEF ids
  <2> QED BY <2>2, <2>3
<1>3. /\ log' = [log EXCEPT ![Hub] = @ \cup stored]
      /\ row' = Refolded(Hub, all, scope)
  BY DEF Ingest
<1>4. \A e \in fresh : /\ Entered(e).id = last[Hub] + Nth(e.id, ids) /\ Entered(e).uid = e.uid
                       /\ Entered(e) \in stored
  OBVIOUS
<1>5. \A d \in stored : \E e \in fresh : d = Entered(e)
  OBVIOUS
<1> HIDE DEF ids, stored, Entered
<1>6. log'[Hub] = log[Hub] \cup stored /\ \A n \in Nodes \ {Hub} : log'[n] = log[n]
  BY <1>1, <1>3 DEF IInv, TypeOK
<1>7. Lasting
  <2>1. Grows
    BY IngestAdds DEF hubVars, spokeVars
  <2> QED BY <2>1 DEF Grows, Lasting
<1>8. HubMoves /\ \A n \in Nodes : Unique(log'[n])
  <2>1. \A e \in stored : e.id > last[Hub] /\ e.uid \notin Uids(Hub)
    BY <1>1, <1>2, <1>4, <1>5
  <2>2. Unique(stored)
    <3> SUFFICES ASSUME NEW d \in fresh, NEW e \in fresh, Entered(d).uid = Entered(e).uid
                 PROVE  Entered(d).id = Entered(e).id
      BY <1>5 DEF Unique
    <3>1. d.id = e.id
      BY <1>4 DEF Unique
    <3> QED BY <1>4, <3>1
  <2>3. hub'.reset = hub.reset /\ purged' = purged
    BY DEF hubVars
  <2> QED BY <1>6, <2>1, <2>2, <2>3, HubAdds DEF PInv
<1>9. Uids(Hub)' = all
  <2>1. {g.uid : g \in stored} = {e.uid : e \in fresh}
    <3> HIDE DEF fresh
    <3> QED BY <1>4, <1>5
  <2> QED BY <1>6, <2>1 DEF Uids
<1>10. all \subseteq DOMAIN born /\ born' = born
  BY HubTypes
<1>11. /\ \A i \in Issues : row'[Hub][i] = IF i \in scope THEN Fold(all, i) ELSE row[Hub][i]
       /\ \A n \in Nodes \ {Hub} : row'[n] = row[n]
  <2> HIDE DEF all, scope
  <2> QED BY <1>1, <1>3 DEF Refolded, IInv, TypeOK
<1>12. HubRows'
  <2> SUFFICES ASSUME NEW i \in Issues PROVE row'[Hub][i] = Shown(Hub, i)'
    BY DEF HubRows
  <2>1. CASE i \in scope
    <3>1. \E u \in Uids(Hub)' : born'[u].issue = i
      BY <1>9, <1>10, <2>1
    <3>2. PICK m \in Uids(Hub)' : Top(Hub, i, m)' /\ Shown(Hub, i)' = born'[m].title
      BY <1>1, <3>1, ShownNext DEF IInv, ShownFacts
    <3>3. m \in all /\ born[m].issue = i
          /\ \A v \in all : born[v].issue = i => v = m \/ Before(v, m)
      BY <1>9, <1>10, <3>2, OrderStays DEF Top
    <3>4. Fold(all, i) = born[m].title
      <4> HIDE DEF all
      <4> QED BY <1>10, <3>3, FoldTop DEF IInv
    <3> QED BY <1>10, <1>11, <2>1, <3>2, <3>4
  <2>2. CASE i \notin scope
    <3>1. \A v : v \in Uids(Hub)' /\ born'[v].issue = i <=> v \in Uids(Hub) /\ born[v].issue = i
      BY <1>9, <1>10, <2>2
    <3>2. Shown(Hub, i)' = Shown(Hub, i)
      BY <1>1, <1>7, <3>1, ShownStays
    <3> QED BY <1>11, <2>2, <3>2 DEF PInv, HubOK, HubRows
  <2> QED BY <2>1, <2>2
<1>13. HubOK'
  <2>1. hub'.reset <= last'[Hub] /\ hub'.horizon = hub.horizon /\ purged' \subseteq DOMAIN born'
    BY <1>7, <1>10, HubTypes, HubTypesNext DEF PInv, HubOK, Lasting, hubVars
  <2> QED BY <1>7, <1>8, <1>12, <2>1, HubGoesOn DEF PInv
<1>14. \A s \in Spokes : SpokeStands(s)
  BY <1>6, <1>11, HubApart DEF SpokeStands, SpokeStill, spokeVars
<1> QED BY <1>7, <1>8, <1>13, <1>14

LEMMA PushAcceptedHolds ==
    ASSUME IInv, IInv', PInv, NEW t \in Turns, NEW id \in {e.id : e \in turn[t].todo},
           PushAccepted(t, id)
    PROVE  PInv'
<1> DEFINE r == [turn[t] EXCEPT !.pc = "acked", !.ack = id]
<1>1. /\ turn[t] \in Turn /\ turn[t].pc = "send" /\ turn' = [turn EXCEPT ![t] = r]
      /\ Ingest(BatchTo(t, id)) /\ UNCHANGED <<born, hubVars, spokeVars, late>>
  BY TurnTypes DEF PushAccepted
<1>2. r.pc = "acked" /\ r.todo = turn[t].todo /\ r.pull = turn[t].pull /\ r.page = turn[t].page
  BY <1>1 DEF Turn
<1>3. turn'[t] = r /\ \A o \in Turns \ {t} : turn'[o] = turn[o]
  BY <1>1 DEF IInv, TypeOK
<1> HIDE DEF r
<1>4. Unique(BatchTo(t, id))
  BY DEF PInv, UniqueOK, Unique, BatchTo
<1>5. /\ Lasting /\ HubMoves /\ HubOK' /\ \A n \in Nodes : Unique(log'[n])
      /\ \A s \in Spokes : SpokeStands(s)
  BY <1>1, <1>4, TodoFinite, IngestIs
<1>6. PullOK(t)'
  <2>1. CASE Mode[t] # "push"
    <3>1. turn[t].pull = binding[At[t]].pull
      BY <1>1, <2>1 DEF PInv, PullOK
    <3> QED BY <1>1, <1>2, <1>3, <2>1, <3>1, CalmOK DEF Calm, spokeVars
  <2>2. CASE Mode[t] = "push"
    BY <1>2, <1>3, <2>2 DEF PullOK, Calm, Starting, Applying
  <2> QED BY <2>1, <2>2
<1>7. UniqueOK'
  BY <1>1, <1>2, <1>3, <1>5 DEF PInv, UniqueOK
<1>8. TitlesOK'
  BY <1>1, TitlesStay DEF PInv
<1> QED BY <1>3, <1>5, <1>6, <1>7, <1>8, FrameStep

LEMMA LateArrivalHolds ==
    ASSUME IInv, IInv', PInv, NEW request \in late, LateArrival(request)
    PROVE  PInv'
<1>1. /\ request.entries \in SUBSET Sent /\ IsFiniteSet({e.id : e \in request.entries})
      /\ \A e \in request.entries : e.uid \in DOMAIN born
      /\ Unique(request.entries)
  BY DEF IInv, TypeOK, LateOK, PInv, UniqueOK
<1>2. UNCHANGED <<born, hubVars, spokeVars, turn>> /\ late' \subseteq late
      /\ Ingest(request.entries)
  BY DEF LateArrival
<1>3. /\ Lasting /\ HubMoves /\ HubOK' /\ \A n \in Nodes : Unique(log'[n])
      /\ \A s \in Spokes : SpokeStands(s)
  BY <1>1, <1>2, IngestIs
<1>4. UniqueOK'
  BY <1>2, <1>3 DEF PInv, UniqueOK
<1>5. TitlesOK'
  BY <1>2, TitlesStay DEF PInv
<1> QED BY <1>2, <1>3, <1>4, <1>5, FrameStep

---------------------------------------------------------------------------
(* Every behaviour                                                         *)

\* A hub whose first baseline holds one snapshot of each founding issue.
LEMMA PullsFromTheStart ==
    ASSUME Init
    PROVE  PInv
<1> DEFINE founded == Cardinality(Founding)
           Numbered(n) == CHOOSE i \in Founding : Nth(i, Founding) = n
           First(u) ==
               [origin |-> Hub,
                clock |-> IF u <= founded THEN u ELSE founded + 1,
                kind |-> IF u <= founded THEN "created"
                         ELSE IF u = founded + 1 THEN "enabled" ELSE "snapshot",
                issue |-> IF u <= founded THEN Numbered(u)
                          ELSE IF u = founded + 1 THEN 0 ELSE Numbered(u - founded - 1),
                title |-> IF u <= founded THEN u
                          ELSE IF u = founded + 1 THEN 0 ELSE u - founded - 1]
           all == 1..(2 * founded + 1)
           entries == {[id |-> u, uid |-> u, pulled |-> FALSE] : u \in all}
<1>0. IInv
  BY StartsWell
<1>1. /\ born = [u \in all |-> First(u)]
      /\ log = [n \in Nodes |-> IF n = Hub THEN entries ELSE {}]
      /\ last = [n \in Nodes |-> IF n = Hub THEN 2 * founded + 1 ELSE 0]
      /\ row = [n \in Nodes |-> [i \in Issues |->
                   IF n = Hub /\ i \in Founding THEN Nth(i, Founding) ELSE NoRow]]
      /\ hub = [horizon |-> founded + 1, reset |-> 0, refresh |-> FALSE, purges |-> 0]
      /\ binding = [s \in Spokes |-> [push |-> 0, pull |-> founded, horizon |-> founded + 1]]
      /\ turn = [t \in Turns |-> Resting]
      /\ late = {} /\ purged = {}
  BY DEF Init
<1>2. Founding \in SUBSET Nat /\ IsFiniteSet(Founding) /\ founded \in Nat
  <2>1. IsFiniteSet(Founding)
    BY IssuesAssumption, FS_Subset
  <2> QED BY <2>1, IssuesAssumption, FS_CardinalityType
<1>3. \A n \in 1..founded : Numbered(n) \in Founding /\ Nth(Numbered(n), Founding) = n
  BY <1>2, NthOnto
<1>4. \A i \in Founding : Nth(i, Founding) \in 1..founded /\ Numbered(Nth(i, Founding)) = i
  <2> SUFFICES ASSUME NEW i \in Founding
               PROVE  Nth(i, Founding) \in 1..founded /\ Numbered(Nth(i, Founding)) = i
    OBVIOUS
  <2>1. Nth(i, Founding) \in 1..founded
    BY <1>2, NthIn
  <2>2. Numbered(Nth(i, Founding)) \in Founding
        /\ Nth(Numbered(Nth(i, Founding)), Founding) = Nth(i, Founding)
    BY <1>3, <2>1
  <2> HIDE DEF Numbered
  <2> QED BY <1>2, <2>1, <2>2, NthOne
<1> HIDE DEF founded, Numbered
<1>5. DOMAIN born = all /\ Hub \in Nodes
  BY <1>1, HubApart
\* Creations, the enabling event, and a snapshot for each creation.
<1>6. ASSUME NEW u \in all
      PROVE  \/ /\ u \in 1..founded
                /\ born[u].clock = u /\ born[u].kind = "created"
                /\ born[u].issue = Numbered(u) /\ born[u].title = u
             \/ u = founded + 1 /\ born[u].kind = "enabled" /\ born[u].issue = 0
             \/ \E n \in 1..founded : /\ u = n + founded + 1
                  /\ born[u].clock = founded + 1 /\ born[u].kind = "snapshot"
                  /\ born[u].issue = Numbered(n) /\ born[u].title = n
  <2>1. born[u] = First(u)
    BY <1>1
  <2>2. CASE u \in 1..founded
    BY <1>2, <2>1, <2>2
  <2>3. CASE u = founded + 1
    BY <1>2, <2>1, <2>3
  <2>4. CASE u > founded + 1
    <3>1. u - founded - 1 \in 1..founded /\ u = (u - founded - 1) + founded + 1
      BY <1>2, <2>4
    <3>2. born[u].clock = founded + 1 /\ born[u].kind = "snapshot"
          /\ born[u].issue = Numbered(u - founded - 1) /\ born[u].title = u - founded - 1
      BY <1>2, <2>1, <2>4
    <3> QED BY <3>1, <3>2
  <2>5. u \in 1..founded \/ u = founded + 1 \/ u > founded + 1
    BY <1>2
  <2> QED BY <2>2, <2>3, <2>4, <2>5
<1> HIDE DEF First
<1>7. ASSUME NEW n \in 1..founded
      PROVE  /\ n + founded + 1 \in all /\ n \in all
             /\ born[n + founded + 1].clock = founded + 1
             /\ born[n + founded + 1].issue = Numbered(n) /\ born[n + founded + 1].title = n
             /\ born[n].clock = n /\ born[n].issue = Numbered(n)
  <2>1. PICK u : u = n + founded + 1
    OBVIOUS
  <2>2. u \in all /\ n \in all /\ u \notin 1..founded /\ u # founded + 1 /\ n # founded + 1
    BY <1>2, <2>1
  <2>3. \A m \in 1..founded : (m + founded + 1 = u => m = n) /\ m + founded + 1 # n
    BY <1>2, <2>1
  <2>4. born[u].clock = founded + 1 /\ born[u].issue = Numbered(n) /\ born[u].title = n
    BY <1>6, <2>2, <2>3
  <2>5. born[n].clock = n /\ born[n].issue = Numbered(n)
    BY <1>6, <2>2, <2>3
  <2> QED BY <2>1, <2>2, <2>4, <2>5
<1>8. log[Hub] = entries /\ \A s \in Spokes : s \in Nodes /\ s # Hub /\ log[s] = {}
  BY <1>1, HubApart
<1>9. Uids(Hub) = all /\ \A e \in log[Hub] : e.id = e.uid /\ e.id \in all
  <2>1. \A e \in entries : e.id = e.uid /\ e.id \in all
    OBVIOUS
  <2>2. \A u \in all : \E e \in entries : e.uid = u
    <3> SUFFICES ASSUME NEW u \in all PROVE \E e \in entries : e.uid = u
      OBVIOUS
    <3>1. [id |-> u, uid |-> u, pulled |-> FALSE] \in entries
      OBVIOUS
    <3> QED BY <3>1
  <2> HIDE DEF entries, all
  <2> QED BY <1>8, <2>1, <2>2 DEF Uids
<1>10. \A u \in all : [id |-> u, uid |-> u, pulled |-> FALSE] \in log[Hub]
  BY <1>8
<1>11. 0 \notin Issues /\ Founding \subseteq Issues
  BY IssuesAssumption
<1>12. \A m, n \in 1..founded : Numbered(m) = Numbered(n) => m = n
  BY <1>3
<1>13. TitlesOK
  <2> SUFFICES ASSUME NEW u \in all
               PROVE  /\ born[u].kind = "enabled" => born[u].issue = 0
                      /\ born[u].issue # 0 => born[u].title > 0
    BY <1>5 DEF TitlesOK
  <2> QED BY <1>6
<1> HIDE DEF all, entries
\* An issue's creation and its snapshot.
<1>14. ASSUME NEW n \in 1..founded, NEW u \in all, born[u].issue = Numbered(n)
       PROVE  u = n \/ u = n + founded + 1
  <2>1. Numbered(n) # 0
    BY <1>3, <1>11
  <2> QED BY <1>6, <1>12, <1>14, <2>1
<1>15. ASSUME NEW n \in 1..founded PROVE Before(n, n + founded + 1)
  <2>1. n < founded + 1
    BY <1>2
  <2> QED BY <1>7, <2>1 DEF Before
<1>16. HubRows
  <2> SUFFICES ASSUME NEW i \in Issues PROVE row[Hub][i] = Shown(Hub, i)
    BY DEF HubRows
  <2>1. ShownFacts
    BY <1>0, ShownIs DEF IInv
  <2>2. CASE i \in Founding
    <3>1. PICK n \in 1..founded : n = Nth(i, Founding) /\ Numbered(n) = i
      BY <1>4, <2>2
    <3>2. PICK m : m = n + founded + 1
      OBVIOUS
    <3>3. m \in Uids(Hub) /\ born[m].issue = i /\ born[m].title = n
      BY <1>7, <1>9, <3>1, <3>2
    <3>4. Top(Hub, i, m)
      BY <1>9, <1>14, <1>15, <3>1, <3>2, <3>3 DEF Top
    <3>5. Shown(Hub, i) = n
      BY <1>5, <2>1, <3>3, <3>4 DEF ShownFacts
    <3> QED BY <1>1, <1>5, <2>2, <3>1, <3>5
  <2>3. CASE i \notin Founding
    <3>1. \A u \in all : born[u].issue # i
      BY <1>3, <1>6, <1>11, <2>3
    <3>2. Shown(Hub, i) = NoRow
      BY <1>5, <1>9, <2>1, <3>1 DEF ShownFacts
    <3> QED BY <1>1, <1>5, <2>3, <3>2
  <2> QED BY <2>2, <2>3
<1>17. Dominated(founded + 1)
  <2> SUFFICES ASSUME NEW h \in log[Hub], h.id < founded + 1, born[h.uid].issue \in Issues
               PROVE  \E g \in log[Hub] : /\ g.id >= founded + 1
                                          /\ born[g.uid].issue = born[h.uid].issue
                                          /\ Before(h.uid, g.uid)
    BY DEF Dominated
  <2>1. h.uid = h.id /\ h.id \in 1..founded
    BY <1>2, <1>9 DEF all
  <2>2. PICK n \in 1..founded : n = h.uid
    BY <2>1
  <2>3. PICK g \in log[Hub] : g.id = n + founded + 1 /\ g.uid = n + founded + 1
    BY <1>7, <1>10
  <2>4. g.id >= founded + 1
    BY <1>2, <2>3
  <2> QED BY <1>7, <1>15, <2>2, <2>3, <2>4
<1>18. last[Hub] = 2 * founded + 1 /\ hub.reset = 0 /\ hub.horizon = founded + 1
  BY <1>1, <1>5
<1>19. HubOK
  BY <1>1, <1>2, <1>16, <1>17, <1>18 DEF HubOK
<1>20. UniqueOK
  <2>1. Unique(log[Hub])
    BY <1>9 DEF Unique
  <2>2. \A n \in Nodes : Unique(log[n])
    BY <1>8, <2>1 DEF Nodes, Unique
  <2> QED BY <1>1, <2>2 DEF UniqueOK, Unique, Resting
<1>21. ASSUME NEW s \in Spokes PROVE SpokeOK(s)
  <2>1. binding[s].pull = founded /\ binding[s].horizon = founded + 1
    BY <1>1
  <2>2. Dominated(binding[s].horizon)
    BY <1>17, <2>1
  <2>3. Kept(s) /\ Coming(s) = {}
    BY <1>8 DEF Kept, Coming
  <2>4. Stored(s)
    BY <1>2, <1>9, <2>1 DEF Stored, all
  <2>5. ASSUME NEW i \in Issues PROVE RowsFrom(s, binding[s].pull, i)
    <3>1. Uids(s) = {}
      BY <1>8 DEF Uids
    <3>2. Shown(s, i) = NoRow
      BY <3>1 DEF Shown, Fold
    <3>3. row[s][i] = NoRow
      BY <1>1, <1>8
    <3> QED BY <3>2, <3>3 DEF RowsFrom
  <2> QED BY <1>2, <1>18, <2>1, <2>2, <2>3, <2>4, <2>5 DEF SpokeOK
<1>22. \A t \in Turns : PullOK(t)
  BY <1>1 DEF PullOK, Resting, Calm, Starting, Applying
<1> QED BY <1>13, <1>19, <1>20, <1>21, <1>22 DEF PInv

LEMMA PullStutters ==
    ASSUME IInv, IInv', PInv, UNCHANGED vars
    PROVE  PInv'
<1>1. \A q \in late : Unique(q.entries)
  BY DEF PInv, UniqueOK
<1> QED BY <1>1, QuietStep DEF vars, hubVars, spokeVars

LEMMA TurnHolds ==
    ASSUME OnePuller, IInv, IInv', PInv, NEW t \in Turns, TurnRuns(t) \/ TurnFails(t)
    PROVE  PInv'
<1>1. CASE \/ Begin(t) \/ ReadPending(t) \/ TakeAck(t)
           \/ \E id \in {e.id : e \in turn[t].todo} : PushAccepted(t, id) \/ PushRefused(t, id)
  BY <1>1, BeginHolds, ReadPendingHolds, TakeAckHolds, PushAcceptedHolds, PushRefusedHolds
<1>2. CASE \/ StartPull(t) \/ Poll(t) \/ CheckBlockers(t) \/ Repoll(t) \/ Reset(t)
           \/ \E skew \in 1..Skew : FetchHorizon(t, skew)
  BY <1>2, StartPullHolds, PollHolds, ResetHolds, FetchHorizonHolds
<1>3. CASE Insert(t) \/ Materialize(t) \/ AdvancePull(t) \/ FinishPull(t)
  BY <1>3, InsertHolds, MaterializeHolds, AdvancePullHolds, FinishPullHolds
<1>4. CASE TurnFails(t)
  BY <1>4, PushTimesOutHolds, ReapplyHolds, AbortHolds DEF TurnFails
<1> QED BY <1>1, <1>2, <1>3, <1>4 DEF TurnRuns

LEMMA StepHolds ==
    ASSUME OnePuller, IInv, IInv', PInv, [Next]_vars
    PROVE  PInv'
<1>1. CASE \E n \in Nodes, i \in Issues, kind \in Edits, skew \in 1..Skew : Edit(n, i, kind, skew)
  <2>1. PICK n \in Nodes, i \in Issues, kind \in Edits, skew \in 1..Skew : Edit(n, i, kind, skew)
    BY <1>1
  <2>2. CASE n = Hub
    BY <2>1, <2>2, EditAtHubHolds
  <2>3. CASE n \in Spokes
    BY <2>1, <2>3, EditAtSpokeHolds
  <2> QED BY <2>2, <2>3 DEF Nodes
<1>2. CASE \E t \in Turns : TurnRuns(t) \/ TurnFails(t)
  BY <1>2, TurnHolds
<1>3. CASE \E s \in Spokes : Skip(s) \/ Retry(s)
  BY <1>3, SkipHolds, RetryHolds
<1>4. CASE HubRuns
  BY <1>4, RefreshHolds, RefreshFailsHolds, PurgeHolds, LateArrivalHolds DEF HubRuns
<1>5. CASE UNCHANGED vars
  BY <1>5, PullStutters
<1> QED BY <1>1, <1>2, <1>3, <1>4, <1>5 DEF Next

LEMMA PullInvariance == OnePuller => (Spec => [](IInv /\ PInv))
<1> SUFFICES ASSUME OnePuller PROVE Spec => [](IInv /\ PInv)
  OBVIOUS
<1>1. Init => IInv /\ PInv
  BY StartsWell, PullsFromTheStart
<1>2. IInv /\ PInv /\ [Next]_vars => IInv' /\ PInv'
  BY StepKeeps, StepHolds
<1> QED BY <1>1, <1>2, PTL DEF Spec

\* With one turn of a spoke that pulls, all events the hub holds between the spoke's replay
\* horizon and its pull cursor are in the spoke's log: pages have no holes, whatever is
\* appended, purged or baselined between a page and the cursor's move past it.
THEOREM NothingPassedOver == OnePuller => (Spec => []PulledIsStored)
<1> SUFFICES ASSUME OnePuller PROVE Spec => []PulledIsStored
  OBVIOUS
<1>1. ASSUME IInv, PInv PROVE PulledIsStored
  <2> SUFFICES ASSUME NEW s \in Spokes, NEW e \in log[Hub],
                      e.id \in binding[s].horizon..binding[s].pull
               PROVE  e.uid \in Uids(s)
    BY DEF PulledIsStored
  <2>1. e.id >= binding[s].horizon /\ e.id <= binding[s].pull
    BY <1>1, SpokeTypes
  <2> QED BY <1>1, <2>1 DEF PInv, SpokeOK, Stored
<1> QED BY <1>1, PullInvariance, PTL

\* With one turn of a spoke that pulls, every issue row is the projection of the events of its
\* instance, at the hub always, at a spoke unless the events are about to be applied or
\* come again: a page applied in three transactions leaves no row behind for good.
THEOREM RowsAreTheLog == OnePuller => (Spec => []RowsFollowLog)
<1> SUFFICES ASSUME OnePuller PROVE Spec => []RowsFollowLog
  OBVIOUS
<1>1. ASSUME IInv, PInv PROVE RowsFollowLog
  <2> SUFFICES ASSUME NEW n \in Nodes, NEW i \in Issues, row[n][i] # Fold(Uids(n), i)
               PROVE  \E e \in log[n] : n # Hub /\ e.pulled /\ born[e.uid].issue = i
                                        /\ Awaited(n, e.uid)
    BY DEF RowsFollowLog
  <2>1. n # Hub
    BY <1>1 DEF PInv, HubOK, HubRows, Shown
  <2>2. n \in Spokes
    BY <2>1 DEF Nodes
  <2>3. PICK e \in log[n] : /\ e.pulled /\ born[e.uid].issue = i
                            /\ AwaitedFrom(binding[n].pull, e.uid)
    BY <1>1, <2>2 DEF PInv, SpokeOK, RowsFrom, Shown
  <2>4. Awaited(n, e.uid)
    BY <2>3 DEF Awaited, AwaitedFrom, ResetRequired
  <2> QED BY <2>1, <2>3, <2>4
<1> QED BY <1>1, PullInvariance, PTL

\* With one turn of a spoke that pulls, a spoke with nothing left to push or to pull shows
\* the hub's rows: the events that only one of the two logs holds are older than a
\* baseline that both hold, and a purge made the spoke start over.
THEOREM DrainedSpokesAgree == OnePuller => (Spec => []Agreement)
<1> SUFFICES ASSUME OnePuller PROVE Spec => []Agreement
  OBVIOUS
<1>1. ASSUME IInv, PInv PROVE Agreement
  <2> SUFFICES ASSUME NEW s \in Spokes, Drained(s), skipped = {} PROVE row[s] = row[Hub]
    BY DEF Agreement
  <2>1. /\ s \in Nodes /\ s # Hub /\ Hub \in Nodes /\ SpokeOK(s)
        /\ binding[s].pull \in Nat /\ binding[s].push \in Nat /\ binding[s].horizon \in Nat
    BY <1>1, SpokeTypes, HubTypes DEF PInv
  <2>2. ~Behind(s) /\ \A h \in log[Hub] : ~(h.id > binding[s].pull)
    BY <1>1, <2>1, HubTypes DEF Drained, Behind
  <2>3. Uids(s) \subseteq Uids(Hub)
    <3> SUFFICES ASSUME NEW e \in log[s], e.uid \notin Uids(Hub) PROVE FALSE
      BY DEF Uids
    <3>1. born[e.uid].origin = s /\ e.uid \notin purged
      BY <2>1, <2>2 DEF SpokeOK, Kept
    <3>2. ~(e.id > binding[s].push)
      BY <3>1 DEF Drained, Pending
    <3>3. e.id <= binding[s].push
      BY <1>1, <2>1, <3>2, SpokeTypes
    <3> QED BY <1>1, <3>1, <3>3 DEF IInv, PassedOK, Safe
  <2>4. ASSUME NEW h \in log[Hub], h.uid \notin Uids(s), born[h.uid].issue \in Issues
        PROVE  \E g \in log[Hub] : born[g.uid].issue = born[h.uid].issue /\ Before(h.uid, g.uid)
    <3>1. h.id <= binding[s].pull /\ h.id \in Nat
      BY <1>1, <2>1, <2>2, HubTypes
    <3>2. h.id < binding[s].horizon
      BY <2>1, <2>4, <3>1 DEF SpokeOK, Stored
    <3> QED BY <2>1, <2>4, <3>2 DEF SpokeOK, Dominated
  <2>5. ShownFacts
    BY <1>1, ShownIs DEF IInv
  <2>6. ASSUME NEW i \in Issues PROVE Shown(s, i) = Shown(Hub, i)
    <3>1. CASE \A u \in Uids(Hub) : born[u].issue # i
      BY <2>1, <2>3, <2>5, <3>1 DEF ShownFacts
    <3>2. CASE \E u \in Uids(Hub) : born[u].issue = i
      <4>1. PICK m \in Uids(Hub) : Top(Hub, i, m)
        BY <2>1, <2>5, <3>2 DEF ShownFacts
      <4>2. m \in Uids(s)
        <5> SUFFICES ASSUME m \notin Uids(s) PROVE FALSE
          OBVIOUS
        <5>1. PICK h \in log[Hub] : h.uid = m
          BY DEF Uids
        <5>2. PICK g \in log[Hub] : born[g.uid].issue = i /\ Before(m, g.uid)
          BY <2>4, <4>1, <5>1 DEF Top
        <5>3. PICK v \in Uids(Hub) : v = g.uid
          BY DEF Uids
        <5>4. v = m \/ Before(v, m)
          BY <4>1, <5>2, <5>3 DEF Top
        <5>5. /\ m \in DOMAIN born /\ v \in DOMAIN born
              /\ born[m].clock \in Nat /\ born[v].clock \in Nat
              /\ Rank[born[m].origin] \in Nat /\ Rank[born[v].origin] \in Nat
          BY <1>1, <2>1, UidsIn, BornIs DEF IInv
        <5>6. m \in Nat /\ v \in Nat
          BY <1>1, <5>5 DEF IInv, TypeOK
        <5> QED BY <5>2, <5>3, <5>4, <5>5, <5>6 DEF Before
      <4>3. Top(s, i, m)
        BY <2>3, <4>1, <4>2 DEF Top
      <4> QED BY <2>1, <2>5, <4>1, <4>2, <4>3 DEF ShownFacts
    <3> QED BY <3>1, <3>2
  <2>7. ASSUME NEW i \in Issues PROVE row[s][i] = row[Hub][i]
    <3>1. row[Hub][i] = Shown(Hub, i)
      BY <1>1 DEF PInv, HubOK, HubRows
    <3>2. row[s][i] = Shown(s, i)
      BY <2>1, <2>2 DEF SpokeOK, RowsFrom, AwaitedFrom, Behind, ResetRequired
    <3> QED BY <2>6, <3>1, <3>2
  <2>8. row[s] \in [Issues -> Nat] /\ row[Hub] \in [Issues -> Nat]
    BY <1>1, <2>1 DEF IInv, TypeOK
  <2> QED BY <2>7, <2>8
<1> QED BY <1>1, PullInvariance, PTL
=============================================================================
