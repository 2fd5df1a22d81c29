------------------------- MODULE GraphPassesProofs -------------------------
(***************************************************************************)
(* The producer and user indexes of StaticGraph agree with its node list   *)
(* after every sequence of rewriting calls, for every graph; and the pass  *)
(* pipeline keeps a graph that it was given valid, for every model.        *)
(***************************************************************************)
EXTENDS GraphPasses, FiniteSetTheorems, WellFoundedInduction, TLAPS

Agree ==
    /\ \A v \in Value : users[v] = UsersOf(v)
    /\ \A v \in Value : \A n \in Node : producer[v] = n <=> n \in ProducersOf(v)

Inv == GraphTypeOK /\ IndexesAgree

USE NoNodeAssumption, NoValueAssumption

------------------------------------------------------------------------------
LEMMA RangeOfConcat ==
    ASSUME NEW s \in Seq(Value), NEW t \in Seq(Value)
    PROVE  Range(s \o t) = Range(s) \cup Range(t)
<1>1. ASSUME NEW v \in Range(s \o t) PROVE v \in Range(s) \cup Range(t)
  <2>1. PICK i \in 1 .. Len(s) + Len(t) : v = (s \o t)[i]
    BY <1>1 DEF Range
  <2>2. CASE i <= Len(s)
    BY <2>1, <2>2 DEF Range
  <2>3. CASE i > Len(s)
    <3>1. v = t[i - Len(s)] /\ i - Len(s) \in DOMAIN t
      BY <2>1, <2>3
    <3> QED BY <3>1 DEF Range
  <2> QED BY <2>1, <2>2, <2>3
<1>2. ASSUME NEW v \in Range(s) PROVE v \in Range(s \o t)
  <2>1. PICK i \in 1 .. Len(s) : v = s[i]
    BY <1>2 DEF Range
  <2>2. v = (s \o t)[i] /\ i \in DOMAIN (s \o t)
    BY <2>1
  <2> QED BY <2>2 DEF Range
<1>3. ASSUME NEW v \in Range(t) PROVE v \in Range(s \o t)
  <2>1. PICK i \in 1 .. Len(t) : v = t[i]
    BY <1>3 DEF Range
  <2>2. v = (s \o t)[Len(s) + i] /\ Len(s) + i \in DOMAIN (s \o t)
    BY <2>1
  <2> QED BY <2>2 DEF Range
<1> QED BY <1>1, <1>2, <1>3

LEMMA RangeOfOne == ASSUME NEW v PROVE Range(<<v>>) = {v}
<1>1. DOMAIN <<v>> = {1} /\ <<v>>[1] = v
  OBVIOUS
<1> QED BY <1>1 DEF Range

\* Replacing every "from" by "to" replaces it in the set of inputs.
LEMMA RangeOfWithInput ==
    ASSUME GraphTypeOK, NEW n \in Node, NEW from, NEW to, from \in Range(ins[n])
    PROVE  Range(WithInput(n, from, to)) = (Range(ins[n]) \ {from}) \cup {to}
<1> DEFINE new == WithInput(n, from, to)
<1>1. ins[n] \in Seq(Value)
  BY DEF GraphTypeOK
<1>2. DOMAIN new = 1 .. Len(ins[n]) /\ DOMAIN ins[n] = 1 .. Len(ins[n])
  BY <1>1 DEF WithInput
<1>3. \A i \in 1 .. Len(ins[n]) : new[i] = IF ins[n][i] = from THEN to ELSE ins[n][i]
  BY DEF WithInput
<1>4. PICK k \in 1 .. Len(ins[n]) : ins[n][k] = from
  BY <1>2 DEF Range
<1> HIDE DEF new
<1>5. ASSUME NEW v \in Range(new) PROVE v \in (Range(ins[n]) \ {from}) \cup {to}
  <2>1. PICK i \in 1 .. Len(ins[n]) : v = new[i]
    BY <1>2, <1>5 DEF Range
  <2>2. ins[n][i] \in Range(ins[n])
    BY <1>2 DEF Range
  <2> QED BY <2>1, <2>2, <1>3
<1>6. ASSUME NEW v \in Range(ins[n]), v # from PROVE v \in Range(new)
  <2>1. PICK i \in 1 .. Len(ins[n]) : v = ins[n][i]
    BY <1>2, <1>6 DEF Range
  <2> QED BY <2>1, <1>2, <1>3, <1>6 DEF Range
<1>7. to \in Range(new)
  BY <1>2, <1>3, <1>4 DEF Range
<1> QED BY <1>5, <1>6, <1>7 DEF new

LEMMA RangeTypes ==
    ASSUME GraphTypeOK, NEW n \in Node
    PROVE  Range(ins[n]) \subseteq Value /\ Range(outs[n]) \subseteq Value
BY DEF GraphTypeOK, Range

------------------------------------------------------------------------------
\* Registration touches one node in the lists of some values.
LEMMA RegisterFacts ==
    ASSUME NEW u \in [Value -> SUBSET Node], NEW n \in Node, NEW list
    PROVE  /\ Register(u, n, list) \in [Value -> SUBSET Node]
           /\ Unregister(u, n, list) \in [Value -> SUBSET Node]
           /\ \A v \in Value, m \in Node :
                /\ m \in Register(u, n, list)[v] <=> m \in u[v] \/ (m = n /\ v \in Range(list))
                /\ m \in Unregister(u, n, list)[v] <=> m \in u[v] /\ ~(m = n /\ v \in Range(list))
BY DEF Register, Unregister

LEMMA ProducesFacts ==
    ASSUME GraphTypeOK, NEW n \in Node, NEW taken
    PROVE  /\ Produces(n, taken) \in [Value -> Node \cup {NoNode}]
           /\ \A v \in Value : Produces(n, taken)[v] = IF v \in taken THEN n ELSE producer[v]
BY DEF Produces, GraphTypeOK

\* IndexesAgree one value and one node at a time.
LEMMA AgreeByMember ==
    ASSUME GraphTypeOK
    PROVE  Agree <=>
             \A v \in Value, m \in Node :
               /\ m \in users[v] <=> m \in live /\ v \in Range(ins[m])
               /\ producer[v] = m <=> m \in live /\ v \in Range(outs[m])
BY DEF GraphTypeOK, Agree, UsersOf, ProducersOf

\* The node already was the producer of its outputs: however far the loop over
\* them comes, the index stays as it is.
LEMMA ProducerStays ==
    ASSUME GraphTypeOK, Agree, NEW n \in Node, n \in live, NEW taken \in SUBSET Range(outs[n])
    PROVE  Produces(n, taken) = producer
<1>1. producer \in [Value -> Node \cup {NoNode}]
  BY DEF GraphTypeOK
<1>2. \A v \in Value : v \in taken => producer[v] = n
  BY AgreeByMember
<1> QED BY <1>1, <1>2 DEF Produces

LEMMA AgreeByMemberAfter ==
    ASSUME GraphTypeOK',
           \A v \in Value, m \in Node :
               /\ m \in users'[v] <=> m \in live' /\ v \in Range(ins'[m])
               /\ producer'[v] = m <=> m \in live' /\ v \in Range(outs'[m])
    PROVE  Agree'
BY DEF GraphTypeOK, Agree, UsersOf, ProducersOf

------------------------------------------------------------------------------
\* Every call keeps the types, given that it is made with values.
LEMMA TypesKept ==
    ASSUME GraphTypeOK, Typed, GraphNext
    PROVE  GraphTypeOK'
<1>1. ins' \in [Node -> Seq(Value)] /\ op' \in [Node -> Op] /\ dims' \in [Value -> Dims]
  BY DEF Typed
<1>2. ASSUME NEW n \in Node, NEW u \in [Value -> SUBSET Node], NEW dropped,
             Retire(n, u, dropped)
      PROVE  /\ live' \subseteq Node /\ users' \in [Value -> SUBSET Node]
             /\ producer' \in [Value -> Node \cup {NoNode}]
  BY <1>2 DEF Retire, GraphTypeOK
<1>3. ASSUME NEW n \in Node, RemoveNode(n) PROVE GraphTypeOK'
  <2>1. Unregister(users, n, ins[n]) \in [Value -> SUBSET Node]
    BY RegisterFacts DEF GraphTypeOK
  <2> QED BY <1>1, <1>2, <1>3, <2>1 DEF RemoveNode, GraphTypeOK
<1>4. ASSUME NEW n \in Node, RemoveNodeWithOutputAlias(n) PROVE GraphTypeOK'
  <2>1. Unregister(users, n, ins[n]) \in [Value -> SUBSET Node]
    BY RegisterFacts DEF GraphTypeOK
  <2>2. ins[n][1] \in Value
    <3>1. ins[n] \in Seq(Value) /\ Len(ins[n]) = 1
      BY <1>4 DEF RemoveNodeWithOutputAlias, CanAlias, GraphTypeOK
    <3> QED BY <3>1
  <2>3. alias' \in [Value -> Value \cup {NoValue}]
    BY <1>4, <2>2 DEF RemoveNodeWithOutputAlias, GraphTypeOK
  <2> QED BY <1>1, <1>2, <1>4, <2>1, <2>3 DEF RemoveNodeWithOutputAlias, GraphTypeOK
<1>5. ASSUME NEW n \in Node, NEW from \in Value, NEW to \in Value,
             NEW taken, ReplaceInputValue(n, from, to, taken, dims')
      PROVE  GraphTypeOK'
  <2>1. Unregister(users, n, <<from>>) \in [Value -> SUBSET Node]
    BY RegisterFacts DEF GraphTypeOK
  <2>2. users' \in [Value -> SUBSET Node]
    BY <1>5, <2>1, RegisterFacts DEF ReplaceInputValue
  <2>3. producer' \in [Value -> Node \cup {NoNode}]
    BY <1>5, ProducesFacts DEF ReplaceInputValue
  <2> QED BY <1>1, <1>5, <2>2, <2>3 DEF ReplaceInputValue, GraphTypeOK
<1>6. ASSUME NEW n \in Node, NEW taken, ReplaceNodeDesc(n, op'[n], ins'[n], taken, dims')
      PROVE  GraphTypeOK'
  <2>1. Unregister(users, n, ins[n]) \in [Value -> SUBSET Node]
    BY RegisterFacts DEF GraphTypeOK
  <2>2. users' \in [Value -> SUBSET Node]
    BY <1>6, <2>1, RegisterFacts DEF ReplaceNodeDesc
  <2>3. producer' \in [Value -> Node \cup {NoNode}]
    BY <1>6, ProducesFacts DEF ReplaceNodeDesc
  <2> QED BY <1>1, <1>6, <2>2, <2>3 DEF ReplaceNodeDesc, GraphTypeOK
<1>7. ASSUME NEW n \in Node, NEW a \in Node,
             outs' = [outs EXCEPT ![n] = outs[n] \o outs[a]]
      PROVE  outs' \in [Node -> Seq(Value)]
  BY <1>7 DEF GraphTypeOK
<1>8. ASSUME NEW n \in Node, NEW a \in Node,
             ReplaceNodeDescAndAbsorbNode(n, a, op'[n], ins'[n], dims')
      PROVE  GraphTypeOK'
  <2>1. Unregister(users, n, ins[n]) \in [Value -> SUBSET Node]
    BY RegisterFacts DEF GraphTypeOK
  <2>2. Register(Unregister(users, n, ins[n]), n, ins'[n]) \in [Value -> SUBSET Node]
    BY <2>1, RegisterFacts
  <2>3. users' \in [Value -> SUBSET Node]
    BY <1>8, <2>2, RegisterFacts DEF ReplaceNodeDescAndAbsorbNode
  <2>4. producer' \in [Value -> Node \cup {NoNode}]
    BY <1>8, ProducesFacts DEF ReplaceNodeDescAndAbsorbNode, TakeOver
  <2>5. outs' \in [Node -> Seq(Value)]
    BY <1>7, <1>8 DEF ReplaceNodeDescAndAbsorbNode
  <2> QED BY <1>1, <1>8, <2>3, <2>4, <2>5 DEF ReplaceNodeDescAndAbsorbNode, GraphTypeOK
<1>9. ASSUME NEW n \in Node, NEW a \in Node, NEW taken,
             AbsorbHalf(n, a, op'[n], ins'[n], taken, dims')
      PROVE  GraphTypeOK'
  <2>1. Unregister(users, n, ins[n]) \in [Value -> SUBSET Node]
    BY RegisterFacts DEF GraphTypeOK
  <2>2. users' \in [Value -> SUBSET Node]
    BY <1>9, <2>1, RegisterFacts DEF AbsorbHalf
  <2>3. producer' \in [Value -> Node \cup {NoNode}]
    BY <1>9, ProducesFacts DEF AbsorbHalf, TakeOver
  <2>4. outs' \in [Node -> Seq(Value)]
    BY <1>7, <1>9 DEF AbsorbHalf
  <2> QED BY <1>1, <1>9, <2>2, <2>3, <2>4 DEF AbsorbHalf, GraphTypeOK
<1>10. CASE CreateFails(dims')
  BY <1>1, <1>10 DEF CreateFails, GraphTypeOK
<1> QED BY <1>3, <1>4, <1>5, <1>6, <1>8, <1>9, <1>10 DEF GraphNext

------------------------------------------------------------------------------
(***************************************************************************)
(* The members of the indexes after each call.                             *)
(***************************************************************************)
LEMMA RemoveKeeps ==
    ASSUME GraphTypeOK, GraphTypeOK', Agree, NEW n \in Node, n \in live, ~HasUsers(n),
           Retire(n, Unregister(users, n, ins[n]), Range(outs[n])), UNCHANGED <<ins, outs>>
    PROVE  Agree'
<1> DEFINE un == Unregister(users, n, ins[n])
<1>1. \A v \in Value, m \in Node : m \in un[v] <=> m \in users[v] /\ ~(m = n /\ v \in Range(ins[n]))
  BY RegisterFacts DEF GraphTypeOK
<1>2. \A v \in Value, m \in Node :
        /\ m \in users[v] <=> m \in live /\ v \in Range(ins[m])
        /\ producer[v] = m <=> m \in live /\ v \in Range(outs[m])
  BY AgreeByMember
<1>3. \A v \in Range(outs[n]) : users[v] = {}
  BY DEF HasUsers
<1> HIDE DEF un
<1>4. /\ live' = live \ {n}
      /\ \A v \in Value : users'[v] = IF v \in Range(outs[n]) THEN {} ELSE un[v]
      /\ \A v \in Value : producer'[v] = IF v \in Range(outs[n]) /\ producer[v] = n
                                         THEN NoNode ELSE producer[v]
  BY DEF Retire, un
<1>5. ASSUME NEW v \in Value, NEW m \in Node
      PROVE  m \in users'[v] <=> m \in live' /\ v \in Range(ins'[m])
  <2>1. v \in Range(outs[n]) => m \notin users[v]
    BY <1>3
  <2> QED BY <1>1, <1>2, <1>4, <1>5, <2>1
<1>6. ASSUME NEW v \in Value, NEW m \in Node
      PROVE  producer'[v] = m <=> m \in live' /\ v \in Range(outs'[m])
  BY <1>2, <1>4, <1>6
<1> QED BY <1>5, <1>6, AgreeByMemberAfter

LEMMA InputKeeps ==
    ASSUME GraphTypeOK, GraphTypeOK', Agree, NEW n \in Node, NEW from \in Value, NEW to \in Value,
           NEW taken \in SUBSET Range(outs[n]), ReplaceInputValue(n, from, to, taken, dims')
    PROVE  Agree'
<1> DEFINE old == <<from>>
           new == <<to>>
           un == Unregister(users, n, old)
           re == Register(un, n, new)
<1>1. \A v \in Value, m \in Node :
        /\ m \in users[v] <=> m \in live /\ v \in Range(ins[m])
        /\ producer[v] = m <=> m \in live /\ v \in Range(outs[m])
  BY AgreeByMember
<1>2. Range(old) = {from} /\ Range(new) = {to}
  BY RangeOfOne
<1> HIDE DEF old, new
<1>3. un \in [Value -> SUBSET Node]
  BY RegisterFacts DEF GraphTypeOK
<1>4. \A v \in Value, m \in Node : m \in un[v] <=> m \in users[v] /\ ~(m = n /\ v = from)
  <2>1. \A v \in Value, m \in Node :
          m \in un[v] <=> m \in users[v] /\ ~(m = n /\ v \in Range(old))
    BY RegisterFacts DEF GraphTypeOK
  <2> QED BY <1>2, <2>1
<1> HIDE DEF un
<1>5. \A v \in Value, m \in Node : m \in re[v] <=> m \in un[v] \/ (m = n /\ v = to)
  <2>1. \A v \in Value, m \in Node : m \in re[v] <=> m \in un[v] \/ (m = n /\ v \in Range(new))
    BY <1>3, RegisterFacts
  <2> QED BY <1>2, <2>1
<1>6. users' = re
  BY DEF ReplaceInputValue, re, un, old, new
<1> HIDE DEF re
<1>7. n \in live /\ from \in Range(ins[n]) /\ live' = live /\ producer' = producer /\ outs' = outs
  BY ProducerStays DEF ReplaceInputValue, CanReplaceInput
<1>8. \A m \in Node : Range(ins'[m]) = IF m = n THEN (Range(ins[n]) \ {from}) \cup {to}
                                       ELSE Range(ins[m])
  <2>1. ins' = [ins EXCEPT ![n] = WithInput(n, from, to)]
    BY DEF ReplaceInputValue
  <2>2. Range(WithInput(n, from, to)) = (Range(ins[n]) \ {from}) \cup {to}
    BY <1>7, RangeOfWithInput
  <2>3. \A m \in Node : ins'[m] = IF m = n THEN WithInput(n, from, to) ELSE ins[m]
    BY <2>1 DEF GraphTypeOK
  <2> QED BY <2>2, <2>3
<1>9. ASSUME NEW v \in Value, NEW m \in Node
      PROVE  m \in users'[v] <=> m \in live' /\ v \in Range(ins'[m])
  <2>1. CASE m = n
    BY <1>1, <1>4, <1>5, <1>6, <1>7, <1>8, <2>1
  <2>2. CASE m # n
    BY <1>1, <1>4, <1>5, <1>6, <1>7, <1>8, <2>2
  <2> QED BY <2>1, <2>2
<1>10. ASSUME NEW v \in Value, NEW m \in Node
       PROVE  producer'[v] = m <=> m \in live' /\ v \in Range(outs'[m])
  BY <1>1, <1>7
<1> QED BY <1>9, <1>10, AgreeByMemberAfter

LEMMA DescKeeps ==
    ASSUME GraphTypeOK, GraphTypeOK', Agree, NEW n \in Node, NEW list,
           NEW taken \in SUBSET Range(outs[n]), ReplaceNodeDesc(n, op'[n], list, taken, dims')
    PROVE  Agree'
<1> DEFINE un == Unregister(users, n, ins[n])
           re == Register(un, n, list)
<1>1. \A v \in Value, m \in Node :
        /\ m \in users[v] <=> m \in live /\ v \in Range(ins[m])
        /\ producer[v] = m <=> m \in live /\ v \in Range(outs[m])
  BY AgreeByMember
<1>2. un \in [Value -> SUBSET Node]
  BY RegisterFacts DEF GraphTypeOK
<1>3. \A v \in Value, m \in Node : m \in un[v] <=> m \in users[v] /\ ~(m = n /\ v \in Range(ins[n]))
  BY RegisterFacts DEF GraphTypeOK
<1> HIDE DEF un
<1>4. \A v \in Value, m \in Node : m \in re[v] <=> m \in un[v] \/ (m = n /\ v \in Range(list))
  BY <1>2, RegisterFacts
<1>5. users' = re
  BY DEF ReplaceNodeDesc, re, un
<1> HIDE DEF re
<1>6. n \in live /\ live' = live /\ outs' = outs
  BY DEF ReplaceNodeDesc
<1>7. producer' = producer
  BY <1>6, ProducerStays DEF ReplaceNodeDesc
<1>8. \A m \in Node : ins'[m] = IF m = n THEN list ELSE ins[m]
  BY DEF ReplaceNodeDesc, GraphTypeOK
<1>9. ASSUME NEW v \in Value, NEW m \in Node
      PROVE  m \in users'[v] <=> m \in live' /\ v \in Range(ins'[m])
  <2>1. CASE m = n
    BY <1>1, <1>3, <1>4, <1>5, <1>6, <1>8, <2>1
  <2>2. CASE m # n
    BY <1>1, <1>3, <1>4, <1>5, <1>6, <1>8, <2>2
  <2> QED BY <2>1, <2>2
<1>10. ASSUME NEW v \in Value, NEW m \in Node
       PROVE  producer'[v] = m <=> m \in live' /\ v \in Range(outs'[m])
  BY <1>1, <1>6, <1>7
<1> QED BY <1>9, <1>10, AgreeByMemberAfter

LEMMA AbsorbKeeps ==
    ASSUME GraphTypeOK, GraphTypeOK', Agree, NEW n \in Node, NEW a \in Node, NEW list,
           ReplaceNodeDescAndAbsorbNode(n, a, op'[n], list, dims')
    PROVE  Agree'
<1> DEFINE un == Unregister(users, n, ins[n])
           re == Register(un, n, list)
           fin == Unregister(re, a, ins[a])
           all == outs[n] \o outs[a]
<1>1. \A v \in Value, m \in Node :
        /\ m \in users[v] <=> m \in live /\ v \in Range(ins[m])
        /\ producer[v] = m <=> m \in live /\ v \in Range(outs[m])
  BY AgreeByMember
<1>2. un \in [Value -> SUBSET Node]
  BY RegisterFacts DEF GraphTypeOK
<1>3. \A v \in Value, m \in Node : m \in un[v] <=> m \in users[v] /\ ~(m = n /\ v \in Range(ins[n]))
  BY RegisterFacts DEF GraphTypeOK
<1> HIDE DEF un
<1>4. re \in [Value -> SUBSET Node]
  BY <1>2, RegisterFacts
<1>5. \A v \in Value, m \in Node : m \in re[v] <=> m \in un[v] \/ (m = n /\ v \in Range(list))
  BY <1>2, RegisterFacts
<1> HIDE DEF re
<1>6. \A v \in Value, m \in Node : m \in fin[v] <=> m \in re[v] /\ ~(m = a /\ v \in Range(ins[a]))
  BY <1>4, RegisterFacts
<1>7. users' = fin
  BY DEF ReplaceNodeDescAndAbsorbNode, fin, re, un
<1> HIDE DEF fin
<1>8. n \in live /\ a \in live /\ n # a /\ live' = live \ {a}
  BY DEF ReplaceNodeDescAndAbsorbNode, CanAbsorb
<1>9. \A v \in Value : producer'[v] = IF v \in Range(all) THEN n ELSE producer[v]
  BY ProducesFacts DEF ReplaceNodeDescAndAbsorbNode, TakeOver
<1>10. Range(all) = Range(outs[n]) \cup Range(outs[a])
  <2>1. outs[n] \in Seq(Value) /\ outs[a] \in Seq(Value)
    BY DEF GraphTypeOK
  <2> QED BY <2>1, RangeOfConcat
<1>11. \A m \in Node : outs'[m] = IF m = n THEN all ELSE outs[m]
  BY DEF ReplaceNodeDescAndAbsorbNode, GraphTypeOK
<1> HIDE DEF all
<1>12. \A m \in Node : ins'[m] = IF m = n THEN list ELSE ins[m]
  BY DEF ReplaceNodeDescAndAbsorbNode, TakeOver, GraphTypeOK
<1>13. ASSUME NEW v \in Value, NEW m \in Node
       PROVE  m \in users'[v] <=> m \in live' /\ v \in Range(ins'[m])
  <2>1. CASE m = n
    BY <1>1, <1>3, <1>5, <1>6, <1>7, <1>8, <1>12, <2>1
  <2>2. CASE m = a
    BY <1>1, <1>3, <1>5, <1>6, <1>7, <1>8, <1>12, <2>2
  <2>3. CASE m # n /\ m # a
    BY <1>1, <1>3, <1>5, <1>6, <1>7, <1>8, <1>12, <2>3
  <2> QED BY <2>1, <2>2, <2>3
<1>14. ASSUME NEW v \in Value, NEW m \in Node
       PROVE  producer'[v] = m <=> m \in live' /\ v \in Range(outs'[m])
  <2>1. CASE v \in Range(outs[n])
    <3>1. producer[v] = n
      BY <1>1, <1>8, <2>1
    <3>2. producer'[v] = n /\ v \in Range(all)
      BY <1>9, <1>10, <2>1
    <3> QED BY <1>1, <1>8, <1>11, <3>1, <3>2
  <2>2. CASE v \in Range(outs[a])
    <3>1. producer[v] = a
      BY <1>1, <1>8, <2>2
    <3>2. producer'[v] = n /\ v \in Range(all)
      BY <1>9, <1>10, <2>2
    <3> QED BY <1>1, <1>8, <1>11, <3>1, <3>2
  <2>3. CASE v \notin Range(outs[n]) /\ v \notin Range(outs[a])
    <3>1. producer'[v] = producer[v] /\ v \notin Range(all)
      BY <1>9, <1>10, <2>3
    <3> QED BY <1>1, <1>8, <1>11, <2>3, <3>1
  <2> QED BY <2>1, <2>2, <2>3
<1> QED BY <1>13, <1>14, AgreeByMemberAfter

------------------------------------------------------------------------------
LEMMA InitInv == GraphInit => Inv
BY DEF GraphInit, Inv, IndexesAgree

\* One step per call; an absorption that fails half-way is the one that may
\* leave the indexes apart, and it says so.
LEMMA StepInv ==
    ASSUME Inv, [GraphNext /\ Typed]_graphVars
    PROVE  Inv'
<1> USE DEF Inv
<1>1. CASE UNCHANGED graphVars
  BY <1>1 DEF graphVars, GraphTypeOK, IndexesAgree, UsersOf, ProducersOf
<1>2. ASSUME GraphNext, Typed PROVE Inv'
  <2>1. GraphTypeOK'
    BY <1>2, TypesKept
  <2>2. CASE torn
    <3>1. torn'
      BY <1>2, <2>2 DEF GraphNext, RemoveNode, RemoveNodeWithOutputAlias, ReplaceInputValue,
        ReplaceNodeDesc, ReplaceNodeDescAndAbsorbNode, AbsorbHalf, CreateFails
    <3> QED BY <2>1, <3>1 DEF IndexesAgree
  <2>3. CASE ~torn
    <3>1. Agree
      BY <2>3 DEF IndexesAgree, Agree
    <3>2. ASSUME NEW n \in Node, RemoveNode(n) PROVE Agree'
      BY <2>1, <3>1, <3>2, RemoveKeeps DEF RemoveNode, CanRemove
    <3>3. ASSUME NEW n \in Node, RemoveNodeWithOutputAlias(n) PROVE Agree'
      <4>1. n \in live /\ ~HasUsers(n) /\ Len(outs[n]) = 1 /\ ins' = ins /\ outs' = outs
        BY <3>3 DEF RemoveNodeWithOutputAlias, CanAlias
      <4>2. Range(outs[n]) = {outs[n][1]}
        <5>1. DOMAIN outs[n] = 1 .. 1
          BY <4>1 DEF GraphTypeOK
        <5> QED BY <5>1 DEF Range
      <4>3. Retire(n, Unregister(users, n, ins[n]), Range(outs[n]))
        BY <3>3, <4>2 DEF RemoveNodeWithOutputAlias
      <4> QED BY <2>1, <3>1, <4>1, <4>3, RemoveKeeps
    <3>4. ASSUME NEW n \in Node, NEW from \in Value, NEW to \in Value,
                 NEW taken \in SUBSET Range(outs[n]), ReplaceInputValue(n, from, to, taken, dims')
          PROVE  Agree'
      BY <2>1, <3>1, <3>4, InputKeeps
    <3>5. ASSUME NEW n \in Node, NEW taken \in SUBSET Range(outs[n]),
                 ReplaceNodeDesc(n, op'[n], ins'[n], taken, dims')
          PROVE  Agree'
      BY <2>1, <3>1, <3>5, DescKeeps
    <3>6. ASSUME NEW n \in Node, NEW a \in Node,
                 ReplaceNodeDescAndAbsorbNode(n, a, op'[n], ins'[n], dims')
          PROVE  Agree'
      BY <2>1, <3>1, <3>6, AbsorbKeeps
    <3>7. ASSUME NEW n \in Node, NEW a \in Node, NEW taken,
                 AbsorbHalf(n, a, op'[n], ins'[n], taken, dims')
          PROVE  torn'
      BY <3>7 DEF AbsorbHalf
    <3>8. ASSUME CreateFails(dims') PROVE Agree'
      BY <3>1, <3>8 DEF CreateFails, Agree, UsersOf, ProducersOf
    <3>9. torn' \/ Agree'
      BY <1>2, <3>2, <3>3, <3>4, <3>5, <3>6, <3>7, <3>8 DEF GraphNext
    <3> QED BY <2>1, <3>9 DEF IndexesAgree, Agree
  <2> QED BY <2>2, <2>3
<1> QED BY <1>1, <1>2

\* GetUsers and GetProducer answer what the node list says after every sequence
\* of rewriting calls with any arguments, unless an absorption failed half-way.
THEOREM GraphIndexesAgree == GraphSpec => []IndexesAgree
<1>1. Inv /\ [GraphNext /\ Typed]_graphVars => Inv'
  BY StepInv
<1>2. Inv => IndexesAgree
  BY DEF Inv
<1> QED BY InitInv, <1>1, <1>2, PTL DEF GraphSpec

------------------------------------------------------------------------------
(* What the operators of the pipeline return. *)

LEMMA MaxOfTwo ==
    ASSUME NEW x \in Nat, NEW y \in Nat
    PROVE  Max({x, y}) = IF x >= y THEN x ELSE y
<1>1. PICK m \in {x, y} : \A z \in {x, y} : m >= z
  <2>1. CASE x >= y
    BY <2>1
  <2>2. CASE ~(x >= y)
    BY <2>2
  <2> QED BY <2>1, <2>2
<1>2. Max({x, y}) \in {x, y} /\ \A z \in {x, y} : Max({x, y}) >= z
  BY <1>1 DEF Max
<1> QED BY <1>2

LEMMA TwoDims == ASSUME NEW x \in Nat \ {0}, NEW y \in Nat \ {0} PROVE <<x, y>> \in KnownDims
BY DEF KnownDims
LEMMA ThreeDims ==
    ASSUME NEW x \in Nat \ {0}, NEW y \in Nat \ {0}, NEW z \in Nat \ {0}
    PROVE  <<x, y, z>> \in KnownDims
BY DEF KnownDims
LEMMA FourDims ==
    ASSUME NEW x \in Nat \ {0}, NEW y \in Nat \ {0}, NEW z \in Nat \ {0}, NEW w \in Nat \ {0}
    PROVE  <<x, y, z, w>> \in KnownDims
BY DEF KnownDims

LEMMA ElementOfDims ==
    ASSUME NEW d \in KnownDims
    PROVE  Len(d) \in Nat /\ \A i \in 1 .. Len(d) : d[i] \in Nat \ {0}
BY DEF KnownDims

LEMMA FirstDims ==
    ASSUME NEW d \in KnownDims
    PROVE  /\ Len(d) \in {2, 3, 4} => d[1] \in Nat \ {0} /\ d[2] \in Nat \ {0}
           /\ Len(d) \in {3, 4} => d[3] \in Nat \ {0}
<1>1. \A i \in Nat : i >= 1 /\ i <= Len(d) => d[i] \in Nat \ {0}
  BY DEF KnownDims
<1> QED BY <1>1

LEMMA NoList == <<>> \in Seq(KnownDims) /\ Len(<<>>) = 0
OBVIOUS
LEMMA OneList == ASSUME NEW x \in KnownDims PROVE <<x>> \in Seq(KnownDims) /\ Len(<<x>>) = 1
OBVIOUS
LEMMA TwoList ==
    ASSUME NEW x \in KnownDims, NEW y \in KnownDims
    PROVE  <<x, y>> \in Seq(KnownDims) /\ Len(<<x, y>>) = 2
OBVIOUS
LEMMA ThreeList ==
    ASSUME NEW x \in KnownDims, NEW y \in KnownDims, NEW z \in KnownDims
    PROVE  <<x, y, z>> \in Seq(KnownDims) /\ Len(<<x, y, z>>) = 3
OBVIOUS

LEMMA DimsOfFacts ==
    ASSUME dims \in [Value -> KnownDims], NEW list \in Seq(Value)
    PROVE  /\ DimsOf(list) \in Seq(KnownDims)
           /\ Len(DimsOf(list)) = Len(list)
           /\ \A i \in 1 .. Len(list) : DimsOf(list)[i] = dims[list[i]]
BY DEF DimsOf

LEMMA AlignType ==
    ASSUME NEW d \in KnownDims, NEW rank \in Nat, Len(d) <= rank
    PROVE  /\ Align(d, rank) \in KnownDims /\ Len(Align(d, rank)) = rank
           /\ Len(d) = rank => Align(d, rank) = d
<1> DEFINE ones == [i \in 1 .. rank - Len(d) |-> 1]
<1>1. ones \in KnownDims /\ Len(ones) = rank - Len(d)
  BY DEF KnownDims
<1>2. ones \o d \in KnownDims /\ Len(ones \o d) = rank
  BY <1>1 DEF KnownDims
<1>3. ASSUME Len(d) = rank PROVE ones \o d = d
  <2>1. ones = <<>>
    BY <1>1, <1>3 DEF KnownDims
  <2>2. \A e \in KnownDims : <<>> \o e = e
    BY DEF KnownDims
  <2> HIDE DEF ones
  <2> QED BY <2>1, <2>2
<1> QED BY <1>2, <1>3 DEF Align

LEMMA BroadcastType ==
    ASSUME NEW a \in KnownDims, NEW b \in KnownDims
    PROVE  Broadcast(a, b) \in Seq(KnownDims) /\ Len(Broadcast(a, b)) <= 1
<1> DEFINE rank == Max({Len(a), Len(b)})
           x == Align(a, rank)
           y == Align(b, rank)
           c == [i \in 1 .. rank |-> Max({x[i], y[i]})]
<1>1. rank \in Nat /\ Len(a) <= rank /\ Len(b) <= rank
  <2>1. Len(a) \in Nat /\ Len(b) \in Nat
    BY DEF KnownDims
  <2>2. rank = IF Len(a) >= Len(b) THEN Len(a) ELSE Len(b)
    BY <2>1, MaxOfTwo
  <2> HIDE DEF rank
  <2> QED BY <2>1, <2>2
<1> HIDE DEF rank
<1>2. x \in KnownDims /\ Len(x) = rank /\ y \in KnownDims /\ Len(y) = rank
  BY <1>1, AlignType
<1> HIDE DEF x, y
<1>3. \A i \in 1 .. rank : Max({x[i], y[i]}) \in Nat \ {0}
  <2> TAKE i \in 1 .. rank
  <2>1. x[i] \in Nat \ {0} /\ y[i] \in Nat \ {0}
    BY <1>1, <1>2 DEF KnownDims
  <2> QED BY <2>1, MaxOfTwo
<1>4. c \in KnownDims
  BY <1>1, <1>3 DEF KnownDims
<1>5. Broadcast(a, b) \in {<<c>>, <<>>}
  BY DEF Broadcast, rank, x, y
<1> HIDE DEF c
<1>6. CASE Broadcast(a, b) = <<c>>
  BY <1>4, <1>6, OneList
<1>7. CASE Broadcast(a, b) = <<>>
  BY <1>7, NoList
<1> QED BY <1>5, <1>6, <1>7

LEMMA ResolveShapeType ==
    ASSUME NEW target, NEW d
    PROVE  ResolveShape(target, d) \in Seq(KnownDims) /\ Len(ResolveShape(target, d)) <= 1
<1>1. ResolveShape(target, d) = <<>> \/ \E full \in KnownDims : ResolveShape(target, d) = <<full>>
  BY DEF ResolveShape
<1>2. CASE ResolveShape(target, d) = <<>>
  BY <1>2, NoList
<1>3. ASSUME NEW full \in KnownDims, ResolveShape(target, d) = <<full>>
      PROVE  ResolveShape(target, d) \in Seq(KnownDims) /\ Len(ResolveShape(target, d)) <= 1
  BY <1>3, OneList
<1> QED BY <1>1, <1>2, <1>3

LEMMA ShapeTypes ==
    ASSUME NEW a \in KnownDims, NEW b \in KnownDims, NEW axes \in Seq(Int)
    PROVE  /\ Product(a, b) \in Seq(KnownDims) /\ Transposed(a, axes) \in Seq(KnownDims)
           /\ Joined(a, b) \in Seq(KnownDims) /\ Convolved(a, b) \in Seq(KnownDims)
           /\ Parts(a) \in Seq(KnownDims) /\ ConvState(a, b) \in Seq(KnownDims)
<1>1. Product(a, b) \in Seq(KnownDims)
  <2>1. CASE Len(a) = 2 /\ Len(b) = 2
    <3>1. <<a[1], b[2]>> \in KnownDims
      BY <2>1, FirstDims, TwoDims, ThreeDims, FourDims
    <3> QED BY <3>1, NoList, OneList, TwoList, ThreeList DEF Product
  <2> QED BY <2>1, NoList, OneList, TwoList, ThreeList DEF Product
<1>2. Transposed(a, axes) \in Seq(KnownDims)
  <2> DEFINE t == [i \in 1 .. Len(a) |-> a[axes[i]]]
  <2>1. CASE Len(axes) = Len(a) /\ Range(axes) = 1 .. Len(a)
    <3>1. \A i \in 1 .. Len(a) : axes[i] \in 1 .. Len(a)
      BY <2>1 DEF Range
    <3>2. \A i \in 1 .. Len(a) : a[axes[i]] \in Nat \ {0}
      BY <3>1, ElementOfDims
    <3>3. t \in KnownDims
      BY <3>2 DEF KnownDims
    <3>4. Transposed(a, axes) = <<t>>
      BY <2>1 DEF Transposed
    <3> HIDE DEF t
    <3> QED BY <3>3, <3>4, NoList, OneList, TwoList, ThreeList
  <2>2. CASE ~(Len(axes) = Len(a) /\ Range(axes) = 1 .. Len(a))
    <3>1. Transposed(a, axes) = <<>>
      BY <2>2 DEF Transposed
    <3> QED BY <3>1, NoList, OneList, TwoList, ThreeList
  <2> QED BY <2>1, <2>2
<1>3. Joined(a, b) \in Seq(KnownDims)
  <2>1. CASE Len(a) = 3 /\ Len(b) = 3
    <3>1. PICK x \in Nat \ {0}, y \in Nat \ {0}, z \in Nat \ {0}, w \in Nat \ {0} :
            x = a[1] /\ y = a[2] /\ z = a[3] /\ w = b[3]
      <4>1. a[1] \in Nat \ {0} /\ a[2] \in Nat \ {0}
        BY <2>1, FirstDims
      <4>2. a[3] \in Nat \ {0}
        BY <2>1, FirstDims
      <4>3. b[3] \in Nat \ {0}
        BY <2>1, FirstDims
      <4> QED BY <4>1, <4>2, <4>3
    <3>2. z + w \in Nat \ {0}
      OBVIOUS
    <3>3. <<x, y, z + w>> \in KnownDims
      BY <3>2, ThreeDims
    <3>4. Joined(a, b) = <<>> \/ Joined(a, b) = <<<<x, y, z + w>>>>
      BY <3>1 DEF Joined
    <3> QED BY <3>3, <3>4, NoList, OneList
  <2> QED BY <2>1, NoList DEF Joined
<1>4. Convolved(a, b) \in Seq(KnownDims)
  <2>1. CASE Len(a) = 4
    <3>1. PICK x \in Nat \ {0}, y \in Nat \ {0} : x = a[1] /\ y = a[2]
      BY <2>1, FirstDims
    <3>2. <<x, y, 1, 1>> \in KnownDims
      BY FourDims
    <3>3. Convolved(a, b) = <<>> \/ Convolved(a, b) = <<<<x, y, 1, 1>>>>
      BY <3>1 DEF Convolved
    <3> QED BY <3>2, <3>3, NoList, OneList
  <2> QED BY <2>1, NoList DEF Convolved
<1>5. Parts(a) \in Seq(KnownDims)
  <2>1. CASE Len(a) = 3 /\ a[3] > 1
    <3>1. PICK x \in Nat \ {0}, y \in Nat \ {0}, z \in Nat \ {0} :
            x = a[1] /\ y = a[2] /\ z = a[3]
      <4>1. a[1] \in Nat \ {0} /\ a[2] \in Nat \ {0}
        BY <2>1, FirstDims
      <4>2. a[3] \in Nat \ {0}
        BY <2>1, FirstDims
      <4> QED BY <4>1, <4>2
    <3>2. z - 1 \in Nat \ {0}
      BY <2>1, <3>1
    <3>3. <<x, y, 1>> \in KnownDims /\ <<x, y, z - 1>> \in KnownDims
      BY <3>2, ThreeDims
    <3>4. Parts(a) = <<<<x, y, 1>>, <<x, y, z - 1>>>>
      BY <2>1, <3>1 DEF Parts
    <3> QED BY <3>3, <3>4, TwoList
  <2> QED BY <2>1, NoList DEF Parts
<1>6. ConvState(a, b) \in Seq(KnownDims)
  <2>1. CASE Len(a) = 3
    <3>1. <<1, a[2], 1, 1>> \in KnownDims /\ <<1, a[2], 1>> \in KnownDims
      BY <2>1, FirstDims, TwoDims, ThreeDims, FourDims
    <3> QED BY <3>1, NoList, OneList, TwoList, ThreeList DEF ConvState
  <2> QED BY <2>1, NoList, OneList, TwoList, ThreeList DEF ConvState
<1> QED BY <1>1, <1>2, <1>3, <1>4, <1>5, <1>6

\* Whatever operator and inputs, what is inferred are known dimensions.
LEMMA InferType ==
    ASSUME NEW o \in Operators, NEW a \in Seq(Int), NEW d \in Seq(KnownDims), Len(d) \in Arity(o)
    PROVE  Infer(o, a, d) \in Seq(KnownDims)
<1>1. CASE o \in {"Sigmoid", "SiLU", "Identity"}
  <2>1. d[1] \in KnownDims /\ Infer(o, a, d) = <<d[1]>>
    BY <1>1 DEF Arity, Infer
  <2> QED BY <2>1, NoList, OneList, TwoList, ThreeList
<1>2. CASE o \in {"Mul", "Add", "MatMul", "Gemm", "Concat", "Conv"}
  <2>1. d[1] \in KnownDims /\ d[2] \in KnownDims
    BY <1>2 DEF Arity
  <2> QED BY <1>2, <2>1, BroadcastType, ShapeTypes DEF Infer
<1>3. CASE o \in {"Transpose", "Reshape", "Split"}
  <2>1. d[1] \in KnownDims
    BY <1>3 DEF Arity
  <2> QED BY <1>3, <2>1, ResolveShapeType, ShapeTypes DEF Infer
<1>4. CASE o = "QwenDepthwiseConvState"
  <2>1. Len(d) = 3
    BY <1>4 DEF Arity
  <2>2. \A i \in 1 .. Len(d) : d[i] \in KnownDims
    OBVIOUS
  <2>3. d[1] \in KnownDims /\ d[2] \in KnownDims
    BY <2>1, <2>2
  <2> QED BY <1>4, <2>3, ShapeTypes DEF Infer
<1> QED BY <1>1, <1>2, <1>3, <1>4 DEF Operators

\* The tensors after a call that gives the values of list what was inferred.
LEMMA AssignType ==
    ASSUME NEW list \in Seq(Value), NEW inferred \in Seq(KnownDims), Len(inferred) = Len(list)
    PROVE  Assign(list, inferred) \in [Range(list) -> KnownDims]
<1> DEFINE d == Assign(list, inferred)
<1>1. ASSUME NEW v \in Range(list) PROVE d[v] \in KnownDims
  <2> DEFINE k == CHOOSE i \in 1 .. Len(list) : list[i] = v
  <2>1. \E i \in 1 .. Len(list) : list[i] = v
    BY <1>1 DEF Range
  <2>2. k \in 1 .. Len(list)
    BY <2>1
  <2>3. d[v] = inferred[k]
    BY <1>1 DEF Assign
  <2> HIDE DEF d, k
  <2> QED BY <2>2, <2>3, NoList, OneList, TwoList, ThreeList
<1>2. d = [v \in Range(list) |-> d[v]]
  BY DEF Assign
<1> HIDE DEF d
<1>3. d \in [Range(list) -> KnownDims]
  BY <1>1, <1>2
<1> QED BY <1>3 DEF d

\* The dimensions after a call that came to the end, or stopped on the way.
LEMMA InferredType ==
    ASSUME dims \in [Value -> KnownDims], NEW list \in Seq(Value), NEW inferred \in Seq(KnownDims),
           Len(inferred) = Len(list), NEW e,
           e = Assign(list, inferred) \/ e \in Resized(list, Assign(list, inferred))
    PROVE  Inferred(e) \in [Value -> KnownDims]
<1>1. PICK d \in [Range(list) -> KnownDims] : d = Assign(list, inferred)
  BY AssignType
<1>2. CASE e = d
  BY <1>2 DEF Inferred
<1>3. CASE e \in Resized(list, d)
  <2>1. PICK s \in SUBSET Range(list) : e = Restrict(d, s)
    BY <1>3 DEF Resized
  <2>2. e \in [s -> KnownDims]
    BY <2>1 DEF Restrict
  <2> QED BY <2>2 DEF Inferred
<1> QED BY <1>1, <1>2, <1>3

\* A call that changes no tensor.
LEMMA NothingInferred == ASSUME dims \in [Value -> KnownDims] PROVE Inferred(<<>>) = dims
<1>1. DOMAIN <<>> = {}
  OBVIOUS
<1> QED BY <1>1 DEF Inferred

------------------------------------------------------------------------------
(* What a pass does with a candidate, pattern by pattern. *)

LEMMA FirstOfTwo == ASSUME NEW at \in SUBSET {1, 2}, at # {} PROVE Min(at) \in at
<1>1. \E x \in at : \A y \in at : x <= y
  <2>1. CASE 1 \in at
    BY <2>1
  <2>2. CASE 1 \notin at
    <3>1. 2 \in at /\ \A y \in at : y = 2
      BY <2>2
    <3> QED BY <3>1
  <2> QED BY <2>1, <2>2
<1> QED BY <1>1 DEF Min

LEMMA SigmoidMulFound ==
    ASSUME NEW n, SigmoidMulCalls(n) # <<>>
    PROVE  \E i \in {1, 2} :
             /\ SiluAt(n, i)
             /\ SigmoidMulCalls(n) =
                  <<SetOp(n, "SiLU", <<ins[n][3 - i]>>), Drop(producer[ins[n][i]])>>
<1> DEFINE at == {i \in 1 .. Len(ins[n]) : SiluAt(n, i)}
<1>1. at # {}
  BY DEF SigmoidMulCalls
<1>2. \A i \in at : SiluAt(n, i) /\ Len(ins[n]) = 2
  BY DEF SiluAt
<1>3. at \in SUBSET {1, 2}
  <2>1. \A i \in at : i \in 1 .. Len(ins[n]) /\ Len(ins[n]) = 2
    BY <1>2
  <2> HIDE DEF at
  <2>2. \A i \in at : i \in 1 .. 2
    BY <2>1, Zenon
  <2>3. \A i \in at : i \in {1, 2}
    BY <2>2
  <2> QED BY <2>3
<1>4. Min(at) \in at
  BY <1>1, <1>3, FirstOfTwo
<1>5. SigmoidMulCalls(n) =
        <<SetOp(n, "SiLU", <<ins[n][3 - Min(at)]>>), Drop(producer[ins[n][Min(at)]])>>
  BY <1>1 DEF SigmoidMulCalls
<1> HIDE DEF at
<1> QED BY <1>2, <1>3, <1>4, <1>5

LEMMA MatMulAddFound ==
    ASSUME NEW n, MatMulAddCalls(n) # <<>>
    PROVE  \E i \in {1, 2}, m \in live :
             /\ GemmAt(n, i) /\ m = producer[ins[n][i]]
             /\ MatMulAddCalls(n) = <<SetOp(n, "Gemm", Append(ins[m], ins[n][3 - i])), Drop(m)>>
<1> DEFINE at == {i \in 1 .. Len(ins[n]) : GemmAt(n, i)}
<1>1. at # {}
  BY DEF MatMulAddCalls
<1>2. \A i \in at : GemmAt(n, i) /\ Len(ins[n]) = 2
  BY DEF GemmAt
<1>3. at \in SUBSET {1, 2}
  <2>1. \A i \in at : i \in 1 .. Len(ins[n]) /\ Len(ins[n]) = 2
    BY <1>2
  <2> HIDE DEF at
  <2>2. \A i \in at : i \in 1 .. 2
    BY <2>1, Zenon
  <2>3. \A i \in at : i \in {1, 2}
    BY <2>2
  <2> QED BY <2>3
<1>4. Min(at) \in at
  BY <1>1, <1>3, FirstOfTwo
<1>5. PICK m : m = producer[ins[n][Min(at)]]
  OBVIOUS
<1>6. MatMulAddCalls(n) = <<SetOp(n, "Gemm", Append(ins[m], ins[n][3 - Min(at)])), Drop(m)>>
  BY <1>1, <1>5 DEF MatMulAddCalls
<1>7. m \in live
  BY <1>2, <1>4, <1>5 DEF GemmAt, MakerIs
<1> HIDE DEF at
<1> QED BY <1>2, <1>3, <1>4, <1>5, <1>6, <1>7

LEMMA DepthwiseConvFound ==
    ASSUME NEW n, DepthwiseConvCalls(n) # <<>>
    PROVE  \E s \in live, r \in live, c \in live :
             /\ ConvAt(n, s) /\ r = producer[ins[n][1]] /\ c = producer[ins[r][1]]
             /\ DepthwiseConvCalls(n) =
                  <<Absorb(n, s, "QwenDepthwiseConvState", Append(ins[c], ins[n][2])),
                    Drop(r), Drop(c)>>
<1> DEFINE at == {s \in live : ConvAt(n, s)}
<1>1. at # {}
  BY DEF DepthwiseConvCalls
<1>2. PICK s : s = CHOOSE x \in at : TRUE
  OBVIOUS
<1>3. s \in live /\ ConvAt(n, s)
  BY <1>1, <1>2
<1>4. PICK r, c : r = producer[ins[n][1]] /\ c = producer[ins[r][1]]
  OBVIOUS
<1>5. DepthwiseConvCalls(n) =
        <<Absorb(n, s, "QwenDepthwiseConvState", Append(ins[c], ins[n][2])), Drop(r), Drop(c)>>
  BY <1>1, <1>2, <1>4 DEF DepthwiseConvCalls
<1>6. r \in live /\ c \in live
  BY <1>3, <1>4 DEF ConvAt, MakerIs
<1> QED BY <1>3, <1>4, <1>5, <1>6

LEMMA ReshapeChainFound ==
    ASSUME NEW n, ReshapeChainCalls(n) # <<>>
    PROVE  \E p \in live :
             /\ p = producer[ins[n][1]] /\ Single(n) /\ ~IsGraphOutputValue(ins[n][1])
             /\ MakerIs(ins[n][1], "Reshape") /\ Single(p) /\ users[ins[n][1]] = {n}
             /\ ReshapeChainCalls(n) = <<SetInput(n, ins[n][1], ins[p][1]), Drop(p)>>
BY DEF ReshapeChainCalls, MakerIs

LEMMA ElementOfValues == ASSUME NEW s \in Seq(Value), NEW i \in 1 .. Len(s) PROVE s[i] \in Value
OBVIOUS

LEMMA SingleType ==
    ASSUME GraphTypeOK, NEW n \in Node, Single(n)
    PROVE  ins[n][1] \in Value /\ outs[n][1] \in Value
<1>1. ins[n] \in Seq(Value) /\ outs[n] \in Seq(Value)
  BY DEF GraphTypeOK
<1>2. 1 \in 1 .. Len(ins[n]) /\ 1 \in 1 .. Len(outs[n])
  BY DEF Single
<1> QED BY <1>1, <1>2, ElementOfValues

LEMMA InputType ==
    ASSUME GraphTypeOK, NEW n \in Node, NEW i \in {1, 2}, Len(ins[n]) = 2
    PROVE  ins[n][i] \in Value /\ ins[n][3 - i] \in Value
<1>1. ins[n] \in Seq(Value)
  BY DEF GraphTypeOK
<1>2. i \in 1 .. Len(ins[n]) /\ 3 - i \in 1 .. Len(ins[n])
  OBVIOUS
<1> QED BY <1>1, <1>2, ElementOfValues

\* The users of the output, each once, then the node.
LEMMA BypassFound ==
    ASSUME GraphTypeOK, NEW n \in Node, Single(n), NEW s \in Bypass(n)
    PROVE  \E from, to \in Value : \E k \in Nat : \E q \in [1 .. k -> users[from]] :
             /\ from = outs[n][1] /\ to = ins[n][1]
             /\ IsInjective(q) /\ Range(q) = users[from]
             /\ s = Append([i \in 1 .. k |-> SetInput(q[i], from, to)], Drop(n))
<1>1. PICK from \in Value, to \in Value : from = outs[n][1] /\ to = ins[n][1]
  BY SingleType
<1> DEFINE U == users[from]
<1>2. U \subseteq Node /\ IsFiniteSet(U)
  BY <1>1, NodeAssumption, FS_Subset DEF GraphTypeOK
<1>3. PICK k \in Nat : k = Cardinality(U)
  BY <1>2, FS_CardinalityType
<1>4. PICK q \in SetToSeqs(U) :
        s = Append([i \in 1 .. Len(q) |-> SetInput(q[i], from, to)], Drop(n))
  BY <1>1 DEF Bypass
<1>5. q \in [1 .. k -> U] /\ (\A i, j \in 1 .. k : i # j => q[i] # q[j])
  BY <1>3 DEF SetToSeqs
<1>6. Len(q) = k
  BY <1>5
<1>7. IsInjective(q)
  BY <1>5 DEF IsInjective
<1>8. Range(q) = U
  <2>1. q \in Injection(1 .. k, U)
    BY <1>5, <1>7 DEF Injection
  <2>2. IsFiniteSet(1 .. k) /\ Cardinality(1 .. k) = k
    BY FS_Interval
  <2>3. q \in Surjection(1 .. k, U)
    BY <1>2, <1>3, <2>1, <2>2, FS_Injection
  <2> QED BY <1>5, <2>3 DEF Surjection, Range
<1> QED BY <1>1, <1>4, <1>5, <1>6, <1>7, <1>8

------------------------------------------------------------------------------
(* The calls a pass makes are calls. *)

LEMMA CallTypes ==
    ASSUME NEW n \in Node, NEW o \in Op, NEW list \in Seq(Value), NEW a \in Node
    PROVE  /\ SetOp(n, o, list) \in Call /\ Absorb(n, a, o, list) \in Call
           /\ Drop(n) \in Call /\ Relay(n) \in Call
BY DEF SetOp, Drop, Relay, Absorb, Call

LEMMA InputCallType ==
    ASSUME NEW n \in Node, NEW from \in Value, NEW to \in Value
    PROVE  SetInput(n, from, to) \in Call
BY DEF SetInput, Call

LEMMA OneCall == ASSUME NEW x \in Call PROVE <<x>> \in Seq(Call)
OBVIOUS
LEMMA TwoCalls == ASSUME NEW x \in Call, NEW y \in Call PROVE <<x, y>> \in Seq(Call)
OBVIOUS
LEMMA ThreeCalls ==
    ASSUME NEW x \in Call, NEW y \in Call, NEW z \in Call PROVE <<x, y, z>> \in Seq(Call)
OBVIOUS

LEMMA BypassType ==
    ASSUME GraphTypeOK, NEW n \in Node, Single(n), NEW s \in Bypass(n)
    PROVE  s \in Seq(Call)
<1>1. PICK from \in Value, to \in Value :
        \E k \in Nat : \E q \in [1 .. k -> users[from]] :
             /\ from = outs[n][1] /\ to = ins[n][1]
             /\ IsInjective(q) /\ Range(q) = users[from]
             /\ s = Append([i \in 1 .. k |-> SetInput(q[i], from, to)], Drop(n))
  BY BypassFound
<1>a. PICK k \in Nat : \E q \in [1 .. k -> users[from]] :
        s = Append([i \in 1 .. k |-> SetInput(q[i], from, to)], Drop(n))
  BY <1>1
<1>b. PICK q \in [1 .. k -> users[from]] :
        s = Append([i \in 1 .. k |-> SetInput(q[i], from, to)], Drop(n))
  BY <1>a
<1>2. \A i \in 1 .. k : SetInput(q[i], from, to) \in Call
  BY CallTypes DEF GraphTypeOK, SetInput, Call
<1>3. [i \in 1 .. k |-> SetInput(q[i], from, to)] \in Seq(Call)
  BY <1>2
<1>4. Drop(n) \in Call
  BY DEF Drop, Call
<1> QED BY <1>b, <1>3, <1>4

LEMMA CallsType ==
    ASSUME TypeOK, NEW p \in PassNames, NEW n \in Node, NEW s \in CallsFor(p, n),
           p = "NoOp" /\ n \in live => Single(n)
    PROVE  s \in Seq(Call)
<1>1. GraphTypeOK /\ live \subseteq Node /\ Operators \subseteq Op
  BY OpAssumption DEF TypeOK, GraphTypeOK
<1>2. <<>> \in Seq(Call)
  OBVIOUS
<1>3. ASSUME n \in live, p = "SigmoidMul", s # <<>> PROVE s \in Seq(Call)
  <2>1. s = SigmoidMulCalls(n)
    BY <1>3 DEF CallsFor
  <2>2. PICK i \in {1, 2} :
          /\ SiluAt(n, i)
          /\ s = <<SetOp(n, "SiLU", <<ins[n][3 - i]>>), Drop(producer[ins[n][i]])>>
    BY <1>3, <2>1, SigmoidMulFound
  <2>3. ins[n][3 - i] \in Value /\ producer[ins[n][i]] \in Node
    BY <1>1, <2>2, InputType DEF SiluAt, MakerIs
  <2>4. <<ins[n][3 - i]>> \in Seq(Value) /\ "SiLU" \in Op
    BY <1>1, <2>3 DEF Operators
  <2> QED BY <2>2, <2>3, <2>4, CallTypes, TwoCalls
<1>4. ASSUME n \in live, p = "MatMulAdd", s # <<>> PROVE s \in Seq(Call)
  <2>1. s = MatMulAddCalls(n)
    BY <1>4 DEF CallsFor
  <2>2. PICK i \in {1, 2}, m \in live :
          GemmAt(n, i) /\ s = <<SetOp(n, "Gemm", Append(ins[m], ins[n][3 - i])), Drop(m)>>
    BY <1>4, <2>1, MatMulAddFound
  <2>3. ins[n][3 - i] \in Value /\ m \in Node
    BY <1>1, <2>2, InputType DEF GemmAt
  <2>4. Append(ins[m], ins[n][3 - i]) \in Seq(Value) /\ "Gemm" \in Op
    BY <1>1, <2>3 DEF Operators, GraphTypeOK
  <2> QED BY <2>2, <2>3, <2>4, CallTypes, TwoCalls
<1>5. ASSUME n \in live, p = "QwenDepthwiseConv", s # <<>> PROVE s \in Seq(Call)
  <2>1. s = DepthwiseConvCalls(n)
    BY <1>5 DEF CallsFor
  <2>2. PICK a \in live, r \in live, c \in live :
          /\ ConvAt(n, a)
          /\ s = <<Absorb(n, a, "QwenDepthwiseConvState", Append(ins[c], ins[n][2])),
                   Drop(r), Drop(c)>>
    BY <1>5, <2>1, DepthwiseConvFound
  <2>3. ins[n][2] \in Value /\ r \in Node /\ c \in Node
    BY <1>1, <2>2, InputType DEF ConvAt
  <2>4. Append(ins[c], ins[n][2]) \in Seq(Value) /\ "QwenDepthwiseConvState" \in Op /\ a \in Node
    BY <1>1, <2>3 DEF Operators, GraphTypeOK
  <2> QED BY <2>2, <2>3, <2>4, CallTypes, ThreeCalls
<1>6. ASSUME n \in live, p = "ReshapeChain", s # <<>> PROVE s \in Seq(Call)
  <2>1. s = ReshapeChainCalls(n)
    BY <1>6 DEF CallsFor
  <2>2. PICK m \in live :
          /\ Single(n) /\ Single(m)
          /\ s = <<SetInput(n, ins[n][1], ins[m][1]), Drop(m)>>
    BY <1>6, <2>1, ReshapeChainFound
  <2>3. ins[n][1] \in Value /\ m \in Node
    BY <1>1, <2>2, SingleType
  <2>4. ins[m][1] \in Value
    BY <1>1, <2>2, <2>3, SingleType
  <2>5. Drop(m) \in Call
    BY <2>3 DEF Drop, Call
  <2> QED BY <2>2, <2>3, <2>4, <2>5, InputCallType, TwoCalls
<1>7. ASSUME n \in live, p \in {"Identity", "NoOp"}, s # <<>> PROVE s \in Seq(Call)
  <2>1. Single(n) /\ s \in Bypass(n)
    BY <1>7 DEF CallsFor
  <2> QED BY <1>1, <2>1, BypassType
<1>8. ASSUME n \in live, p \in {"DeadNode", "StateOutputAlias"} PROVE s \in Seq(Call)
  <2>1. s = <<Drop(n)>> \/ s = <<Relay(n)>>
    BY <1>8 DEF CallsFor
  <2>2. Drop(n) \in Call /\ Relay(n) \in Call
    BY DEF Drop, Relay, Call
  <2> QED BY <2>1, <2>2, OneCall
<1>9. CASE n \notin live
  BY <1>2, <1>9 DEF CallsFor
<1> QED BY <1>2, <1>3, <1>4, <1>5, <1>6, <1>7, <1>8, <1>9 DEF PassNames

------------------------------------------------------------------------------
(* Types of the pipeline. *)

\* NoOpEliminationPass looks at the lengths of a node's lists before it bypasses
\* the first one; its own calls change none.
NoOpKeepsSingles ==
    pass > 0 /\ Passes[pass] = "NoOp" =>
        /\ \A n \in work : Single(n)
        /\ \A i \in 1 .. Len(todo) : todo[i].f \in {"input", "remove"}

NothingBeforeFirst == pass = 0 => work = {} /\ todo = <<>>

TypesInv == TypeOK /\ NothingBeforeFirst /\ NoOpKeepsSingles

LEMMA CallFields ==
    ASSUME NEW c \in Call
    PROVE  /\ c.n \in Node
           /\ c.f = "input" => c.from \in Value /\ c.to \in Value
           /\ c.f \in {"op", "absorb"} => c.o \in Op /\ c.list \in Seq(Value)
           /\ c.f = "absorb" => c.a \in Node
BY DEF Call

LEMMA HeadCall ==
    ASSUME TypeOK, NEW f, Calls(f)
    PROVE  Head(todo) \in Call /\ Head(todo).f = f /\ Tail(todo) \in Seq(Call)
<1>1. todo \in Seq(Call) /\ todo # <<>>
  BY DEF TypeOK, Calls
<1>2. \A s \in Seq(Call) : s # <<>> => Head(s) \in Call /\ Tail(s) \in Seq(Call)
  OBVIOUS
<1> QED BY <1>1, <1>2 DEF Calls

LEMMA KnownDimsAreDims == ASSUME NEW d \in KnownDims PROVE d \in Dims
BY DEF KnownDims, Dims

LEMMA KnownTensors == ASSUME NEW e \in [Value -> KnownDims] PROVE e \in [Value -> Dims]
BY KnownDimsAreDims

\* The dimensions afterwards, given as the dimensions of all values.
LEMMA InferredAll == ASSUME NEW e, DOMAIN e = Value, e = [v \in Value |-> e[v]] PROVE Inferred(e) = e
BY DEF Inferred

LEMMA WithInputType ==
    ASSUME GraphTypeOK, NEW n \in Node, NEW from \in Value, NEW to \in Value
    PROVE  WithInput(n, from, to) \in Seq(Value) /\ Len(WithInput(n, from, to)) = Len(ins[n])
<1>1. ins[n] \in Seq(Value)
  BY DEF GraphTypeOK
<1>2. \A i \in 1 .. Len(ins[n]) : ins[n][i] \in Value
  BY <1>1
<1> QED BY <1>1, <1>2 DEF WithInput

LEMMA CreatableType ==
    ASSUME NEW o, NEW a \in Seq(Int), NEW d \in Seq(KnownDims), NEW made, Creatable(o, a, d, made)
    PROVE  Infer(o, a, d) \in Seq(KnownDims) /\ Len(Infer(o, a, d)) = made
BY InferType DEF Creatable

LEMMA NoAttributes == <<>> \in Seq(Int)
OBVIOUS

LEMMA TypeParts ==
    ASSUME TypeOK
    PROVE  /\ GraphTypeOK /\ dims \in [Value -> KnownDims] /\ attr \in [Node -> Seq(Int)]
           /\ ins \in [Node -> Seq(Value)] /\ outs \in [Node -> Seq(Value)] /\ op \in [Node -> Op]
           /\ live \subseteq Node
BY DEF TypeOK, GraphTypeOK

\* What one call does to the graph: a step of GraphNext, or nothing.
Rewrites == (GraphNext /\ Typed) \/ UNCHANGED graphVars

\* Types of the graph after a call, from the step of StaticGraph it is.
LEMMA RewriteTypes ==
    ASSUME TypeOK, Rewrites
    PROVE  GraphTypeOK'
<1>1. CASE GraphNext /\ Typed
  BY <1>1, TypesKept DEF TypeOK
<1>2. CASE UNCHANGED graphVars
  BY <1>2 DEF graphVars, GraphTypeOK, TypeOK
<1> QED BY <1>1, <1>2 DEF Rewrites

LEMMA RemoveRewrites ==
    ASSUME TypeOK, DoRemove
    PROVE  Rewrites /\ dims' = dims
<1>1. Head(todo) \in Call
  BY HeadCall DEF DoRemove
<1>2. PICK n \in Node : n = Head(todo).n
  BY <1>1, CallFields
<1>3. CASE RemoveNode(n)
  <2>1. GraphNext
    BY <1>3 DEF GraphNext
  <2>2. Typed
    BY <1>3 DEF RemoveNode, Typed, TypeOK, GraphTypeOK
  <2> QED BY <1>3, <2>1, <2>2 DEF Rewrites, RemoveNode
<1>4. CASE UNCHANGED graphVars
  BY <1>4 DEF Rewrites, graphVars
<1> QED BY <1>2, <1>3, <1>4 DEF DoRemove

LEMMA RelayRewrites ==
    ASSUME TypeOK, DoRelay
    PROVE  Rewrites /\ dims' = dims
<1>1. Head(todo) \in Call
  BY HeadCall DEF DoRelay
<1>2. PICK n \in Node : n = Head(todo).n
  BY <1>1, CallFields
<1>3. CASE RemoveNodeWithOutputAlias(n)
  <2>1. GraphNext
    BY <1>3 DEF GraphNext
  <2>2. Typed
    BY <1>3 DEF RemoveNodeWithOutputAlias, Typed, TypeOK, GraphTypeOK
  <2> QED BY <1>3, <2>1, <2>2 DEF Rewrites, RemoveNodeWithOutputAlias
<1>4. CASE UNCHANGED graphVars
  BY <1>4 DEF Rewrites, graphVars
<1> QED BY <1>2, <1>3, <1>4 DEF DoRelay

LEMMA BeforeType ==
    ASSUME NEW list \in Seq(Value), NEW taken \in Before(list)
    PROVE  taken \in SUBSET Range(list)
<1>1. PICK k \in 0 .. Len(list) - 1 : taken = Range(SubSeq(list, 1, k))
  BY DEF Before
<1>2. \A i \in 1 .. k : SubSeq(list, 1, k)[i] = list[i] /\ i \in DOMAIN list
  OBVIOUS
<1>3. DOMAIN SubSeq(list, 1, k) = 1 .. k
  OBVIOUS
<1> QED BY <1>1, <1>2, <1>3 DEF Range

LEMMA SetInputRewrites ==
    ASSUME TypeOK, DoSetInput
    PROVE  Rewrites /\ dims' \in [Value -> KnownDims]
<1>1. Head(todo) \in Call /\ Head(todo).f = "input"
  BY HeadCall DEF DoSetInput
<1>2. PICK c : c = Head(todo)
  OBVIOUS
<1>3. PICK n \in Node, from \in Value, to \in Value : n = c.n /\ from = c.from /\ to = c.to
  BY <1>1, <1>2, CallFields
<1>4. PICK list : list = WithInput(n, from, to)
  OBVIOUS
<1>5. list \in Seq(Value)
  BY <1>4, TypeParts, WithInputType
<1>6. DimsOf(list) \in Seq(KnownDims) /\ attr[n] \in Seq(Int) /\ outs[n] \in Seq(Value)
  BY <1>5, TypeParts, DimsOfFacts
<1>7. ASSUME NEW taken \in SUBSET Range(outs[n]), NEW d,
             ReplaceInputValue(n, from, to, taken, d), Inferred(d) \in [Value -> KnownDims]
      PROVE  Rewrites /\ dims' \in [Value -> KnownDims]
  <2>1. dims' \in [Value -> KnownDims] /\ dims' \in [Value -> Dims]
    BY <1>7, KnownTensors DEF ReplaceInputValue
  <2>2. dims' = Inferred(dims')
    BY <2>1 DEF Inferred
  <2>3. ReplaceInputValue(n, from, to, taken, dims')
    BY <1>7, <2>2 DEF ReplaceInputValue
  <2>4. GraphNext
    BY <2>3 DEF GraphNext
  <2>5. ins' \in [Node -> Seq(Value)]
    BY <1>4, <1>5, <1>7, TypeParts DEF ReplaceInputValue
  <2>6. Typed
    BY <1>7, <2>1, <2>5, TypeParts DEF ReplaceInputValue, Typed
  <2> QED BY <2>1, <2>4, <2>6 DEF Rewrites
<1>8. CASE UNCHANGED graphVars
  BY <1>8, TypeParts DEF Rewrites, graphVars
<1>9. PICK d : d = Assign(outs[n], Infer(op[n], attr[n], DimsOf(list)))
  OBVIOUS
<1>10. ASSUME Creatable(op[n], attr[n], DimsOf(list), Len(outs[n])),
              NEW taken \in SUBSET Range(outs[n]), NEW e, e = d \/ e \in Resized(outs[n], d),
              ReplaceInputValue(n, from, to, taken, e)
       PROVE  Rewrites /\ dims' \in [Value -> KnownDims]
  <2>1. /\ Infer(op[n], attr[n], DimsOf(list)) \in Seq(KnownDims)
        /\ Len(Infer(op[n], attr[n], DimsOf(list))) = Len(outs[n])
    BY <1>6, <1>10, CreatableType
  <2>2. Inferred(e) \in [Value -> KnownDims]
    BY <1>6, <1>9, <1>10, <2>1, TypeParts, InferredType
  <2> QED BY <1>7, <1>10, <2>2
<1>11. CASE ReplaceInputValue(n, from, to, {}, <<>>)
  BY <1>7, <1>11, NothingInferred, TypeParts
<1>12. \/ UNCHANGED graphVars
       \/ ReplaceInputValue(n, from, to, {}, <<>>)
       \/ /\ Creatable(op[n], attr[n], DimsOf(list), Len(outs[n]))
          /\ \/ ReplaceInputValue(n, from, to, Range(outs[n]), d)
             \/ \E e \in Resized(outs[n], d) : ReplaceInputValue(n, from, to, {}, e)
             \/ \E taken \in Before(outs[n]), e \in Resized(outs[n], d) :
                   ReplaceInputValue(n, from, to, taken, e)
  BY <1>2, <1>3, <1>4, <1>9 DEF DoSetInput
<1> QED BY <1>6, <1>8, <1>10, <1>11, <1>12, BeforeType

LEMMA CreateRewrites ==
    ASSUME TypeOK, NEW n \in Node, NEW e, CreateFails(e), dims' = Inferred(dims'),
           dims' \in [Value -> KnownDims]
    PROVE  Rewrites
<1>1. CreateFails(dims')
  BY DEF CreateFails
<1>2. GraphNext
  BY <1>1 DEF GraphNext
<1>3. Typed
  BY KnownTensors, TypeParts DEF CreateFails, Typed
<1> QED BY <1>2, <1>3 DEF Rewrites

LEMMA SetOpRewrites ==
    ASSUME TypeOK, DoSetOp
    PROVE  Rewrites /\ dims' \in [Value -> KnownDims]
<1>1. Head(todo) \in Call /\ Head(todo).f = "op"
  BY HeadCall DEF DoSetOp
<1>2. PICK c : c = Head(todo)
  OBVIOUS
<1>3. PICK n \in Node, o \in Op, list \in Seq(Value) : n = c.n /\ o = c.o /\ list = c.list
  BY <1>1, <1>2, CallFields
<1>4. DimsOf(list) \in Seq(KnownDims) /\ attr[n] \in Seq(Int) /\ outs[n] \in Seq(Value)
  BY <1>3, TypeParts, DimsOfFacts
<1>5. CASE UNCHANGED graphVars
  BY <1>5, TypeParts DEF Rewrites, graphVars
<1>6. PICK d : d = Assign(outs[n], Infer(o, attr[n], DimsOf(list)))
  OBVIOUS
<1>7. ASSUME Creatable(o, attr[n], DimsOf(list), Len(outs[n])),
             NEW e, e = d \/ e \in Resized(outs[n], d)
      PROVE  Inferred(e) \in [Value -> KnownDims]
  <2>1. /\ Infer(o, attr[n], DimsOf(list)) \in Seq(KnownDims)
        /\ Len(Infer(o, attr[n], DimsOf(list))) = Len(outs[n])
    BY <1>4, <1>7, CreatableType
  <2> QED BY <1>4, <1>6, <1>7, <2>1, TypeParts, InferredType
<1>8. ASSUME NEW e, Inferred(e) \in [Value -> KnownDims], dims' = Inferred(e)
      PROVE  /\ dims' \in [Value -> KnownDims] /\ dims' \in [Value -> Dims]
             /\ dims' = Inferred(dims')
  <2>1. dims' \in [Value -> KnownDims] /\ dims' \in [Value -> Dims]
    BY <1>8, KnownTensors
  <2> QED BY <2>1 DEF Inferred
<1>9. ASSUME NEW taken \in SUBSET Range(outs[n]), NEW e, Inferred(e) \in [Value -> KnownDims],
             ReplaceNodeDesc(n, o, list, taken, e)
      PROVE  Rewrites /\ dims' \in [Value -> KnownDims]
  <2>1. dims' \in [Value -> KnownDims] /\ dims' \in [Value -> Dims] /\ dims' = Inferred(dims')
    BY <1>8, <1>9 DEF ReplaceNodeDesc
  <2>2. op'[n] = o /\ ins'[n] = list
    BY <1>9, TypeParts DEF ReplaceNodeDesc
  <2>3. ReplaceNodeDesc(n, op'[n], ins'[n], taken, dims')
    BY <1>9, <2>1, <2>2 DEF ReplaceNodeDesc
  <2>4. GraphNext
    BY <2>3 DEF GraphNext
  <2>5. ins' \in [Node -> Seq(Value)] /\ op' \in [Node -> Op]
    BY <1>9, TypeParts DEF ReplaceNodeDesc
  <2> QED BY <2>1, <2>4, <2>5 DEF Rewrites, Typed
<1>10. ASSUME NEW e, Inferred(e) \in [Value -> KnownDims], CreateFails(e)
       PROVE  Rewrites /\ dims' \in [Value -> KnownDims]
  <2>1. dims' \in [Value -> KnownDims] /\ dims' = Inferred(dims')
    BY <1>8, <1>10 DEF CreateFails
  <2> QED BY <1>10, <2>1, CreateRewrites
<1>11. \/ UNCHANGED graphVars
       \/ /\ Creatable(o, attr[n], DimsOf(list), Len(outs[n]))
          /\ \/ ReplaceNodeDesc(n, o, list, Range(outs[n]), d)
             \/ \E e \in Resized(outs[n], d) : CreateFails(e)
             \/ \E taken \in Before(outs[n]), e \in Resized(outs[n], d) :
                   ReplaceNodeDesc(n, o, list, taken, e)
  BY <1>2, <1>3, <1>6 DEF DoSetOp
<1> QED BY <1>4, <1>5, <1>7, <1>9, <1>10, <1>11, BeforeType

LEMMA AbsorbRewrites ==
    ASSUME TypeOK, DoAbsorb
    PROVE  Rewrites /\ dims' \in [Value -> KnownDims]
<1>1. Head(todo) \in Call /\ Head(todo).f = "absorb"
  BY HeadCall DEF DoAbsorb
<1>2. PICK c : c = Head(todo)
  OBVIOUS
<1>3. PICK n \in Node, a \in Node, o \in Op, list \in Seq(Value) :
        n = c.n /\ a = c.a /\ o = c.o /\ list = c.list
  BY <1>1, <1>2, CallFields
<1>4. PICK all : all = outs[n] \o outs[a]
  OBVIOUS
<1>5. DimsOf(list) \in Seq(KnownDims) /\ all \in Seq(Value)
  BY <1>3, <1>4, TypeParts, DimsOfFacts
<1>6. PICK inferred : inferred = Infer(o, <<>>, DimsOf(list))
  OBVIOUS
<1>7. PICK d : d = Assign(all, inferred)
  BY <1>6
<1>8. CASE UNCHANGED graphVars
  BY <1>8, TypeParts DEF Rewrites, graphVars
<1>9. ASSUME Creatable(o, <<>>, DimsOf(list), Len(all)), NEW e, e = d \/ e \in Resized(all, d),
             dims' = Inferred(e)
      PROVE  dims' \in [Value -> KnownDims] /\ dims' \in [Value -> Dims] /\ dims' = Inferred(dims')
  <2>1. inferred \in Seq(KnownDims) /\ Len(inferred) = Len(all)
    BY <1>5, <1>6, <1>9, NoAttributes, CreatableType
  <2>2. dims' \in [Value -> KnownDims] /\ dims' \in [Value -> Dims]
    BY <1>5, <1>7, <1>9, <2>1, TypeParts, InferredType, KnownTensors
  <2> QED BY <2>2 DEF Inferred
<1>10. ASSUME op' = [op EXCEPT ![n] = o], ins' = [ins EXCEPT ![n] = list]
       PROVE  /\ op'[n] = o /\ ins'[n] = list
              /\ ins' \in [Node -> Seq(Value)] /\ op' \in [Node -> Op]
  BY <1>10, TypeParts
<1>11. CASE /\ Creatable(o, <<>>, DimsOf(list), Len(all))
            /\ ReplaceNodeDescAndAbsorbNode(n, a, o, list, d)
  <2>1. dims' \in [Value -> KnownDims] /\ dims' \in [Value -> Dims] /\ dims' = Inferred(dims')
    BY <1>9, <1>11 DEF ReplaceNodeDescAndAbsorbNode
  <2>2. /\ op'[n] = o /\ ins'[n] = list
        /\ ins' \in [Node -> Seq(Value)] /\ op' \in [Node -> Op]
    BY <1>10, <1>11 DEF ReplaceNodeDescAndAbsorbNode, TakeOver
  <2>3. ReplaceNodeDescAndAbsorbNode(n, a, op'[n], ins'[n], dims')
    BY <1>11, <2>1, <2>2 DEF ReplaceNodeDescAndAbsorbNode
  <2>4. GraphNext
    BY <2>3 DEF GraphNext
  <2> QED BY <2>1, <2>2, <2>4 DEF Rewrites, Typed
<1>12. ASSUME Creatable(o, <<>>, DimsOf(list), Len(all)), NEW taken \in Before(all),
              NEW e \in Resized(all, d), AbsorbHalf(n, a, o, list, taken, e)
       PROVE  Rewrites /\ dims' \in [Value -> KnownDims]
  <2>1. dims' \in [Value -> KnownDims] /\ dims' \in [Value -> Dims] /\ dims' = Inferred(dims')
    BY <1>9, <1>12 DEF AbsorbHalf
  <2>2. /\ op'[n] = o /\ ins'[n] = list
        /\ ins' \in [Node -> Seq(Value)] /\ op' \in [Node -> Op]
    BY <1>10, <1>12 DEF AbsorbHalf, TakeOver
  <2>3. AbsorbHalf(n, a, op'[n], ins'[n], taken, dims')
    BY <1>12, <2>1, <2>2 DEF AbsorbHalf
  <2>4. outs'[n] = all
    BY <1>4, <1>12, TypeParts DEF AbsorbHalf
  <2>5. taken \in SUBSET Range(outs'[n])
    BY <1>5, <1>12, <2>4, BeforeType
  <2>6. GraphNext
    BY <2>3, <2>5 DEF GraphNext
  <2> QED BY <2>1, <2>2, <2>6 DEF Rewrites, Typed
<1>13. ASSUME Creatable(o, <<>>, DimsOf(list), Len(all)), NEW e \in Resized(all, d), CreateFails(e)
       PROVE  Rewrites /\ dims' \in [Value -> KnownDims]
  <2>1. dims' = Inferred(e)
    BY <1>13 DEF CreateFails
  <2>2. dims' \in [Value -> KnownDims] /\ dims' = Inferred(dims')
    BY <1>9, <1>13, <2>1
  <2> QED BY <1>13, <2>2, CreateRewrites
<1>14. \/ UNCHANGED graphVars
       \/ /\ Creatable(o, <<>>, DimsOf(list), Len(all))
          /\ \/ ReplaceNodeDescAndAbsorbNode(n, a, o, list, d)
             \/ \E e \in Resized(all, d) : CreateFails(e)
             \/ \E taken \in Before(all), e \in Resized(all, d) : AbsorbHalf(n, a, o, list, taken, e)
  BY <1>2, <1>3, <1>4, <1>6, <1>7 DEF DoAbsorb
<1> QED BY <1>8, <1>11, <1>12, <1>13, <1>14

------------------------------------------------------------------------------
(* The graph that is built from a model. *)

\* The parts of Init as they are used, for a model of Graphs.
Built(g) ==
    /\ IsModel(g)
    /\ live = 1 .. Len(g.nodes) /\ live \subseteq Node
    /\ op = [n \in Node |-> NodeOf(g, n).op]
    /\ ins = [n \in Node |-> NodeOf(g, n).ins]
    /\ outs = [n \in Node |-> NodeOf(g, n).outs]
    /\ attr = [n \in Node |-> NodeOf(g, n).attr]
    /\ \A n \in live : NodeOf(g, n) = g.nodes[n]
    /\ g.nodes \in Seq([op : Op, attr : Seq(Int), ins : Seq(Value), outs : Seq(Value)])
    /\ outputs = g.outputs

LEMMA NodeFacts ==
    /\ \A n \in Node : n \in Nat /\ n >= 1 /\ n <= Cardinality(Node)
    /\ Cardinality(Node) \in Nat
    /\ \A n \in 1 .. Cardinality(Node) : n \in Node
<1>1. IsFiniteSet(Node) /\ Node = 1 .. Cardinality(Node)
  BY NodeAssumption
<1>2. PICK k : k = Cardinality(Node)
  OBVIOUS
<1>3. k \in Nat /\ Node = 1 .. k
  BY <1>1, <1>2, FS_CardinalityType
<1>4. \A n \in 1 .. k : n \in Nat /\ n >= 1 /\ n <= k
  BY <1>3
<1> QED BY <1>2, <1>3, <1>4

LEMMA InitBuilt == ASSUME Init PROVE \E g \in Graphs : Built(g)
<1>1. PICK g \in Graphs :
        /\ live = 1 .. Len(g.nodes)
        /\ op = [n \in Node |-> NodeOf(g, n).op]
        /\ ins = [n \in Node |-> NodeOf(g, n).ins]
        /\ outs = [n \in Node |-> NodeOf(g, n).outs]
        /\ attr = [n \in Node |-> NodeOf(g, n).attr]
        /\ outputs = g.outputs
  BY DEF Init
<1>2. IsModel(g)
  BY ModelsAssumption
<1>3. /\ g.nodes \in Seq([op : Op, attr : Seq(Int), ins : Seq(Value), outs : Seq(Value)])
      /\ Len(g.nodes) <= Cardinality(Node)
  BY <1>2 DEF IsModel
<1>4. \A n \in live : n \in Node /\ n <= Len(g.nodes)
  <2>1. Len(g.nodes) \in Nat
    BY <1>3
  <2> QED BY <1>1, <1>3, <2>1, NodeFacts
<1>5. \A n \in live : NodeOf(g, n) = g.nodes[n]
  BY <1>4 DEF NodeOf
<1> QED BY <1>1, <1>2, <1>3, <1>4, <1>5 DEF Built

LEMMA ElementOf == ASSUME NEW S, NEW s \in Seq(S), NEW i \in 1 .. Len(s) PROVE s[i] \in S
OBVIOUS

LEMMA NodeOfType ==
    ASSUME NEW g \in Graphs, Built(g), NEW n \in Node
    PROVE  /\ NodeOf(g, n).op \in Op /\ NodeOf(g, n).attr \in Seq(Int)
           /\ NodeOf(g, n).ins \in Seq(Value) /\ NodeOf(g, n).outs \in Seq(Value)
<1>1. CASE n <= Len(g.nodes)
  <2>1. Len(g.nodes) \in Nat
    BY DEF Built
  <2>2. n \in 1 .. Len(g.nodes)
    BY <1>1, <2>1, NodeFacts
  <2>3. g.nodes[n] \in [op : Op, attr : Seq(Int), ins : Seq(Value), outs : Seq(Value)]
    BY <2>2, ElementOf DEF Built
  <2>4. NodeOf(g, n) = g.nodes[n]
    BY <1>1 DEF NodeOf
  <2> QED BY <2>3, <2>4
<1>2. CASE ~(n <= Len(g.nodes))
  <2>1. NodeOf(g, n) = [op |-> "Identity", attr |-> <<>>, ins |-> <<>>, outs |-> <<>>]
    BY <1>2 DEF NodeOf
  <2>2. "Identity" \in Op
    BY OpAssumption DEF Operators
  <2> QED BY <2>1, <2>2
<1> QED BY <1>1, <1>2

\* A value has one producer among the nodes of a model.
LEMMA OneProducer ==
    ASSUME NEW g \in Graphs, Built(g), NEW m \in live, NEW n \in live, NEW v,
           v \in Range(outs[m]), v \in Range(outs[n])
    PROVE  m = n
<1>1. outs[m] = g.nodes[m].outs /\ outs[n] = g.nodes[n].outs
  BY DEF Built
<1>2. m \in 1 .. Len(g.nodes) /\ n \in 1 .. Len(g.nodes) /\ Len(g.nodes) \in Nat
  BY DEF Built
<1>3. \A i \in 1 .. Len(g.nodes) : \A j \in 1 .. i - 1 :
        Range(g.nodes[i].outs) \cap Range(g.nodes[j].outs) = {}
  BY DEF Built, IsModel
<1>4. CASE m < n
  <2>1. m \in 1 .. n - 1
    BY <1>2, <1>4
  <2> QED BY <1>1, <1>2, <1>3, <2>1
<1>5. CASE n < m
  <2>1. n \in 1 .. m - 1
    BY <1>2, <1>5
  <2> QED BY <1>1, <1>2, <1>3, <2>1
<1> QED BY <1>2, <1>4, <1>5

LEMMA InitTypes == ASSUME Init PROVE TypesInv /\ GraphInit
<1>1. PICK g \in Graphs : Built(g)
  BY InitBuilt
<1>2. /\ op \in [Node -> Op] /\ ins \in [Node -> Seq(Value)] /\ outs \in [Node -> Seq(Value)]
      /\ attr \in [Node -> Seq(Int)]
  BY <1>1, NodeOfType DEF Built
<1>3. live \subseteq Node
  BY <1>1 DEF Built
<1>4. outputs \subseteq Value
  <2> DEFINE made(i) == Range(g.nodes[i].outs)
  <2>1. outputs \subseteq Source \cup UNION {made(i) : i \in 1 .. Len(g.nodes)}
    BY <1>1 DEF Built, IsModel
  <2>2. \A i \in 1 .. Len(g.nodes) : made(i) \subseteq Value
    <3> TAKE i \in 1 .. Len(g.nodes)
    <3>1. g.nodes[i] \in [op : Op, attr : Seq(Int), ins : Seq(Value), outs : Seq(Value)]
      BY <1>1, ElementOf DEF Built
    <3>2. g.nodes[i].outs \in Seq(Value)
      BY <3>1
    <3> QED BY <3>2 DEF Range
  <2> HIDE DEF made
  <2> QED BY <2>1, <2>2, SourceAssumption
<1>5. /\ users = [v \in Value |-> UsersOf(v)]
      /\ producer = [v \in Value |-> IF ProducersOf(v) = {} THEN NoNode
                                     ELSE CHOOSE n \in ProducersOf(v) : TRUE]
      /\ alias = [v \in Value |-> NoValue]
      /\ torn = FALSE
      /\ dims \in [Value -> KnownDims]
  BY DEF Init
<1>6. users \in [Value -> SUBSET Node]
  BY <1>3, <1>5 DEF UsersOf
<1>7. producer \in [Value -> Node \cup {NoNode}]
  <2>1. \A v \in Value : ProducersOf(v) \subseteq Node
    BY <1>3 DEF ProducersOf
  <2>2. \A v \in Value : ProducersOf(v) # {} => (CHOOSE n \in ProducersOf(v) : TRUE) \in ProducersOf(v)
    OBVIOUS
  <2> QED BY <1>5, <2>1, <2>2
<1>8. GraphTypeOK
  BY <1>2, <1>3, <1>4, <1>5, <1>6, <1>7, KnownTensors DEF GraphTypeOK
<1>9. /\ pass = 0 /\ work = {} /\ todo = <<>> /\ changed = FALSE /\ status = "running"
  BY DEF Init
<1>10. TypeOK
  <2>1. pass \in 0 .. Len(Passes)
    BY <1>9, PassesAssumption
  <2>2. todo \in Seq(Call)
    BY <1>9
  <2> QED BY <1>2, <1>5, <1>8, <1>9, <2>1, <2>2 DEF TypeOK
<1>11. \A v \in Value : \A n \in Node : producer[v] = n <=> n \in ProducersOf(v)
  <2> TAKE v \in Value
  <2>1. \A m, n \in ProducersOf(v) : m = n
    BY <1>1, OneProducer DEF ProducersOf
  <2>2. producer[v] = IF ProducersOf(v) = {} THEN NoNode ELSE CHOOSE n \in ProducersOf(v) : TRUE
    BY <1>5
  <2>3. ProducersOf(v) # {} => (CHOOSE n \in ProducersOf(v) : TRUE) \in ProducersOf(v)
    OBVIOUS
  <2> QED BY <2>1, <2>2, <2>3
<1>12. \A v \in Value : users[v] = UsersOf(v)
  BY <1>5
<1>13. GraphInit
  BY <1>5, <1>8, <1>11, <1>12 DEF GraphInit
<1>14. NothingBeforeFirst /\ NoOpKeepsSingles
  BY <1>9 DEF NothingBeforeFirst, NoOpKeepsSingles
<1> QED BY <1>10, <1>13, <1>14 DEF TypesInv

------------------------------------------------------------------------------
(* The steps keep the types. *)

LEMMA PassName ==
    ASSUME NEW i \in Int, i >= 1, i <= Len(Passes) PROVE Passes[i] \in PassNames
<1>1. Passes \in Seq(PassNames) /\ i \in 1 .. Len(Passes)
  BY PassesAssumption
<1>2. \A s \in Seq(PassNames) : \A k \in 1 .. Len(s) : s[k] \in PassNames
  OBVIOUS
<1> QED BY <1>1, <1>2

\* The calls of a match keep a bypassed node a single one.
LEMMA BypassCalls ==
    ASSUME GraphTypeOK, NEW n \in Node, Single(n), NEW s \in Bypass(n)
    PROVE  \A i \in 1 .. Len(s) : s[i].f \in {"input", "remove"}
<1>1. PICK from \in Value, to \in Value :
        \E k \in Nat : \E q \in [1 .. k -> users[from]] :
             /\ from = outs[n][1] /\ to = ins[n][1]
             /\ IsInjective(q) /\ Range(q) = users[from]
             /\ s = Append([i \in 1 .. k |-> SetInput(q[i], from, to)], Drop(n))
  BY BypassFound
<1>2. PICK k \in Nat : \E q \in [1 .. k -> users[from]] :
        s = Append([i \in 1 .. k |-> SetInput(q[i], from, to)], Drop(n))
  BY <1>1
<1>3. PICK q \in [1 .. k -> users[from]] :
        s = Append([i \in 1 .. k |-> SetInput(q[i], from, to)], Drop(n))
  BY <1>2
<1>4. PICK t : t = [i \in 1 .. k |-> SetInput(q[i], from, to)]
  OBVIOUS
<1>5. \A i \in 1 .. k : SetInput(q[i], from, to) \in Call
  BY InputCallType DEF GraphTypeOK
<1>6. t \in Seq(Call) /\ Len(t) = k /\ \A i \in 1 .. k : t[i].f = "input"
  BY <1>4, <1>5 DEF SetInput
<1>7. Drop(n).f = "remove" /\ Drop(n) \in Call
  BY DEF Drop, Call
<1>8. PICK x \in Call : x = Drop(n)
  BY <1>7
<1>9. Len(s) = k + 1 /\ s[k + 1] = x /\ \A i \in 1 .. k : s[i] = t[i]
  BY <1>3, <1>4, <1>6, <1>8
<1> QED BY <1>6, <1>7, <1>8, <1>9

LEMMA VisitTypes == ASSUME TypesInv, Visit PROVE TypesInv'
<1>1. PICK n \in work : todo' \in CallsFor(Passes[pass], n) /\ work' = work \ {n}
  BY DEF Visit
<1>2. UNCHANGED <<graphVars, attr, pass, changed, status>>
  BY DEF Visit
<1>3. pass \in Int /\ pass >= 1 /\ pass <= Len(Passes) /\ n \in Node
  BY <1>1, PassesAssumption DEF TypesInv, NothingBeforeFirst, TypeOK
<1>4. PICK p \in PassNames : p = Passes[pass]
  BY <1>3, PassName
<1>5. p = "NoOp" => Single(n)
  BY <1>1, <1>3, <1>4 DEF TypesInv, NoOpKeepsSingles
<1>6. todo' \in Seq(Call)
  BY <1>1, <1>3, <1>4, <1>5, CallsType DEF TypesInv
<1>7. GraphTypeOK'
  BY <1>2 DEF graphVars, TypesInv, TypeOK, GraphTypeOK
<1>8. TypeOK'
  BY <1>1, <1>2, <1>6, <1>7 DEF graphVars, TypesInv, TypeOK
<1>9. NothingBeforeFirst'
  BY <1>2, <1>3 DEF NothingBeforeFirst
<1>10. NoOpKeepsSingles'
  <2> SUFFICES ASSUME p = "NoOp"
               PROVE  /\ \A m \in work' : Single(m)'
                      /\ \A i \in 1 .. Len(todo') : todo'[i].f \in {"input", "remove"}
    BY <1>2, <1>4 DEF NoOpKeepsSingles
  <2>1. \A m \in work' : Single(m)'
    BY <1>1, <1>2, <1>3, <1>4 DEF TypesInv, NoOpKeepsSingles, Single, graphVars
  <2>2. todo' = <<>> \/ todo' \in Bypass(n)
    BY <1>1, <1>4 DEF CallsFor
  <2>3. CASE todo' = <<>>
    BY <2>1, <2>3
  <2>4. CASE todo' \in Bypass(n)
    BY <1>3, <1>5, <2>1, <2>4, BypassCalls, TypeParts DEF TypesInv
  <2> QED BY <2>2, <2>3, <2>4
<1> QED BY <1>8, <1>9, <1>10 DEF TypesInv

LEMMA PassTypes == ASSUME TypesInv, NextPass \/ NextRound PROVE TypesInv'
<1>1. UNCHANGED <<graphVars, attr, todo>> /\ todo = <<>>
  BY DEF NextPass, NextRound, Idle
<1>2. GraphTypeOK'
  BY <1>1 DEF graphVars, TypesInv, TypeOK, GraphTypeOK
<1>3. \A p : Candidates(p) \subseteq live
  BY DEF Candidates
<1>4. live \subseteq Node /\ Len(Passes) \in Nat /\ pass \in 0 .. Len(Passes)
  BY PassesAssumption DEF TypesInv, TypeOK, GraphTypeOK
<1>5. work' \subseteq Node /\ pass' \in 0 .. Len(Passes) /\ changed' \in BOOLEAN
      /\ status' \in {"running", "done", "invalid"} \cup Failures
      /\ (pass' = 0 => work' = {})
      /\ (work' # {} => pass' > 0 /\ work' \subseteq Candidates(Passes[pass']))
  <2>1. pass \in Nat /\ status = "running" /\ changed \in BOOLEAN /\ work = {}
    BY <1>4 DEF NextPass, NextRound, Idle, TypesInv, TypeOK
  <2>2. CASE status' \in {"invalid", "done"} /\ UNCHANGED <<pass, work, changed>>
    BY <1>4, <2>1, <2>2
  <2>3. CASE /\ pass # Len(Passes) /\ pass' = pass + 1 /\ work' = Candidates(Passes[pass + 1])
             /\ changed' = FALSE /\ UNCHANGED status
    <3>1. work' = Candidates(Passes[pass'])
      BY <2>3
    <3>2. pass' \in 0 .. Len(Passes) /\ pass' # 0 /\ pass' > 0
      BY <1>4, <2>1, <2>3
    <3> QED BY <1>3, <1>4, <2>1, <2>3, <3>1, <3>2
  <2>4. CASE NextRound
    <3>1. /\ work' = Candidates(Passes[pass']) /\ pass' = pass /\ pass > 0 /\ changed' = FALSE
          /\ status' = status
      BY <2>4 DEF NextRound, Looping
    <3>2. pass' \in 0 .. Len(Passes) /\ pass' # 0 /\ pass' > 0
      BY <1>4, <2>1, <3>1
    <3>3. work' \subseteq Node
      BY <1>3, <1>4, <3>1
    <3>4. changed' \in BOOLEAN /\ status' \in {"running", "done", "invalid"} \cup Failures
      BY <2>1, <3>1
    <3>5. work' \subseteq Candidates(Passes[pass'])
      BY <3>1
    <3> QED BY <3>2, <3>3, <3>4, <3>5
  <2> QED BY <2>2, <2>3, <2>4 DEF NextPass
<1>6. TypeOK'
  BY <1>1, <1>2, <1>5 DEF TypesInv, TypeOK, graphVars
<1>7. NothingBeforeFirst'
  BY <1>1, <1>5 DEF NothingBeforeFirst
<1>8. NoOpKeepsSingles'
  <2>1. Candidates("NoOp") \subseteq {n \in live : Single(n)}
    BY DEF Candidates, IsNoOp
  <2>2. \A n \in Node : Single(n)' <=> Single(n)
    BY <1>1 DEF Single, graphVars
  <2>3. Len(todo') = 0
    BY <1>1
  <2> QED BY <1>4, <1>5, <2>1, <2>2, <2>3 DEF NoOpKeepsSingles
<1> QED BY <1>6, <1>7, <1>8 DEF TypesInv

\* What the five calls leave to the pass.
LEMMA CallsLeave ==
    ASSUME TypesInv, DoRemove \/ DoRelay \/ DoSetInput \/ DoSetOp \/ DoAbsorb
    PROVE  /\ UNCHANGED <<attr, pass, work>> /\ changed' \in BOOLEAN
           /\ status' \in {"running", "done", "invalid"} \cup Failures
           /\ todo' = todo \/ todo' = Tail(todo)
           /\ todo \in Seq(Call) /\ todo # <<>>
BY DEF DoRemove, DoRelay, DoSetInput, DoSetOp, DoAbsorb, Returned, Refused, Fails, Failures, Calls, TypesInv,
  TypeOK

LEMMA CallTypesKept ==
    ASSUME TypesInv, DoRemove \/ DoRelay \/ DoSetInput \/ DoSetOp \/ DoAbsorb
    PROVE  TypeOK' /\ Rewrites
<1>1. Rewrites /\ dims' \in [Value -> KnownDims]
  <2>1. TypeOK /\ dims \in [Value -> KnownDims]
    BY DEF TypesInv, TypeOK
  <2> QED BY <2>1, RemoveRewrites, RelayRewrites, SetInputRewrites, SetOpRewrites, AbsorbRewrites
<1>2. GraphTypeOK'
  BY <1>1, RewriteTypes DEF TypesInv
<1>3. todo' \in Seq(Call)
  <2>1. \A s \in Seq(Call) : s # <<>> => Tail(s) \in Seq(Call)
    OBVIOUS
  <2> QED BY <2>1, CallsLeave
<1> QED BY <1>1, <1>2, <1>3, CallsLeave DEF TypesInv, TypeOK

LEMMA CallTypesInv ==
    ASSUME TypesInv, DoRemove \/ DoRelay \/ DoSetInput \/ DoSetOp \/ DoAbsorb
    PROVE  TypesInv' /\ Rewrites
<1>1. TypeOK' /\ Rewrites
  BY CallTypesKept
<1>2. NothingBeforeFirst'
  <2>1. pass = 0 => FALSE
    BY CallsLeave DEF TypesInv, NothingBeforeFirst
  <2> QED BY <2>1, CallsLeave DEF NothingBeforeFirst
<1>3. NoOpKeepsSingles'
  <2> SUFFICES ASSUME pass > 0, Passes[pass] = "NoOp"
               PROVE  /\ \A m \in work : Single(m)'
                      /\ \A i \in 1 .. Len(todo') : todo'[i].f \in {"input", "remove"}
    BY CallsLeave DEF NoOpKeepsSingles
  <2>1. /\ \A m \in work : Single(m)
        /\ \A i \in 1 .. Len(todo) : todo[i].f \in {"input", "remove"}
    BY DEF TypesInv, NoOpKeepsSingles
  <2>2. \A s \in Seq(Call) : s # <<>> =>
          /\ Head(s) = s[1] /\ 1 \in 1 .. Len(s)
          /\ \A i \in 1 .. Len(Tail(s)) : Tail(s)[i] = s[i + 1] /\ i + 1 \in 1 .. Len(s)
    OBVIOUS
  <2>3. \A i \in 1 .. Len(todo') : todo'[i].f \in {"input", "remove"}
    <3>1. CASE todo' = todo
      BY <2>1, <3>1
    <3>2. CASE todo' = Tail(todo)
      BY <2>1, <2>2, <3>2, CallsLeave
    <3> QED BY <3>1, <3>2, CallsLeave
  <2>4. Head(todo).f \in {"input", "remove"}
    BY <2>1, <2>2, CallsLeave
  <2>5. DoRemove \/ DoSetInput
    BY <2>4 DEF DoRelay, DoSetOp, DoAbsorb, Calls
  <2>6. \A m \in Node : Single(m) => Single(m)'
    <3>1. CASE UNCHANGED <<ins, outs>>
      BY <3>1 DEF Single
    <3>2. ASSUME NEW n \in Node, NEW from \in Value, NEW to \in Value, NEW taken, NEW d,
                 ReplaceInputValue(n, from, to, taken, d)
          PROVE  \A m \in Node : Single(m) => Single(m)'
      <4>1. WithInput(n, from, to) \in Seq(Value) /\ Len(WithInput(n, from, to)) = Len(ins[n])
        BY WithInputType DEF TypesInv, TypeOK
      <4>2. ins \in [Node -> Seq(Value)]
        BY DEF TypesInv, TypeOK, GraphTypeOK
      <4>3. \A m \in Node : Len(ins'[m]) = Len(ins[m]) /\ outs' = outs
        BY <3>2, <4>1, <4>2 DEF ReplaceInputValue
      <4> QED BY <4>3 DEF Single
    <3>3. CASE DoRemove
      BY <3>1, <3>3 DEF DoRemove, RemoveNode, graphVars
    <3>4. CASE DoSetInput
      <4>1. Head(todo) \in Call /\ Head(todo).f = "input"
        BY <3>4, HeadCall DEF DoSetInput, TypesInv
      <4>2. PICK n \in Node, from \in Value, to \in Value :
              n = Head(todo).n /\ from = Head(todo).from /\ to = Head(todo).to
        BY <4>1, CallFields
      <4>3. UNCHANGED <<ins, outs>> \/ \E taken, d : ReplaceInputValue(n, from, to, taken, d)
        BY <3>4, <4>2 DEF DoSetInput, graphVars
      <4> QED BY <3>1, <3>2, <4>3
    <3> QED BY <2>5, <3>3, <3>4
  <2>7. work \subseteq Node
    BY DEF TypesInv, TypeOK
  <2> QED BY <2>1, <2>3, <2>6, <2>7
<1> QED BY <1>1, <1>2, <1>3 DEF TypesInv

LEMMA StepTypes == ASSUME TypesInv, [Next]_vars PROVE TypesInv' /\ Rewrites
<1>1. CASE NextPass \/ NextRound \/ Visit
  <2>1. UNCHANGED graphVars
    BY <1>1 DEF NextPass, NextRound, Visit, graphVars
  <2> QED BY <1>1, <2>1, PassTypes, VisitTypes DEF Rewrites
<1>2. CASE DoRemove \/ DoRelay \/ DoSetInput \/ DoSetOp \/ DoAbsorb
  BY <1>2, CallTypesInv
<1>3. CASE Finished \/ UNCHANGED vars
  <2>1. UNCHANGED <<graphVars, attr, pass, work, todo, changed, status>>
    BY <1>3 DEF Finished, vars, passVars
  <2>2. GraphTypeOK' /\ Rewrites
    BY <2>1 DEF TypesInv, TypeOK, GraphTypeOK, graphVars, Rewrites
  <2>3. TypeOK'
    BY <2>1, <2>2 DEF TypesInv, TypeOK, graphVars
  <2>4. NothingBeforeFirst' /\ NoOpKeepsSingles'
    BY <2>1 DEF TypesInv, NothingBeforeFirst, NoOpKeepsSingles, Single, graphVars
  <2> QED BY <2>2, <2>3, <2>4 DEF TypesInv
<1> QED BY <1>1, <1>2, <1>3 DEF Next

\* Whatever model, passes and order: the pipeline keeps its types, every
\* dimension it infers is known, and every call it makes is a call.
THEOREM PipelineTypes == Spec => []TypeOK
<1>1. Init => TypesInv
  BY InitTypes
<1>2. TypesInv /\ [Next]_vars => TypesInv'
  BY StepTypes
<1>3. TypesInv => TypeOK
  BY DEF TypesInv
<1> QED BY <1>1, <1>2, <1>3, PTL DEF Spec

\* The pipeline implements the rewriting interface of StaticGraph: each of its
\* steps is one call of a primitive with values for arguments, or leaves the
\* graph alone.
THEOREM PassesRewriteTheGraph == Spec => GraphSpec
<1>1. Init => TypesInv /\ GraphInit
  BY InitTypes
<1>2. TypesInv /\ [Next]_vars => TypesInv' /\ [GraphNext /\ Typed]_graphVars
  BY StepTypes DEF Rewrites
<1> QED BY <1>1, <1>2, PTL DEF Spec, GraphSpec

\* No pass ever decides on an index that disagrees with the node list.
THEOREM PipelineIndexesAgree == Spec => []IndexesAgree
BY PassesRewriteTheGraph, GraphIndexesAgree, PTL

------------------------------------------------------------------------------
(***************************************************************************)
(* The pipeline stops only for a reason.  The invariant has the structure  *)
(* that is validated between the passes, which no single call disturbs,    *)
(* and for the calls still to be made what makes them succeed.             *)
(***************************************************************************)

\* What the theorem assumes of the models.  The weights of convolutions are sources, or
\* prepared from sources without a join, a split or another convolution: a weight
\* computed from the next state would close a cycle when the two nodes are joined.
\* And a reshape copies no dimension of its input: it would change when the inner
\* reshape of a chain goes.
PlainModels ==
    \A g \in Graphs :
      /\ \E W \in SUBSET (1 .. Len(g.nodes)) :
            LET prepared == Source \cup UNION {Range(g.nodes[i].outs) : i \in W} IN
            /\ \A i \in W : /\ g.nodes[i].op \notin {"Concat", "Conv", "Split"}
                            /\ Range(g.nodes[i].ins) \subseteq prepared
            /\ \A i \in 1 .. Len(g.nodes) :
                 g.nodes[i].op = "Conv" => Range(Tail(g.nodes[i].ins)) \subseteq prepared
      /\ \A i \in 1 .. Len(g.nodes) : g.nodes[i].op = "Reshape" => 0 \notin Range(g.nodes[i].attr)

AllSized == \A n \in live : Sized(n) /\ IsInjective(outs[n])
SourcesAreFree == Made(live) \cap Source = {}
InputsThere == \A n \in live : Range(ins[n]) \subseteq Source \cup Made(live)
OutputsThere ==
    /\ \A o \in outputs : AliasChain(o) \ Aliased # {}
    /\ ResolvedOutputs \subseteq Source \cup Made(live)
AliasesAreGone == Aliased \cap (Source \cup Made(live)) = {}

Sound ==
    /\ Agree /\ AllSized /\ SourcesAreFree /\ InputsThere
    /\ OutputsThere /\ AliasesAreGone /\ Acyclic

\* The nodes of W prepare the weights.
Prepared(W) == Source \cup UNION {Range(outs[k]) : k \in W}
Preparing(W) ==
    /\ \A k \in W : op[k] \notin {"Concat", "Conv", "Split"} /\ Range(ins[k]) \subseteq Prepared(W)
    /\ \A n \in live : op[n] = "Conv" => Len(ins[n]) >= 2 /\ ins[n][2] \in Prepared(W)

Plain ==
    /\ \E W \in SUBSET live : Preparing(W)
    /\ \A n \in live : op[n] = "Reshape" => 0 \notin Range(attr[n])

------------------------------------------------------------------------------
(* Membership. *)

LEMMA InMade == ASSUME NEW S, NEW v PROVE v \in Made(S) <=> \E n \in S : v \in Range(outs[n])
BY DEF Made

LEMMA MadeAfter == ASSUME NEW v PROVE v \in Made(live)' <=> \E n \in live' : v \in Range(outs'[n])
BY DEF Made

\* The producer and the users of a value, as the nodes say.
LEMMA IndexFacts ==
    ASSUME TypeOK, Agree, NEW v \in Value, NEW n \in Node
    PROVE  /\ n \in users[v] <=> n \in live /\ v \in Range(ins[n])
           /\ producer[v] = n <=> n \in live /\ v \in Range(outs[n])
           /\ producer[v] \in live <=> v \in Made(live)
<1>1. /\ n \in users[v] <=> n \in live /\ v \in Range(ins[n])
      /\ producer[v] = n <=> n \in live /\ v \in Range(outs[n])
  BY AgreeByMember DEF TypeOK
<1>2. \A m \in Node : producer[v] = m <=> m \in live /\ v \in Range(outs[m])
  BY AgreeByMember DEF TypeOK
<1>3. live \subseteq Node
  BY TypeParts
<1> QED BY <1>1, <1>2, <1>3, InMade

\* No two nodes make the same value.
LEMMA MadeOnce ==
    ASSUME TypeOK, Agree, NEW m \in live, NEW n \in live, NEW v,
           v \in Range(outs[m]), v \in Range(outs[n])
    PROVE  m = n
<1>1. v \in Value /\ m \in Node /\ n \in Node
  BY TypeParts, RangeTypes DEF TypeOK
<1> QED BY <1>1, IndexFacts

LEMMA MadeAreValues == ASSUME TypeOK, NEW S \in SUBSET live PROVE Made(S) \subseteq Value
BY RangeTypes, InMade, TypeParts DEF TypeOK

------------------------------------------------------------------------------
(* Cycles. *)

\* A node does not wait for itself.
LEMMA NoLoop ==
    ASSUME Acyclic, NEW n \in live PROVE Range(ins[n]) \cap Range(outs[n]) = {}
<1>1. \E k \in {n} : Range(ins[k]) \cap Made({n}) = {}
  BY DEF Acyclic
<1>2. Made({n}) = Range(outs[n])
  BY DEF Made
<1> QED BY <1>1, <1>2

\* Two nodes do not wait for each other.
LEMMA NoPair ==
    ASSUME Acyclic, NEW m \in live, NEW n \in live, Range(ins[n]) \cap Range(outs[m]) # {}
    PROVE  Range(ins[m]) \cap Range(outs[n]) = {}
<1>1. \E k \in {m, n} : Range(ins[k]) \cap Made({m, n}) = {}
  BY DEF Acyclic
<1>2. Made({m, n}) = Range(outs[m]) \cup Range(outs[n])
  BY DEF Made
<1> QED BY <1>1, <1>2

\* Fewer nodes: no new cycle.
LEMMA FewerNodes ==
    ASSUME Acyclic, live' \subseteq live, UNCHANGED <<ins, outs>>
    PROVE  Acyclic'
<1> SUFFICES ASSUME NEW S \in SUBSET live', S # {}
             PROVE  \E n \in S : Range(ins'[n]) \cap Made(S)' = {}
  BY DEF Acyclic, Made
<1>1. PICK n \in S : Range(ins[n]) \cap Made(S) = {}
  BY DEF Acyclic
<1> QED BY <1>1 DEF Made

\* A node that waited for n may wait for what n waits for instead.
LEMMA Shortcut ==
    ASSUME Acyclic, NEW m \in live, NEW n \in live, live' \subseteq live, outs' = outs,
           \A k \in live : k # m => ins'[k] = ins[k],
           Range(ins'[m]) \subseteq Range(ins[m]) \cup Range(ins[n]),
           Range(ins[m]) \cap Range(outs[n]) # {}
    PROVE  Acyclic'
<1> SUFFICES ASSUME NEW S \in SUBSET live', S # {}
             PROVE  \E k \in S : Range(ins'[k]) \cap Made(S)' = {}
  BY DEF Acyclic, Made
<1>a. Made(S)' = Made(S)
  BY DEF Made
<1>1. S \in SUBSET live /\ S \cup {n} \in SUBSET live /\ S \cup {n} # {}
  OBVIOUS
<1>2. Made(S \cup {n}) = Made(S) \cup Range(outs[n])
  BY DEF Made
<1>3. PICK k \in S \cup {n} : Range(ins[k]) \cap (Made(S) \cup Range(outs[n])) = {}
  BY <1>1, <1>2 DEF Acyclic
<1>4. k # m
  BY <1>3
<1>5. CASE k \in S
  BY <1>1, <1>a, <1>3, <1>4, <1>5
<1>6. CASE k \notin S
  <2>1. Range(ins[n]) \cap Made(S) = {}
    BY <1>3, <1>6
  <2>2. PICK i \in S : Range(ins[i]) \cap Made(S) = {}
    BY <1>1 DEF Acyclic
  <2>3. CASE i # m
    BY <1>1, <1>a, <2>2, <2>3
  <2>4. CASE i = m
    BY <1>a, <2>1, <2>2, <2>4
  <2> QED BY <2>3, <2>4
<1> QED BY <1>5, <1>6

\* A node that waits for r, which waits for c, and a node that waits for c may
\* be joined to one that waits for what c waits for and for sources.
LEMMA JoinedNodes ==
    ASSUME Acyclic, SourcesAreFree, NEW n \in live, NEW a \in live, NEW r \in live, NEW c \in live,
           live' = live \ {a},
           \A k, m \in live : Range(outs[k]) \cap Range(outs[m]) # {} => k = m,
           \A k \in live : k # n => ins'[k] = ins[k] /\ outs'[k] = outs[k],
           Range(outs'[n]) = Range(outs[n]) \cup Range(outs[a]),
           NEW W \in SUBSET live, n \notin W, a \notin W,
           \A k \in W : Range(ins[k]) \subseteq Prepared(W),
           Range(ins'[n]) \subseteq Range(ins[c]) \cup Prepared(W),
           Range(ins[n]) \cap Range(outs[r]) # {}, Range(ins[r]) \cap Range(outs[c]) # {},
           Range(ins[a]) \cap Range(outs[c]) # {}, n # c
    PROVE  Acyclic'
<1> SUFFICES ASSUME NEW S \in SUBSET live', S # {}
             PROVE  \E k \in S : Range(ins'[k]) \cap Made(S)' = {}
  <2>1. \A S : Made(S)' = UNION {Range(outs'[k]) : k \in S'}
    BY DEF Made
  <2> QED BY DEF Acyclic, Made
<1>1. S \in SUBSET live
  OBVIOUS
<1>2. Made(S)' = UNION {Range(outs'[k]) : k \in S}
  BY DEF Made
<1>3. \A k \in S : \A m \in W : Range(outs'[k]) \cap Range(outs[m]) # {} => k = m
  <2>1. TAKE k \in S
  <2>2. TAKE m \in W
  <2>3. k \in live /\ m \in live /\ m # n /\ m # a
    BY <1>1
  <2>4. CASE k = n
    BY <2>3, <2>4
  <2>5. CASE k # n
    BY <2>3, <2>5
  <2> QED BY <2>4, <2>5
<1>4. Made(S)' \cap Source = {}
  <2>1. \A k \in live : Range(outs[k]) \cap Source = {}
    BY DEF SourcesAreFree, Made
  <2>2. \A k \in S : Range(outs'[k]) \cap Source = {}
    BY <1>1, <2>1
  <2> QED BY <1>2, <2>2
<1>5. CASE S \cap W # {}
  <2>1. PICK k \in S \cap W : Range(ins[k]) \cap Made(S \cap W) = {}
    BY <1>1, <1>5 DEF Acyclic
  <2>2. Range(ins'[k]) \subseteq Prepared(W) /\ ins'[k] = ins[k]
    BY <1>1
  <2>3. ASSUME NEW v \in Range(ins'[k]), v \in Made(S)' PROVE FALSE
    <3>1. PICK m \in S : v \in Range(outs'[m])
      BY <1>2, <2>3
    <3>2. PICK w \in W : v \in Range(outs[w])
      BY <1>4, <2>2, <2>3 DEF Prepared
    <3>3. m = w
      BY <1>3, <3>1, <3>2
    <3>4. v \in Made(S \cap W)
      BY <3>2, <3>3 DEF Made
    <3> QED BY <2>1, <2>2, <2>3, <3>4
  <2> QED BY <2>1, <2>3
<1>6. CASE S \cap W = {} /\ n \notin S
  <2>1. Made(S)' = Made(S)
    BY <1>1, <1>2, <1>6 DEF Made
  <2>2. PICK k \in S : Range(ins[k]) \cap Made(S) = {}
    BY <1>1 DEF Acyclic
  <2> QED BY <1>1, <1>6, <2>1, <2>2
<1>7. CASE S \cap W = {} /\ n \in S
  <2> DEFINE T == S \cup {a, c, r}
  <2>1. T \in SUBSET live /\ T # {}
    BY <1>1, <1>7
  <2>2. \A k \in T : Range(outs[k]) \subseteq Made(T)
    BY DEF Made
  <2>3. Made(S)' \subseteq Made(T)
    <3>1. \A k \in S : Range(outs'[k]) \subseteq Made(T)
      BY <1>1, <2>2
    <3>2. ASSUME NEW v \in Made(S)' PROVE v \in Made(T)
      <4>1. PICK k \in S : v \in Range(outs'[k])
        BY <1>2, <3>2
      <4> QED BY <3>1, <4>1
    <3> QED BY <3>2
  <2>4. Made(S)' \cap Prepared(W) = {}
    <3>1. \A k \in S : \A m \in W : Range(outs'[k]) \cap Range(outs[m]) = {}
      BY <1>3, <1>7
    <3>2. ASSUME NEW v \in Made(S)', v \in Prepared(W) PROVE FALSE
      <4>1. PICK k \in S : v \in Range(outs'[k])
        BY <1>2, <3>2
      <4>2. PICK m \in W : v \in Range(outs[m])
        BY <1>4, <3>2 DEF Prepared
      <4> QED BY <3>1, <4>1, <4>2
    <3> QED BY <3>2
  <2>5. PICK k \in T : Range(ins[k]) \cap Made(T) = {}
    BY <2>1 DEF Acyclic
  <2>6. a \in T /\ c \in T /\ r \in T /\ n \in T
    BY <1>7
  <2>7. k # n /\ k # r /\ k # a
    BY <2>2, <2>5, <2>6
  <2> HIDE DEF T
  <2>8. CASE k = c
    BY <1>7, <2>3, <2>4, <2>5, <2>8
  <2>9. CASE k # c
    <3>1. k \in S /\ k \in live
      BY <1>1, <2>5, <2>7, <2>9 DEF T
    <3> QED BY <2>3, <2>5, <2>7, <3>1
  <2> QED BY <2>8, <2>9
<1> QED BY <1>5, <1>6, <1>7

------------------------------------------------------------------------------
(* The weights stay prepared. *)

LEMMA SecondInRange ==
    ASSUME NEW s \in Seq(Value), Len(s) >= 2 PROVE s[2] \in Range(s)
<1>1. 2 \in DOMAIN s
  OBVIOUS
<1> QED BY <1>1 DEF Range

LEMMA InPrepared ==
    ASSUME NEW W, NEW v
    PROVE  /\ v \in Prepared(W) <=> v \in Source \/ \E k \in W : v \in Range(outs[k])
           /\ v \in Prepared(W)' <=> v \in Source \/ \E k \in W : v \in Range(outs'[k])
BY DEF Prepared

\* A node without users goes.
LEMMA PlainWithout ==
    ASSUME TypeOK, Agree, Plain, NEW n \in live, ~HasUsers(n), live' = live \ {n},
           UNCHANGED <<op, ins, outs, attr>>
    PROVE  Plain'
<1>1. PICK W \in SUBSET live : Preparing(W)
  BY DEF Plain
<1>2. PICK V : V = W \ {n}
  OBVIOUS
<1>3. ASSUME NEW k \in live, NEW v \in Range(ins[k]), v \in Prepared(W) PROVE v \in Prepared(V)'
  <2>1. CASE v \in Source
    BY <2>1, InPrepared
  <2>2. CASE v \notin Source
    <3>1. PICK w \in W : v \in Range(outs[w])
      BY <1>3, <2>2, InPrepared
    <3>2. k \in Node /\ v \in Value
      BY <1>3, TypeParts, RangeTypes
    <3>3. k \in users[v]
      BY <1>3, <3>2, IndexFacts
    <3>4. w # n
      BY <3>1, <3>3 DEF HasUsers
    <3> QED BY <1>2, <3>1, <3>4, InPrepared
  <2> QED BY <2>1, <2>2
<1>4. \A k \in V : op'[k] \notin {"Concat", "Conv", "Split"} /\ Range(ins'[k]) \subseteq Prepared(V)'
  BY <1>1, <1>2, <1>3 DEF Preparing
<1>5. \A k \in live' : op'[k] = "Conv" => Len(ins'[k]) >= 2 /\ ins'[k][2] \in Prepared(V)'
  <2>1. TAKE k \in live'
  <2>2. HAVE op'[k] = "Conv"
  <2>3. k \in live /\ Len(ins[k]) >= 2 /\ ins[k][2] \in Prepared(W)
    BY <1>1, <2>2 DEF Preparing
  <2>4. ins[k][2] \in Range(ins[k])
    BY <2>3, TypeParts, SecondInRange
  <2> QED BY <1>3, <2>3, <2>4
<1>6. Preparing(V)'
  BY <1>4, <1>5 DEF Preparing
<1>7. V \in SUBSET live'
  BY <1>2
<1>8. \A k \in live' : op'[k] = "Reshape" => 0 \notin Range(attr'[k])
  BY DEF Plain
<1> QED BY <1>6, <1>7, <1>8 DEF Plain

\* m reads what n reads for a value that n makes.
LEMMA PlainRewired ==
    ASSUME TypeOK, Agree, SourcesAreFree, Plain, NEW m \in live, NEW n \in live,
           UNCHANGED <<live, outs, attr>>,
           \A k \in live : k # m => ins'[k] = ins[k] /\ op'[k] = op[k],
           op'[m] = op[m] \/ op'[m] \in {"SiLU", "Gemm"},
           Range(ins'[m]) \subseteq Range(ins[m]) \cup Range(ins[n]),
           Range(ins[m]) \cap Range(outs[n]) # {},
           op'[m] = "Conv" => /\ Len(ins'[m]) = Len(ins[m])
                              /\ \/ ins'[m][2] = ins[m][2]
                                 \/ ins[m][2] \in Range(outs[n]) /\ ins'[m][2] \in Range(ins[n])
    PROVE  Plain'
<1>1. PICK W \in SUBSET live : Preparing(W)
  BY DEF Plain
<1>2. \A v : v \in Prepared(W)' <=> v \in Prepared(W)
  BY InPrepared
<1>3. ASSUME NEW v \in Range(outs[n]), v \in Prepared(W) PROVE n \in W
  <2>1. v \notin Source
    BY <1>3 DEF SourcesAreFree, Made
  <2>2. PICK w \in W : v \in Range(outs[w])
    BY <1>3, <2>1, InPrepared
  <2> QED BY <2>2, MadeOnce
<1>4. n \in W => Range(ins[n]) \subseteq Prepared(W)
  BY <1>1 DEF Preparing
<1>5. \A k \in W : op'[k] \notin {"Concat", "Conv", "Split"} /\ Range(ins'[k]) \subseteq Prepared(W)
  <2>1. TAKE k \in W
  <2>2. op[k] \notin {"Concat", "Conv", "Split"} /\ Range(ins[k]) \subseteq Prepared(W)
    BY <1>1 DEF Preparing
  <2>3. CASE k = m
    <3>1. n \in W
      BY <1>3, <2>2, <2>3
    <3> QED BY <1>4, <2>2, <2>3, <3>1
  <2>4. CASE k # m
    BY <2>2, <2>4
  <2> QED BY <2>3, <2>4
<1>6. \A k \in live : op'[k] = "Conv" => Len(ins'[k]) >= 2 /\ ins'[k][2] \in Prepared(W)
  <2>1. TAKE k \in live
  <2>2. HAVE op'[k] = "Conv"
  <2>3. op[k] = "Conv"
    BY <2>2
  <2>4. Len(ins[k]) >= 2 /\ ins[k][2] \in Prepared(W)
    BY <1>1, <2>3 DEF Preparing
  <2>5. CASE k = m
    BY <1>3, <1>4, <2>2, <2>4, <2>5
  <2>6. CASE k # m
    BY <2>4, <2>6
  <2> QED BY <2>5, <2>6
<1>7. Preparing(W)'
  <2>1. \A k \in W : op'[k] \notin {"Concat", "Conv", "Split"} /\ Range(ins'[k]) \subseteq Prepared(W)'
    BY <1>2, <1>5
  <2>2. \A k \in live' : op'[k] = "Conv" => Len(ins'[k]) >= 2 /\ ins'[k][2] \in Prepared(W)'
    BY <1>2, <1>6
  <2> QED BY <2>1, <2>2 DEF Preparing
<1>8. \A k \in live' : op'[k] = "Reshape" => 0 \notin Range(attr'[k])
  <2>1. \A k \in live : op'[k] = "Reshape" => op[k] = "Reshape"
    OBVIOUS
  <2> QED BY <2>1 DEF Plain
<1> QED BY <1>7, <1>8 DEF Plain

\* n takes over the outputs of a and is no convolution any more.
LEMMA PlainJoined ==
    ASSUME Plain, NEW n \in live, NEW a \in live, NEW W \in SUBSET live, Preparing(W),
           n \notin W, a \notin W, live' = live \ {a}, attr' = attr,
           op'[n] \notin {"Conv", "Reshape"},
           \A k \in live : k # n => ins'[k] = ins[k] /\ op'[k] = op[k] /\ outs'[k] = outs[k]
    PROVE  Plain'
<1>1. \A v : v \in Prepared(W)' <=> v \in Prepared(W)
  BY InPrepared
<1>2. \A k \in W : op'[k] \notin {"Concat", "Conv", "Split"} /\ Range(ins'[k]) \subseteq Prepared(W)'
  <2>1. TAKE k \in W
  <2>2. op[k] \notin {"Concat", "Conv", "Split"} /\ Range(ins[k]) \subseteq Prepared(W)
    BY DEF Preparing
  <2>3. op'[k] = op[k] /\ ins'[k] = ins[k]
    OBVIOUS
  <2> QED BY <1>1, <2>2, <2>3
<1>3. \A k \in live' : op'[k] = "Conv" => Len(ins'[k]) >= 2 /\ ins'[k][2] \in Prepared(W)'
  <2>1. TAKE k \in live'
  <2>2. HAVE op'[k] = "Conv"
  <2>3. k \in live /\ op[k] = "Conv" /\ ins'[k] = ins[k]
    BY <2>2
  <2> QED BY <1>1, <2>3 DEF Preparing
<1>4. Preparing(W)'
  BY <1>2, <1>3 DEF Preparing
<1>5. \A k \in live' : op'[k] = "Reshape" => 0 \notin Range(attr'[k])
  <2>1. TAKE k \in live'
  <2>2. HAVE op'[k] = "Reshape"
  <2>3. k \in live /\ op[k] = "Reshape"
    BY <2>2
  <2> QED BY <2>3 DEF Plain
<1>6. W \in SUBSET live'
  OBVIOUS
<1> QED BY <1>4, <1>5, <1>6 DEF Plain

------------------------------------------------------------------------------
(* Aliases. *)

\* AliasChain, of any aliases.
AliasedIn(al) == {v \in Value : al[v] # NoValue}
ChainIn(al, v) ==
    LET far == {v} \cup {al[w] : w \in AliasedIn(al)}
    IN {u \in far : \A S \in SUBSET far :
            v \in S /\ (\A w \in S \cap AliasedIn(al) : al[w] \in S) => u \in S}

LEMMA ChainsOf ==
    /\ Aliased = AliasedIn(alias) /\ Aliased' = AliasedIn(alias')
    /\ \A v : AliasChain(v) = ChainIn(alias, v) /\ AliasChain(v)' = ChainIn(alias', v)
BY DEF Aliased, AliasedIn, AliasChain, ChainIn

\* The chain is the least set that holds the value and follows the aliases.
LEMMA ChainFacts ==
    ASSUME NEW al, NEW v
    PROVE  /\ v \in ChainIn(al, v)
           /\ \A w \in ChainIn(al, v) \cap AliasedIn(al) : al[w] \in ChainIn(al, v)
           /\ \A S : v \in S /\ (\A w \in S \cap AliasedIn(al) : al[w] \in S) => ChainIn(al, v) \subseteq S
<1> DEFINE far == {v} \cup {al[w] : w \in AliasedIn(al)}
           Closed(S) == v \in S /\ \A w \in S \cap AliasedIn(al) : al[w] \in S
<1>1. \A u : u \in ChainIn(al, v) <=> u \in far /\ \A S \in SUBSET far : Closed(S) => u \in S
  BY DEF ChainIn
<1>2. v \in far /\ \A w \in AliasedIn(al) : al[w] \in far
  OBVIOUS
<1>3. ASSUME NEW S, Closed(S), NEW u \in ChainIn(al, v) PROVE u \in S
  <2>1. Closed(S \cap far) /\ S \cap far \in SUBSET far
    BY <1>2, <1>3
  <2> QED BY <1>1, <1>3, <2>1
<1>4. \A w \in ChainIn(al, v) \cap AliasedIn(al) : al[w] \in ChainIn(al, v)
  <2> SUFFICES ASSUME NEW w \in ChainIn(al, v) \cap AliasedIn(al),
                      NEW S \in SUBSET far, Closed(S)
               PROVE  al[w] \in S
    BY <1>1, <1>2
  <2> QED BY <1>1
<1>5. v \in ChainIn(al, v)
  BY <1>1, <1>2
<1> QED BY <1>3, <1>4, <1>5

\* A value that becomes an alias of one that is none.
LEMMA LongerChain ==
    ASSUME NEW al, NEW new, NEW o, NEW x, NEW v, x \notin AliasedIn(al), x # o,
           AliasedIn(new) = AliasedIn(al) \cup {o},
           new[o] = x, \A w \in AliasedIn(al) : new[w] = al[w]
    PROVE  \A u : u \in ChainIn(new, v) <=>
                    u \in ChainIn(al, v) \/ (u = x /\ o \in ChainIn(al, v))
<1> DEFINE all == ChainIn(al, v) \cup (IF o \in ChainIn(al, v) THEN {x} ELSE {})
<1>3. ChainIn(new, v) \subseteq all
  <2>1. v \in all
    BY ChainFacts
  <2>2. ASSUME NEW w \in all \cap AliasedIn(new) PROVE new[w] \in all
    <3>1. CASE w = o
      BY <2>2, <3>1
    <3>2. CASE w # o
      <4>1. w \in AliasedIn(al) /\ w \in ChainIn(al, v)
        BY <2>2, <3>2
      <4> QED BY <4>1, ChainFacts
    <3> QED BY <3>1, <3>2
  <2> HIDE DEF all
  <2> QED BY <2>1, <2>2, ChainFacts
<1>4. ChainIn(al, v) \subseteq ChainIn(new, v)
  <2>1. \A w \in ChainIn(new, v) \cap AliasedIn(al) : al[w] \in ChainIn(new, v)
    BY ChainFacts
  <2>2. v \in ChainIn(new, v)
    BY ChainFacts
  <2>3. PICK S : S = ChainIn(new, v)
    OBVIOUS
  <2>4. v \in S /\ \A w \in S \cap AliasedIn(al) : al[w] \in S
    BY <2>1, <2>2, <2>3
  <2>5. ChainIn(al, v) \subseteq S
    BY <2>4, ChainFacts
  <2> QED BY <2>3, <2>5
<1>5. o \in ChainIn(al, v) => x \in ChainIn(new, v)
  BY <1>4, ChainFacts
<1> QED BY <1>3, <1>4, <1>5

LEMMA SameAliases ==
    ASSUME UNCHANGED <<alias, outputs>>
    PROVE  /\ Aliased' = Aliased /\ ResolvedOutputs' = ResolvedOutputs
           /\ \A v : AliasChain(v)' = AliasChain(v) /\ (IsGraphOutputValue(v)' <=> IsGraphOutputValue(v))
<1>1. Aliased' = Aliased /\ \A v : AliasChain(v)' = AliasChain(v)
  BY ChainsOf
<1> QED BY <1>1 DEF ResolvedOutputs, IsGraphOutputValue

LEMMA InResolved ==
    ASSUME NEW w
    PROVE  /\ w \in ResolvedOutputs <=> w \notin Aliased /\ \E o \in outputs : w \in AliasChain(o)
           /\ w \in ResolvedOutputs' <=> w \notin Aliased' /\ \E o \in outputs' : w \in AliasChain(o)'
<1>1. w \in ResolvedOutputs <=> w \notin Aliased /\ \E o \in outputs : w \in AliasChain(o)
  BY DEF ResolvedOutputs
<1>2. ResolvedOutputs' = (UNION {ChainIn(alias', o) : o \in outputs'}) \ AliasedIn(alias')
  BY DEF ResolvedOutputs, AliasChain, Aliased, ChainIn, AliasedIn
<1>3. w \in ResolvedOutputs' <=> w \notin AliasedIn(alias') /\ \E o \in outputs' : w \in ChainIn(alias', o)
  BY <1>2
<1> QED BY <1>1, <1>3, ChainsOf

------------------------------------------------------------------------------
(* Dimensions. *)

\* What is inferred again is what there was.
LEMMA DimsStay ==
    ASSUME dims \in [Value -> KnownDims], NEW list \in Seq(Value)
    PROVE  Inferred(Assign(list, DimsOf(list))) = dims
<1> DEFINE d == Assign(list, DimsOf(list))
<1>1. DOMAIN d = Range(list)
  BY DEF Assign
<1>2. ASSUME NEW v \in Range(list) PROVE d[v] = dims[v]
  <2>1. \E i \in 1 .. Len(list) : list[i] = v
    BY DEF Range
  <2>2. PICK k : k = CHOOSE i \in 1 .. Len(list) : list[i] = v
    OBVIOUS
  <2>3. k \in 1 .. Len(list) /\ list[k] = v
    BY <2>1, <2>2
  <2>4. d[v] = DimsOf(list)[k]
    BY <2>2 DEF Assign
  <2> QED BY <2>3, <2>4, DimsOfFacts
<1> HIDE DEF d
<1>3. \A v \in Value : Inferred(d)[v] = dims[v]
  BY <1>1, <1>2 DEF Inferred
<1>4. Inferred(d) = dims
  BY <1>3 DEF Inferred
<1> QED BY <1>4 DEF d

LEMMA SizedStays ==
    ASSUME NEW k, op'[k] = op[k], attr'[k] = attr[k], ins'[k] = ins[k], outs'[k] = outs[k],
           dims' = dims
    PROVE  Sized(k)' <=> Sized(k)
BY DEF Sized, DimsOf

------------------------------------------------------------------------------
(* No call disturbs the structure. *)

LEMMA RemoveSound ==
    ASSUME TypeOK, Sound, Agree', NEW n \in Node, RemoveNode(n), attr' = attr
    PROVE  Sound'
<1>1. /\ live' = live \ {n} /\ UNCHANGED <<op, ins, outs, alias, dims, outputs>>
      /\ n \in live /\ ~HasUsers(n) /\ \A v \in Range(outs[n]) : ~IsGraphOutputValue(v)
  BY DEF RemoveNode, CanRemove, Retire
<1>2. AllSized'
  BY <1>1, SizedStays DEF Sound, AllSized
<1>3. \A v : v \in Made(live)' => v \in Made(live)
  BY <1>1, InMade, MadeAfter
<1>4. \A v : v \in Made(live) /\ v \notin Range(outs[n]) => v \in Made(live)'
  BY <1>1, InMade, MadeAfter
<1>5. SourcesAreFree'
  BY <1>3 DEF Sound, SourcesAreFree
<1>6. InputsThere'
  <2> SUFFICES ASSUME NEW m \in live', NEW v \in Range(ins[m]), v \notin Source
               PROVE  v \in Made(live)'
    BY <1>1 DEF InputsThere
  <2>1. m \in live /\ m \in Node /\ v \in Value
    BY <1>1, TypeParts, RangeTypes
  <2>2. v \in Made(live)
    BY <2>1 DEF Sound, InputsThere
  <2>3. m \in users[v]
    BY <2>1, IndexFacts DEF Sound
  <2>4. v \notin Range(outs[n])
    BY <1>1, <2>3 DEF HasUsers
  <2> QED BY <1>4, <2>2, <2>4
<1>7. OutputsThere'
  <2>1. \A v \in ResolvedOutputs : v \notin Range(outs[n])
    BY <1>1 DEF ResolvedOutputs, IsGraphOutputValue
  <2>2. ResolvedOutputs \subseteq Source \cup Made(live)'
    BY <1>4, <2>1 DEF Sound, OutputsThere
  <2> QED BY <1>1, <2>2, SameAliases DEF Sound, OutputsThere
<1>8. AliasesAreGone'
  BY <1>1, <1>3, SameAliases DEF Sound, AliasesAreGone
<1>9. Acyclic'
  BY <1>1, FewerNodes DEF Sound
<1> QED BY <1>2, <1>5, <1>6, <1>7, <1>8, <1>9 DEF Sound

LEMMA RelaySound ==
    ASSUME TypeOK, Sound, Agree', NEW n \in Node, RemoveNodeWithOutputAlias(n), attr' = attr
    PROVE  Sound'
<1>1. PICK o \in Value, x \in Value : o = outs[n][1] /\ x = ins[n][1]
  BY SingleType, TypeParts DEF RemoveNodeWithOutputAlias, CanAlias, Single
<1>2. /\ live' = live \ {n} /\ UNCHANGED <<op, ins, outs, dims, outputs>>
      /\ n \in live /\ ~HasUsers(n) /\ alias' = [alias EXCEPT ![o] = x] /\ o \in outputs
      /\ Len(ins[n]) = 1 /\ Len(outs[n]) = 1
  BY <1>1 DEF RemoveNodeWithOutputAlias, CanAlias, Retire
<1>3. ins[n] = <<x>> /\ outs[n] = <<o>>
  BY <1>1, <1>2, TypeParts
<1>4. Range(ins[n]) = {x} /\ Range(outs[n]) = {o}
  BY <1>3, RangeOfOne
<1>5. x # o
  BY <1>2, <1>4, NoLoop DEF Sound
<1>6. o \in Made(live) /\ x \in Source \cup Made(live)
  BY <1>2, <1>4, InMade DEF Sound, InputsThere
<1>7. o \notin Aliased /\ x \notin Aliased
  BY <1>6 DEF Sound, AliasesAreGone
<1>8. AllSized'
  BY <1>2, SizedStays DEF Sound, AllSized
<1>9. \A v : v \in Made(live)' <=> v \in Made(live) /\ v # o
  <2>1. \A v : v \in Made(live)' => v \in Made(live)
    BY <1>2, InMade, MadeAfter
  <2>2. \A v : v \in Made(live) /\ v # o => v \in Made(live)'
    BY <1>2, <1>4, InMade, MadeAfter
  <2>3. o \notin Made(live)'
    <3>1. \A m \in live : o \in Range(outs[m]) => m = n
      BY <1>2, <1>4, MadeOnce DEF Sound
    <3> QED BY <1>2, <3>1, MadeAfter
  <2> QED BY <2>1, <2>2, <2>3
<1>10. SourcesAreFree'
  BY <1>9 DEF Sound, SourcesAreFree
<1>11. InputsThere'
  <2> SUFFICES ASSUME NEW m \in live', NEW v \in Range(ins[m]), v \notin Source
               PROVE  v \in Made(live)'
    BY <1>2 DEF InputsThere
  <2>1. m \in live /\ m \in Node /\ v \in Value
    BY <1>2, TypeParts, RangeTypes
  <2>2. v \in Made(live)
    BY <2>1 DEF Sound, InputsThere
  <2>3. m \in users[v]
    BY <2>1, IndexFacts DEF Sound
  <2>4. v # o
    BY <1>2, <1>4, <2>3 DEF HasUsers
  <2> QED BY <1>9, <2>2, <2>4
<1>12. /\ Aliased' = Aliased \cup {o}
       /\ \A v \in Value : \A u : u \in AliasChain(v)' <=>
            u \in AliasChain(v) \/ (u = x /\ o \in AliasChain(v))
  <2>1. alias \in [Value -> Value \cup {NoValue}]
    BY DEF TypeOK, GraphTypeOK
  <2>2. o \notin AliasedIn(alias) /\ x \notin AliasedIn(alias)
    BY <1>7, ChainsOf
  <2>3. \A v \in Value :
          /\ AliasedIn(alias') = AliasedIn(alias) \cup {o}
          /\ \A u : u \in ChainIn(alias', v) <=>
                     u \in ChainIn(alias, v) \/ (u = x /\ o \in ChainIn(alias, v))
    <3>1. PICK al, new : al = alias /\ new = alias'
      OBVIOUS
    <3>2. AliasedIn(new) = AliasedIn(al) \cup {o} /\ x \notin AliasedIn(al)
      BY <1>2, <2>1, <2>2, <3>1 DEF AliasedIn
    <3>3. new[o] = x /\ \A w \in AliasedIn(al) : new[w] = al[w]
      BY <1>2, <2>1, <2>2, <3>1 DEF AliasedIn
    <3>4. \A v, u : u \in ChainIn(new, v) <=>
                     u \in ChainIn(al, v) \/ (u = x /\ o \in ChainIn(al, v))
      BY <1>5, <3>2, <3>3, LongerChain
    <3> QED BY <3>1, <3>2, <3>4
  <2> QED BY <2>3, ChainsOf
<1>13. x \notin Aliased' /\ x \in Source \cup Made(live)'
  BY <1>5, <1>6, <1>7, <1>9, <1>12
<1>14. outputs \subseteq Value /\ outputs' = outputs
  BY <1>2 DEF TypeOK, GraphTypeOK
<1>15. OutputsThere'
  <2>1. ASSUME NEW u \in outputs' PROVE AliasChain(u)' \ Aliased' # {}
    <3>1. PICK w \in AliasChain(u) : w \notin Aliased
      BY <1>14, <2>1 DEF Sound, OutputsThere
    <3>2. CASE w = o
      BY <1>12, <1>13, <1>14, <2>1, <3>1, <3>2
    <3>3. CASE w # o
      BY <1>12, <1>14, <2>1, <3>1, <3>3
    <3> QED BY <3>2, <3>3
  <2>2. ASSUME NEW w \in ResolvedOutputs' PROVE w \in Source \cup Made(live)'
    <3>1. PICK u \in outputs : w \in AliasChain(u)' /\ w \notin Aliased'
      BY <1>14, <2>2, InResolved
    <3>2. w = x \/ (w \in AliasChain(u) /\ w \notin Aliased /\ w # o)
      BY <1>12, <1>14, <3>1
    <3>3. CASE w = x
      BY <1>13, <3>3
    <3>4. CASE w \in AliasChain(u) /\ w \notin Aliased /\ w # o
      <4>1. w \in ResolvedOutputs
        BY <3>4, InResolved
      <4> QED BY <1>9, <3>4, <4>1 DEF Sound, OutputsThere
    <3> QED BY <3>2, <3>3, <3>4
  <2> QED BY <2>1, <2>2 DEF OutputsThere
<1>16. AliasesAreGone'
  <2>1. o \notin Source
    BY <1>6 DEF Sound, SourcesAreFree
  <2> QED BY <1>9, <1>12, <2>1 DEF Sound, AliasesAreGone
<1>17. Acyclic'
  BY <1>2, FewerNodes DEF Sound
<1> QED BY <1>8, <1>10, <1>11, <1>15, <1>16, <1>17 DEF Sound

\* ReplaceInputValue and ReplaceNodeDesc: m, which waited for n, has other inputs, of
\* its own and of n.
LEMMA RewireSound ==
    ASSUME TypeOK, Sound, Agree', NEW m \in live, NEW n \in live,
           UNCHANGED <<live, outs, alias, dims, outputs, attr>>,
           \A k \in live : k # m => ins'[k] = ins[k] /\ op'[k] = op[k],
           Range(ins'[m]) \subseteq Range(ins[m]) \cup Range(ins[n]),
           Range(ins[m]) \cap Range(outs[n]) # {}, Sized(m)'
    PROVE  Sound'
<1>1. Made(live)' = Made(live)
  BY DEF Made
<1>2. AllSized'
  <2>1. \A k \in live : k # m => Sized(k)'
    BY SizedStays DEF Sound, AllSized
  <2> QED BY <2>1 DEF Sound, AllSized
<1>3. SourcesAreFree' /\ AliasesAreGone' /\ OutputsThere'
  BY <1>1, SameAliases DEF Sound, SourcesAreFree, AliasesAreGone, OutputsThere
<1>4. InputsThere'
  <2>1. \A k \in live : Range(ins'[k]) \subseteq Source \cup Made(live)
    BY DEF Sound, InputsThere
  <2> QED BY <1>1, <2>1 DEF InputsThere
<1>5. Acyclic'
  BY Shortcut DEF Sound
<1> QED BY <1>2, <1>3, <1>4, <1>5 DEF Sound

\* Two lists without repetition and with nothing in common.
LEMMA InjectiveConcat ==
    ASSUME NEW s \in Seq(Value), NEW t \in Seq(Value), IsInjective(s), IsInjective(t),
           Range(s) \cap Range(t) = {}
    PROVE  IsInjective(s \o t)
<1> DEFINE w == s \o t
<1>1. \A i \in 1 .. Len(s) : w[i] = s[i] /\ s[i] \in Range(s)
  BY DEF Range
<1>2. \A i \in Len(s) + 1 .. Len(s) + Len(t) :
        w[i] = t[i - Len(s)] /\ i - Len(s) \in 1 .. Len(t) /\ t[i - Len(s)] \in Range(t)
  BY DEF Range
<1>3. DOMAIN w = 1 .. Len(s) + Len(t)
  OBVIOUS
<1> HIDE DEF w
<1>4. ASSUME NEW i \in 1 .. Len(s) + Len(t), NEW j \in 1 .. Len(s) + Len(t), w[i] = w[j]
      PROVE  i = j
  <2>1. CASE i <= Len(s) /\ j <= Len(s)
    BY <1>1, <1>4, <2>1 DEF IsInjective
  <2>2. CASE i > Len(s) /\ j > Len(s)
    <3>1. \A p, q \in 1 .. Len(t) : t[p] = t[q] => p = q
      BY DEF IsInjective
    <3>2. i \in Len(s) + 1 .. Len(s) + Len(t) /\ j \in Len(s) + 1 .. Len(s) + Len(t)
      BY <2>2
    <3>3. /\ i - Len(s) \in 1 .. Len(t) /\ j - Len(s) \in 1 .. Len(t)
          /\ t[i - Len(s)] = t[j - Len(s)]
      BY <1>2, <1>4, <3>2
    <3>4. i - Len(s) = j - Len(s)
      BY <3>1, <3>3
    <3> QED BY <3>4
  <2>3. CASE i <= Len(s) /\ j > Len(s)
    BY <1>1, <1>2, <1>4, <2>3
  <2>4. CASE i > Len(s) /\ j <= Len(s)
    BY <1>1, <1>2, <1>4, <2>4
  <2> QED BY <2>1, <2>2, <2>3, <2>4
<1>5. IsInjective(w)
  BY <1>3, <1>4 DEF IsInjective
<1> QED BY <1>5 DEF w

LEMMA AbsorbSound ==
    ASSUME TypeOK, Sound, Agree',
           NEW n \in live, NEW a \in live, NEW r \in live, NEW c \in live, n # a, n # c,
           live' = live \ {a}, UNCHANGED <<alias, dims, outputs, attr>>,
           \A k \in live : k # n => ins'[k] = ins[k] /\ op'[k] = op[k] /\ outs'[k] = outs[k],
           outs'[n] = outs[n] \o outs[a],
           NEW W \in SUBSET live, n \notin W, a \notin W,
           \A k \in W : Range(ins[k]) \subseteq Prepared(W),
           Range(ins'[n]) \subseteq Range(ins[c]) \cup Prepared(W),
           Range(ins[n]) \cap Range(outs[r]) # {}, Range(ins[r]) \cap Range(outs[c]) # {},
           Range(ins[a]) \cap Range(outs[c]) # {}, Sized(n)'
    PROVE  Sound'
<1>1. n \in Node /\ a \in Node /\ outs[n] \in Seq(Value) /\ outs[a] \in Seq(Value)
  BY TypeParts
<1>2. Range(outs'[n]) = Range(outs[n]) \cup Range(outs[a])
  BY <1>1, RangeOfConcat
<1>3. Made(live)' = Made(live)
  <2>1. \A v : v \in Made(live)' => v \in Made(live)
    BY <1>2, InMade, MadeAfter
  <2>2. \A v : v \in Made(live) => v \in Made(live)'
    <3> SUFFICES ASSUME NEW v, NEW k \in live, v \in Range(outs[k]) PROVE v \in Made(live)'
      BY InMade
    <3>1. CASE k \in {n, a}
      BY <1>2, <3>1, MadeAfter
    <3>2. CASE k \notin {n, a}
      BY <3>2, MadeAfter
    <3> QED BY <3>1, <3>2
  <2> QED BY <2>1, <2>2
<1>4. AllSized'
  <2>1. \A k \in live : k # n => Sized(k)' /\ IsInjective(outs'[k])
    BY SizedStays DEF Sound, AllSized
  <2>2. Range(outs[n]) \cap Range(outs[a]) = {}
    BY MadeOnce DEF Sound
  <2>3. IsInjective(outs'[n])
    BY <1>1, <2>2, InjectiveConcat DEF Sound, AllSized
  <2> QED BY <2>1, <2>3 DEF AllSized
<1>5. SourcesAreFree' /\ AliasesAreGone' /\ OutputsThere'
  BY <1>3, SameAliases DEF Sound, SourcesAreFree, AliasesAreGone, OutputsThere
<1>6. InputsThere'
  <2>1. Prepared(W) \subseteq Source \cup Made(live)
    BY InPrepared, InMade
  <2>2. \A k \in live : Range(ins'[k]) \subseteq Source \cup Made(live)
    BY <2>1 DEF Sound, InputsThere
  <2> QED BY <1>3, <2>2 DEF InputsThere
<1>7. Acyclic'
  <2>1. Acyclic /\ SourcesAreFree
    BY DEF Sound
  <2>2. \A k \in live : k # n => ins'[k] = ins[k] /\ outs'[k] = outs[k]
    OBVIOUS
  <2>3. \A k, m \in live : Range(outs[k]) \cap Range(outs[m]) # {} => k = m
    BY MadeOnce DEF Sound
  <2> QED BY <1>2, <2>1, <2>2, <2>3, JoinedNodes
<1> QED BY <1>4, <1>5, <1>6, <1>7 DEF Sound

------------------------------------------------------------------------------
(* What the operators make of known dimensions, operator by operator. *)

LEMMA OneElement == ASSUME NEW S, NEW s \in Seq(S), Len(s) = 1 PROVE s = <<s[1]>> /\ s[1] \in S
OBVIOUS
LEMMA TwoElements ==
    ASSUME NEW S, NEW s \in Seq(S), Len(s) = 2 PROVE s = <<s[1], s[2]>> /\ s[1] \in S /\ s[2] \in S
OBVIOUS

LEMMA DimsOfOne == ASSUME NEW x PROVE DimsOf(<<x>>) = <<dims[x]>>
BY DEF DimsOf
LEMMA DimsOfThree == ASSUME NEW x, NEW y, NEW z PROVE DimsOf(<<x, y, z>>) = <<dims[x], dims[y], dims[z]>>
BY DEF DimsOf

LEMMA FirstOf == ASSUME NEW x PROVE <<x>>[1] = x /\ Len(<<x>>) = 1
OBVIOUS

LEMMA SizedFacts ==
    ASSUME TypeOK, NEW n \in live, Sized(n)
    PROVE  /\ op[n] \in Operators /\ Len(ins[n]) \in Arity(op[n])
           /\ Infer(op[n], attr[n], DimsOf(ins[n])) = DimsOf(outs[n])
           /\ Len(outs[n]) = Len(Infer(op[n], attr[n], DimsOf(ins[n])))
           /\ Len(DimsOf(ins[n])) = Len(ins[n])
           /\ \A i \in 1 .. Len(ins[n]) : DimsOf(ins[n])[i] = dims[ins[n][i]]
           /\ \A i \in 1 .. Len(outs[n]) : DimsOf(outs[n])[i] = dims[outs[n][i]]
           /\ ins[n] \in Seq(Value) /\ outs[n] \in Seq(Value)
<1>1. ins[n] \in Seq(Value) /\ outs[n] \in Seq(Value) /\ dims \in [Value -> KnownDims]
  BY TypeParts
<1> QED BY <1>1, DimsOfFacts DEF Sized, Creatable

\* One output, of the dimensions that are inferred.
LEMMA OneOutput ==
    ASSUME TypeOK, NEW n \in live, Sized(n), NEW d, Infer(op[n], attr[n], DimsOf(ins[n])) = <<d>>
    PROVE  Len(outs[n]) = 1 /\ dims[outs[n][1]] = d
BY SizedFacts, FirstOf

LEMMA UnarySized ==
    ASSUME TypeOK, NEW n \in live, Sized(n), op[n] \in {"Sigmoid", "Identity"}
    PROVE  Single(n) /\ dims[outs[n][1]] = dims[ins[n][1]]
<1>1. Len(ins[n]) = 1
  BY SizedFacts DEF Arity
<1>2. DimsOf(ins[n])[1] = dims[ins[n][1]]
  BY <1>1, SizedFacts
<1>3. Infer(op[n], attr[n], DimsOf(ins[n])) = <<dims[ins[n][1]]>>
  BY <1>2 DEF Infer
<1> QED BY <1>1, <1>3, OneOutput DEF Single

LEMMA TwoInputs ==
    ASSUME TypeOK, NEW n \in live, Sized(n), op[n] \in {"Mul", "Add", "MatMul", "Concat"}
    PROVE  /\ Len(ins[n]) = 2 /\ ins[n] = <<ins[n][1], ins[n][2]>>
           /\ ins[n][1] \in Value /\ ins[n][2] \in Value
           /\ dims[ins[n][1]] \in KnownDims /\ dims[ins[n][2]] \in KnownDims
           /\ DimsOf(ins[n])[1] = dims[ins[n][1]] /\ DimsOf(ins[n])[2] = dims[ins[n][2]]
<1>1. Len(ins[n]) = 2
  BY SizedFacts DEF Arity
<1>2. ins[n] \in Seq(Value)
  BY SizedFacts
<1>3. ins[n] = <<ins[n][1], ins[n][2]>> /\ ins[n][1] \in Value /\ ins[n][2] \in Value
  BY <1>1, <1>2, TwoElements
<1>4. DimsOf(ins[n])[1] = dims[ins[n][1]] /\ DimsOf(ins[n])[2] = dims[ins[n][2]]
  BY <1>1, SizedFacts
<1> QED BY <1>1, <1>3, <1>4, TypeParts

LEMMA BroadcastSized ==
    ASSUME TypeOK, NEW n \in live, Sized(n), op[n] \in {"Mul", "Add"}
    PROVE  Len(outs[n]) = 1 /\ Broadcast(dims[ins[n][1]], dims[ins[n][2]]) = <<dims[outs[n][1]]>>
<1>1. PICK b : b = Broadcast(dims[ins[n][1]], dims[ins[n][2]])
  OBVIOUS
<1>2. Infer(op[n], attr[n], DimsOf(ins[n])) = b
  BY <1>1, TwoInputs DEF Infer
<1>3. b # <<>>
  BY <1>2 DEF Sized, Creatable
<1>4. b \in Seq(KnownDims) /\ Len(b) <= 1
  BY <1>1, TwoInputs, BroadcastType
<1>5. Len(b) = 1
  <2>1. \A s \in Seq(KnownDims) : Len(s) = 0 => s = <<>>
    OBVIOUS
  <2>2. Len(b) \in Nat
    BY <1>4
  <2>3. Len(b) # 0
    BY <1>3, <1>4, <2>1
  <2>4. Len(b) <= 1
    BY <1>4
  <2>5. \A l \in Nat : l # 0 /\ l <= 1 => l = 1
    OBVIOUS
  <2> QED BY <2>2, <2>3, <2>4, <2>5, Zenon
<1>6. b = <<b[1]>>
  BY <1>4, <1>5, OneElement
<1> QED BY <1>1, <1>2, <1>6, OneOutput

LEMMA MatMulSized ==
    ASSUME TypeOK, NEW n \in live, Sized(n), op[n] = "MatMul"
    PROVE  /\ Len(outs[n]) = 1
           /\ Len(dims[ins[n][1]]) = 2 /\ Len(dims[ins[n][2]]) = 2
           /\ dims[ins[n][1]][2] = dims[ins[n][2]][1]
           /\ dims[outs[n][1]] = <<dims[ins[n][1]][1], dims[ins[n][2]][2]>>
<1>1. PICK a, b : a = dims[ins[n][1]] /\ b = dims[ins[n][2]]
  OBVIOUS
<1>2. Infer(op[n], attr[n], DimsOf(ins[n])) = Product(a, b)
  BY <1>1, TwoInputs DEF Infer
<1>3. Product(a, b) # <<>>
  BY <1>2 DEF Sized, Creatable
<1>4. Len(a) = 2 /\ Len(b) = 2 /\ a[2] = b[1] /\ Product(a, b) = <<<<a[1], b[2]>>>>
  BY <1>3 DEF Product
<1>5. Len(outs[n]) = 1 /\ dims[outs[n][1]] = <<a[1], b[2]>>
  BY <1>2, <1>4, OneOutput
<1> QED BY <1>1, <1>4, <1>5

LEMMA ReshapeSized ==
    ASSUME TypeOK, NEW n \in live, Sized(n), op[n] = "Reshape"
    PROVE  /\ Len(ins[n]) \in {1, 2} /\ Len(outs[n]) = 1
           /\ ResolveShape(attr[n], dims[ins[n][1]]) = <<dims[outs[n][1]]>>
           /\ Count(dims[outs[n][1]]) = Count(dims[ins[n][1]])
<1>1. Len(ins[n]) \in {1, 2}
  BY SizedFacts DEF Arity
<1>2. DimsOf(ins[n])[1] = dims[ins[n][1]]
  BY <1>1, SizedFacts
<1>3. PICK d, s : d = dims[ins[n][1]] /\ s = ResolveShape(attr[n], d)
  OBVIOUS
<1>4. Infer(op[n], attr[n], DimsOf(ins[n])) = s
  BY <1>2, <1>3 DEF Infer
<1>5. s # <<>>
  BY <1>4 DEF Sized, Creatable
<1>6. PICK full : s = <<full>> /\ Count(full) = Count(d)
  BY <1>3, <1>5 DEF ResolveShape
<1>7. Len(outs[n]) = 1 /\ dims[outs[n][1]] = full
  BY <1>4, <1>6, OneOutput
<1> QED BY <1>1, <1>3, <1>6, <1>7

LEMMA TransposeSized ==
    ASSUME TypeOK, NEW n \in live, Sized(n), op[n] = "Transpose",
           attr[n] = [i \in 1 .. Len(attr[n]) |-> i]
    PROVE  dims[outs[n][1]] = dims[ins[n][1]]
<1>1. Len(ins[n]) = 1
  BY SizedFacts DEF Arity
<1>2. DimsOf(ins[n])[1] = dims[ins[n][1]]
  BY <1>1, SizedFacts
<1>3. PICK d, a : d = dims[ins[n][1]] /\ a = attr[n]
  OBVIOUS
<1>4. Infer(op[n], attr[n], DimsOf(ins[n])) = Transposed(d, a)
  BY <1>2, <1>3 DEF Infer
<1>5. Transposed(d, a) # <<>>
  BY <1>4 DEF Sized, Creatable
<1>6. Len(a) = Len(d) /\ Transposed(d, a) = <<[i \in 1 .. Len(d) |-> d[a[i]]]>>
  BY <1>5 DEF Transposed
<1>7. d \in KnownDims
  <2>1. ins[n][1] \in Value
    BY <1>1, SizedFacts
  <2> QED BY <1>3, <2>1, TypeParts
<1>8. \A i \in 1 .. Len(d) : a[i] = i
  <2>1. \A i \in 1 .. Len(a) : a[i] = i
    BY <1>3, Zenon
  <2> QED BY <1>6, <2>1
<1>9. [i \in 1 .. Len(d) |-> d[a[i]]] = d
  <2>1. [i \in 1 .. Len(d) |-> d[a[i]]] = [i \in 1 .. Len(d) |-> d[i]]
    BY <1>8
  <2>2. d = [i \in 1 .. Len(d) |-> d[i]]
    BY <1>7 DEF KnownDims
  <2> QED BY <2>1, <2>2
<1>10. Infer(op[n], attr[n], DimsOf(ins[n])) = <<d>>
  BY <1>4, <1>6, <1>9
<1> QED BY <1>3, <1>10, OneOutput

LEMMA ConcatSized ==
    ASSUME TypeOK, NEW n \in live, Sized(n), op[n] = "Concat"
    PROVE  Len(outs[n]) = 1 /\ Joined(dims[ins[n][1]], dims[ins[n][2]]) = <<dims[outs[n][1]]>>
<1>1. PICK a, b : a = dims[ins[n][1]] /\ b = dims[ins[n][2]]
  OBVIOUS
<1>2. Infer(op[n], attr[n], DimsOf(ins[n])) = Joined(a, b)
  BY <1>1, TwoInputs DEF Infer
<1>3. Joined(a, b) # <<>>
  BY <1>2 DEF Sized, Creatable
<1>4. PICK d : Joined(a, b) = <<d>>
  BY <1>3 DEF Joined
<1> QED BY <1>1, <1>2, <1>4, OneOutput

LEMMA ConvSized ==
    ASSUME TypeOK, NEW n \in live, Sized(n), op[n] = "Conv"
    PROVE  /\ Len(ins[n]) \in {2, 3} /\ Len(outs[n]) = 1
           /\ Convolved(dims[ins[n][1]], dims[ins[n][2]]) = <<dims[outs[n][1]]>>
<1>1. Len(ins[n]) \in {2, 3}
  BY SizedFacts DEF Arity
<1>2. DimsOf(ins[n])[1] = dims[ins[n][1]] /\ DimsOf(ins[n])[2] = dims[ins[n][2]]
  BY <1>1, SizedFacts
<1>3. PICK a, b : a = dims[ins[n][1]] /\ b = dims[ins[n][2]]
  OBVIOUS
<1>4. Infer(op[n], attr[n], DimsOf(ins[n])) = Convolved(a, b)
  BY <1>2, <1>3 DEF Infer
<1>5. Convolved(a, b) # <<>>
  BY <1>4 DEF Sized, Creatable
<1>6. PICK d : Convolved(a, b) = <<d>>
  BY <1>5 DEF Convolved
<1> QED BY <1>1, <1>3, <1>4, <1>6, OneOutput

LEMMA SplitSized ==
    ASSUME TypeOK, NEW n \in live, Sized(n), op[n] = "Split"
    PROVE  /\ Len(outs[n]) = 2
           /\ Parts(dims[ins[n][1]]) = <<dims[outs[n][1]], dims[outs[n][2]]>>
<1>1. Len(ins[n]) \in {1, 2}
  BY SizedFacts DEF Arity
<1>2. DimsOf(ins[n])[1] = dims[ins[n][1]]
  BY <1>1, SizedFacts
<1>3. PICK d : d = dims[ins[n][1]]
  OBVIOUS
<1>4. Infer(op[n], attr[n], DimsOf(ins[n])) = Parts(d)
  BY <1>2, <1>3 DEF Infer
<1>5. Parts(d) # <<>>
  BY <1>4 DEF Sized, Creatable
<1>6. PICK x, y : Parts(d) = <<x, y>>
  BY <1>5 DEF Parts
<1>7. Len(outs[n]) = 2 /\ dims[outs[n][1]] = x /\ dims[outs[n][2]] = y
  <2>1. Len(<<x, y>>) = 2 /\ <<x, y>>[1] = x /\ <<x, y>>[2] = y
    OBVIOUS
  <2>2. DimsOf(outs[n]) = <<x, y>> /\ Len(outs[n]) = 2
    BY <1>4, <1>6, <2>1, SizedFacts
  <2> QED BY <2>1, <2>2, SizedFacts
<1> QED BY <1>3, <1>6, <1>7

------------------------------------------------------------------------------
(* The shapes the fusions keep. *)

LEMMA BroadcastWhole ==
    ASSUME NEW d \in KnownDims PROVE Broadcast(d, d) = <<d>>
<1>1. PICK k \in Nat : k = Len(d)
  BY ElementOfDims
<1>2. Max({Len(d), Len(d)}) = k
  BY <1>1, MaxOfTwo
<1>3. Align(d, k) = d
  BY <1>1, AlignType
<1>4. \A i \in 1 .. k : Max({d[i], d[i]}) = d[i]
  <2> TAKE i \in 1 .. k
  <2>1. d[i] \in Nat
    BY <1>1, ElementOfDims
  <2> QED BY <2>1, MaxOfTwo
<1>5. [i \in 1 .. k |-> Max({d[i], d[i]})] = d
  <2>1. d = [i \in 1 .. k |-> d[i]]
    BY <1>1 DEF KnownDims
  <2>2. [i \in 1 .. k |-> Max({d[i], d[i]})] = [i \in 1 .. k |-> d[i]]
    BY <1>4
  <2> QED BY <2>1, <2>2
<1> QED BY <1>2, <1>3, <1>5 DEF Broadcast

LEMMA AlignBias == ASSUME NEW k \in Nat \ {0} PROVE Align(<<k>>, 2) = <<1, k>>
<1>1. Len(<<k>>) = 1
  OBVIOUS
<1>2. [i \in 1 .. 2 - 1 |-> 1] = <<1>>
  OBVIOUS
<1>3. <<1>> \o <<k>> = <<1, k>>
  <2>1. <<1>> \in Seq(Nat) /\ <<k>> \in Seq(Nat)
    OBVIOUS
  <2>2. PICK a \in Seq(Nat), b \in Seq(Nat) : a = <<1>> /\ b = <<k>>
    BY <2>1
  <2>3. Len(a) = 1 /\ a[1] = 1 /\ Len(b) = 1 /\ b[1] = k
    BY <2>2
  <2>4. a \o b \in Seq(Nat) /\ Len(a \o b) = 2 /\ (a \o b)[1] = a[1] /\ (a \o b)[2] = b[1]
    <3>1. a \o b \in Seq(Nat)
      OBVIOUS
    <3>2. Len(a \o b) = 2
      <4>1. Len(a \o b) = Len(a) + Len(b)
        OBVIOUS
      <4>2. 1 + 1 = 2
        OBVIOUS
      <4> QED BY <2>3, <4>1, <4>2, Zenon
    <3>3. \A i \in 1 .. Len(a) + Len(b) : (a \o b)[i] = IF i <= Len(a) THEN a[i] ELSE b[i - Len(a)]
      OBVIOUS
    <3> QED BY <2>3, <3>1, <3>2, <3>3
  <2> QED BY <2>2, <2>3, <2>4, TwoElements
<1> QED BY <1>1, <1>2, <1>3 DEF Align

\* A bias of the rows of a matrix product, on either side.
LEMMA BroadcastBias ==
    ASSUME NEW m \in Nat \ {0}, NEW k \in Nat \ {0}, NEW b, IsBias(b, m, k)
    PROVE  Broadcast(<<m, k>>, b) = <<<<m, k>>>> /\ Broadcast(b, <<m, k>>) = <<<<m, k>>>>
<1>1. <<m, k>> \in KnownDims
  BY TwoDims
<1>2. CASE b = <<m, k>>
  BY <1>1, <1>2, BroadcastWhole
<1>3. CASE b = <<k>>
  <2>1. Len(b) = 1 /\ Len(<<m, k>>) = 2
    BY <1>3
  <2>2. Max({Len(<<m, k>>), Len(b)}) = 2 /\ Max({Len(b), Len(<<m, k>>)}) = 2
    BY <2>1, MaxOfTwo
  <2>3. Align(<<m, k>>, 2) = <<m, k>> /\ Align(b, 2) = <<1, k>>
    <3>1. Align(<<m, k>>, 2) = <<m, k>>
      <4>1. PICK d \in KnownDims : d = <<m, k>>
        BY <1>1
      <4>2. Len(d) <= 2 /\ Len(d) = 2 /\ 2 \in Nat
        BY <2>1, <4>1
      <4> QED BY <4>1, <4>2, AlignType
    <3> QED BY <1>3, <3>1, AlignBias
  <2> DEFINE x == <<m, k>>
             y == <<1, k>>
  <2>4. /\ x[1] = m /\ x[2] = k /\ y[1] = 1 /\ y[2] = k
        /\ Len(x) = 2 /\ x = [i \in 1 .. 2 |-> x[i]]
    OBVIOUS
  <2> HIDE DEF x, y
  <2>5. \A i \in 1 .. 2 : i = 1 \/ i = 2
    OBVIOUS
  <2>6. \A i \in 1 .. 2 : Max({x[i], y[i]}) = x[i] /\ Max({y[i], x[i]}) = x[i]
    <3>1. Max({m, 1}) = m /\ Max({1, m}) = m /\ Max({k, k}) = k
      BY MaxOfTwo
    <3> QED BY <2>4, <2>5, <3>1
  <2>7. \A i \in 1 .. 2 : (x[i] = y[i] \/ 1 \in {x[i], y[i]}) /\ (y[i] = x[i] \/ 1 \in {y[i], x[i]})
    BY <2>4, <2>5
  <2>8. [i \in 1 .. 2 |-> Max({x[i], y[i]})] = x /\ [i \in 1 .. 2 |-> Max({y[i], x[i]})] = x
    BY <2>4, <2>6
  <2>9. Max({Len(x), Len(b)}) = 2 /\ Max({Len(b), Len(x)}) = 2 /\ Align(x, 2) = x /\ Align(b, 2) = y
    BY <2>2, <2>3 DEF x, y
  <2>10. Broadcast(x, b) = <<x>>
    BY <2>7, <2>8, <2>9 DEF Broadcast
  <2>11. Broadcast(b, x) = <<x>>
    BY <2>7, <2>8, <2>9 DEF Broadcast
  <2> QED BY <2>10, <2>11 DEF x
<1> QED BY <1>2, <1>3 DEF IsBias

\* The dimensions a reshape that copies none gives an input of as many elements.
LEMMA SameTarget ==
    ASSUME NEW a, NEW d, NEW e, Count(d) = Count(e), 0 \notin Range(a), DOMAIN a = 1 .. Len(a)
    PROVE  ResolveShape(a, d) = ResolveShape(a, e)
<1>1. \A i \in 1 .. Len(a) : a[i] # 0
  BY DEF Range
<1>2. [i \in 1 .. Len(a) |-> IF a[i] = 0 /\ i <= Len(d) THEN d[i] ELSE a[i]] =
      [i \in 1 .. Len(a) |-> IF a[i] = 0 /\ i <= Len(e) THEN e[i] ELSE a[i]]
  BY <1>1
<1> QED BY <1>2 DEF ResolveShape

------------------------------------------------------------------------------
(* What makes the calls still to be made succeed, pattern by pattern. *)

\* The reasons of StopsForAReason.
Excused == \E n \in live : FusedWithItself(n) \/ PublicInside(n)

\* The last call removes a node that nothing uses.
Removing == \E s \in live : todo = <<Drop(s)>> /\ (CanRemove(s) \/ Excused)

\* SigmoidMul and MatMulAdd: n takes the inputs of s, whose output t only it uses.
Fits(o, a, list, made) ==
    Creatable(o, a, DimsOf(list), Len(made)) /\ Infer(o, a, DimsOf(list)) = DimsOf(made)

Fusable(n, s, o, list, t) ==
    /\ n # s /\ o \in {"SiLU", "Gemm"} /\ Fits(o, attr[n], list, outs[n])
    /\ Range(list) \subseteq Range(ins[n]) \cup Range(ins[s])
    /\ outs[s] = <<t>> /\ users[t] = {n} /\ ~IsGraphOutputValue(t)
    /\ \/ t \notin Range(list)
       \/ o = "Gemm" /\ op[s] = "MatMul" /\ Len(ins[s]) = 2 /\ list = Append(ins[s], t)

Fusing ==
    \E n, s \in live, o \in Op, list \in Seq(Value), t \in Value :
        todo = <<SetOp(n, o, list), Drop(s)>> /\ Fusable(n, s, o, list, t)

\* QwenDepthwiseConv: n takes the outputs of a and the inputs of c; r goes, then c.
Joinable(n, a, r, c, list, j, w, x) ==
    /\ n \notin {a, r, c} /\ a \notin {r, c} /\ r # c
    /\ Creatable("QwenDepthwiseConvState", <<>>, DimsOf(list), Len(outs[n] \o outs[a]))
    /\ Infer("QwenDepthwiseConvState", <<>>, DimsOf(list)) = DimsOf(outs[n] \o outs[a])
    /\ outs[a] # <<>>
    /\ op[n] = "Conv" /\ op[a] = "Split" /\ op[r] = "Reshape" /\ op[c] = "Concat"
    /\ outs[c] = <<j>> /\ outs[r] = <<w>> /\ ins[a] = <<j>> /\ ins[n] = <<w, x>>
    /\ j \in Range(ins[r]) /\ users[w] = {n} /\ users[j] = {r, a}
    /\ list = Append(ins[c], x)

Joining ==
    \E n, a, r, c \in live, list \in Seq(Value), j, w, x \in Value :
        /\ todo = <<Absorb(n, a, "QwenDepthwiseConvState", list), Drop(r), Drop(c)>>
        /\ Joinable(n, a, r, c, list, j, w, x)

Separating ==
    \E n, r, c \in live, j, w \in Value :
        /\ todo = <<Drop(r), Drop(c)>> /\ r # c
        /\ op[n] = "QwenDepthwiseConvState" /\ op[r] = "Reshape" /\ op[c] = "Concat"
        /\ outs[c] = <<j>> /\ outs[r] = <<w>> /\ users[w] = {} /\ users[j] = {r}

\* Identity, NoOp and ReshapeChain: what is left of the users of "from" read "to".
Refits(m, from, to) == Fits(op[m], attr[m], WithInput(m, from, to), outs[m])

BypassLeft(k, q, n, from, to) ==
    /\ Len(todo) = k + 1 /\ todo[k + 1] = Drop(n)
    /\ \A i \in 1 .. k : todo[i] = SetInput(q[i], from, to)

Bypassable(n, from, to) ==
    /\ outs[n] = <<from>> /\ ins[n] = <<to>> /\ ~IsGraphOutputValue(from)
    /\ \A m \in users[from] : Refits(m, from, to)
    /\ Passes[pass] = "NoOp" => dims[from] = dims[to]

Bypassing ==
    \E n \in live, from, to \in Value : \E k \in Nat : \E q \in [1 .. k -> users[from]] :
        /\ BypassLeft(k, q, n, from, to) /\ Bypassable(n, from, to)
        /\ IsInjective(q) /\ Range(q) = users[from]

Removed == \E n \in live : todo = <<Drop(n)>> /\ IsDead(n)
Relaying == \E n \in live : todo = <<Relay(n)>> /\ CanAlias(n)

CallsSucceed ==
    todo # <<>> =>
      /\ Passes[pass] \in {"SigmoidMul", "MatMulAdd"} => Fusing \/ Removing
      /\ Passes[pass] = "QwenDepthwiseConv" => Joining \/ Separating \/ Removing
      /\ Passes[pass] \in {"Identity", "ReshapeChain", "NoOp"} => Bypassing
      /\ Passes[pass] = "DeadNode" => Removed
      /\ Passes[pass] = "StateOutputAlias" => Relaying

\* The nodes still to be visited match, whatever the pass has done since it noted them.
WorkMatches ==
    \A n \in work \cap live :
        /\ Passes[pass] = "Identity" => op[n] = "Identity"
        /\ Passes[pass] = "ReshapeChain" => op[n] = "Reshape"
        /\ Passes[pass] = "NoOp" => /\ Single(n) /\ ~IsGraphOutputValue(outs[n][1])
                                    /\ dims[ins[n][1]] = dims[outs[n][1]]
        /\ Passes[pass] = "DeadNode" => IsDead(n)
        /\ Passes[pass] = "StateOutputAlias" => CanAlias(n)

\* Before the pass that relays the states no value is an alias.
NoAliasYet == (\A i \in 1 .. pass : Passes[i] # "StateOutputAlias") => Aliased = {}

\* What holds between two calls while the pipeline runs.
Steady == ~torn /\ Sound /\ Plain /\ CallsSucceed /\ WorkMatches

IInv ==
    /\ TypesInv /\ NoAliasYet
    /\ status = "running" => Steady
    /\ StopsForAReason

------------------------------------------------------------------------------
(* The matches of a visit. *)

LEMMA OneOfTwo == ASSUME NEW i \in {1, 2} PROVE (i = 1 /\ 3 - i = 2) \/ (i = 2 /\ 3 - i = 1)
OBVIOUS

LEMMA RangeOfTwo == ASSUME NEW x, NEW y PROVE Range(<<x, y>>) = {x, y}
<1>1. DOMAIN <<x, y>> = {1, 2} /\ <<x, y>>[1] = x /\ <<x, y>>[2] = y
  OBVIOUS
<1> QED BY <1>1 DEF Range

LEMMA RangeOfThree == ASSUME NEW x, NEW y, NEW z PROVE Range(<<x, y, z>>) = {x, y, z}
<1>1. /\ DOMAIN <<x, y, z>> = {1, 2, 3} /\ <<x, y, z>>[1] = x /\ <<x, y, z>>[2] = y
      /\ <<x, y, z>>[3] = z
  OBVIOUS
<1> QED BY <1>1 DEF Range

LEMMA AppendToTwo ==
    ASSUME NEW x \in Value, NEW y \in Value, NEW z \in Value
    PROVE  Append(<<x, y>>, z) = <<x, y, z>>
<1>1. <<x, y>> \in Seq(Value) /\ Len(<<x, y>>) = 2 /\ <<x, y>>[1] = x /\ <<x, y>>[2] = y
  OBVIOUS
<1>2. /\ <<x, y, z>> \in Seq(Value) /\ Len(<<x, y, z>>) = 3
      /\ <<x, y, z>>[1] = x /\ <<x, y, z>>[2] = y /\ <<x, y, z>>[3] = z
  OBVIOUS
<1>3. PICK s \in Seq(Value), t \in Seq(Value) : s = <<x, y>> /\ t = <<x, y, z>>
  BY <1>1, <1>2
<1>4. /\ Append(s, z) \in Seq(Value) /\ Len(Append(s, z)) = 3
      /\ Append(s, z)[1] = x /\ Append(s, z)[2] = y /\ Append(s, z)[3] = z
  BY <1>1, <1>3
<1>5. \A u \in Seq(Value) : \A w \in Seq(Value) :
        Len(u) = 3 /\ Len(w) = 3 /\ u[1] = w[1] /\ u[2] = w[2] /\ u[3] = w[3] => u = w
  OBVIOUS
<1>6. Append(s, z) = t
  BY <1>2, <1>3, <1>4, <1>5
<1> QED BY <1>3, <1>6

\* The one output of the node that makes t.
LEMMA MakerOfOne ==
    ASSUME TypeOK, Agree, NEW t \in Value, producer[t] \in live, Len(outs[producer[t]]) = 1
    PROVE  outs[producer[t]] = <<t>>
<1>1. PICK s \in live : s = producer[t]
  OBVIOUS
<1>2. s \in Node /\ outs[s] \in Seq(Value) /\ Len(outs[s]) = 1
  BY <1>1, TypeParts
<1>3. t \in Range(outs[s])
  BY <1>1, <1>2, IndexFacts
<1>4. outs[s] = <<outs[s][1]>>
  BY <1>2, OneElement
<1>5. t = outs[s][1]
  BY <1>3, <1>4, RangeOfOne
<1> QED BY <1>1, <1>4, <1>5

LEMMA SiluShapes ==
    ASSUME NEW a, NEW d PROVE /\ Infer("SiLU", a, <<d>>) = <<d>>
                              /\ Creatable("SiLU", a, <<d>>, 1)
<1>1. Infer("SiLU", a, <<d>>) = <<d>>
  BY DEF Infer
<1>2. <<d>> # <<>> /\ Len(<<d>>) = 1
  OBVIOUS
<1> QED BY <1>1, <1>2 DEF Creatable, Operators, Arity

LEMMA VisitSigmoidMul ==
    ASSUME TypeOK, Sound, NEW n \in live, NEW i \in {1, 2}, SiluAt(n, i)
    PROVE  \E t \in Value :
             /\ producer[ins[n][i]] \in live
             /\ <<ins[n][3 - i]>> \in Seq(Value)
             /\ Fusable(n, producer[ins[n][i]], "SiLU", <<ins[n][3 - i]>>, t)
<1>1. Agree /\ Acyclic /\ Sized(n) /\ n \in Node
  BY TypeParts DEF Sound, AllSized
<1>2. PICK t \in Value, b \in Value, s \in live : t = ins[n][i] /\ b = ins[n][3 - i] /\ s = producer[t]
  BY <1>1, InputType, TypeParts DEF SiluAt, MakerIs
<1>3. op[n] = "Mul" /\ op[s] = "Sigmoid" /\ ins[s] = <<b>> /\ users[t] = {n} /\ ~IsGraphOutputValue(t)
  BY <1>2 DEF SiluAt, MakerIs
<1>4. Sized(s) /\ s \in Node
  BY TypeParts DEF Sound, AllSized
<1>5. Single(s) /\ dims[outs[s][1]] = dims[ins[s][1]]
  BY <1>3, <1>4, UnarySized
<1>6. outs[s] = <<t>>
  BY <1>1, <1>2, <1>5, MakerOfOne DEF Single
<1>7. dims[t] = dims[b]
  BY <1>3, <1>5, <1>6, FirstOf
<1>8. Range(ins[s]) = {b} /\ Range(outs[s]) = {t}
  BY <1>3, <1>6, RangeOfOne
<1>9. t # b
  BY <1>1, <1>8, NoLoop
<1>10. Range(ins[n]) = {t, b}
  <2>1. ins[n] = <<ins[n][1], ins[n][2]>>
    BY <1>1, <1>3, TwoInputs
  <2>2. Range(ins[n]) = {ins[n][1], ins[n][2]}
    BY <2>1, RangeOfTwo
  <2> QED BY <1>2, <2>2, OneOfTwo
<1>11. n # s
  BY <1>3
<1>12. dims[b] \in KnownDims
  BY <1>2, TypeParts
<1>13. Len(outs[n]) = 1 /\ dims[outs[n][1]] = dims[b]
  <2>1. Len(outs[n]) = 1 /\ Broadcast(dims[ins[n][1]], dims[ins[n][2]]) = <<dims[outs[n][1]]>>
    BY <1>1, <1>3, BroadcastSized
  <2>2. dims[ins[n][1]] = dims[b] /\ dims[ins[n][2]] = dims[b]
    BY <1>2, <1>7, OneOfTwo
  <2>3. <<dims[outs[n][1]]>> = <<dims[b]>>
    BY <1>12, <2>1, <2>2, BroadcastWhole
  <2> QED BY <2>1, <2>3, FirstOf
<1>14. Fits("SiLU", attr[n], <<b>>, outs[n])
  <2>1. DimsOf(<<b>>) = <<dims[b]>>
    BY DimsOfOne
  <2>2. outs[n] = <<outs[n][1]>>
    BY <1>1, <1>13, TypeParts, OneElement
  <2>3. DimsOf(outs[n]) = <<dims[b]>>
    BY <1>13, <2>2, DimsOfOne
  <2> QED BY <1>13, <2>1, <2>3, SiluShapes DEF Fits
<1>15. Range(<<b>>) = {b}
  BY RangeOfOne
<1>16. Fusable(n, s, "SiLU", <<b>>, t)
  BY <1>3, <1>6, <1>8, <1>9, <1>10, <1>11, <1>14, <1>15 DEF Fusable
<1>17. <<b>> \in Seq(Value)
  OBVIOUS
<1> QED BY <1>2, <1>16, <1>17

LEMMA GemmShapes ==
    ASSUME NEW a, NEW x, NEW y, NEW z, Len(x) = 2, Len(y) = 2, x[2] = y[1]
    PROVE  /\ Infer("Gemm", a, <<x, y, z>>) = <<<<x[1], y[2]>>>>
           /\ Creatable("Gemm", a, <<x, y, z>>, 1)
<1>1. <<x, y, z>>[1] = x /\ <<x, y, z>>[2] = y /\ Len(<<x, y, z>>) = 3
  OBVIOUS
<1>2. Product(x, y) = <<<<x[1], y[2]>>>>
  BY DEF Product
<1>3. Infer("Gemm", a, <<x, y, z>>) = <<<<x[1], y[2]>>>>
  BY <1>1, <1>2 DEF Infer
<1>4. \A d : <<d>> # <<>> /\ Len(<<d>>) = 1
  OBVIOUS
<1> QED BY <1>1, <1>3, <1>4 DEF Creatable, Operators, Arity

LEMMA VisitMatMulAdd ==
    ASSUME TypeOK, Sound, NEW n \in live, NEW i \in {1, 2}, GemmAt(n, i),
           NEW s \in live, s = producer[ins[n][i]]
    PROVE  \E t \in Value :
             /\ Append(ins[s], ins[n][3 - i]) \in Seq(Value)
             /\ Fusable(n, s, "Gemm", Append(ins[s], ins[n][3 - i]), t)
<1>1. Agree /\ Acyclic /\ Sized(n) /\ n \in Node /\ Sized(s) /\ s \in Node
  BY TypeParts DEF Sound, AllSized
<1>2. PICK t \in Value, x \in Value : t = ins[n][i] /\ x = ins[n][3 - i]
  BY <1>1, InputType, TypeParts DEF GemmAt
<1>3. /\ op[n] = "Add" /\ op[s] = "MatMul" /\ users[t] = {n} /\ ~IsGraphOutputValue(t) /\ s = producer[t]
      /\ IsBias(dims[x], dims[ins[s][1]][1], dims[ins[s][2]][2])
  BY <1>2 DEF GemmAt, MakerIs
<1>4. PICK a \in Value, b \in Value : a = ins[s][1] /\ b = ins[s][2]
  BY <1>1, <1>3, TwoInputs
<1>5. ins[s] = <<a, b>> /\ Len(ins[s]) = 2
  BY <1>1, <1>3, <1>4, TwoInputs
<1>6. /\ Len(outs[s]) = 1
      /\ Len(dims[a]) = 2 /\ Len(dims[b]) = 2 /\ dims[a][2] = dims[b][1]
      /\ dims[outs[s][1]] = <<dims[a][1], dims[b][2]>>
  BY <1>1, <1>3, <1>4, MatMulSized
<1>7. outs[s] = <<t>>
  BY <1>1, <1>3, <1>6, MakerOfOne
<1>8. PICK m \in Nat \ {0}, k \in Nat \ {0} : m = dims[a][1] /\ k = dims[b][2]
  <2>1. dims[a] \in KnownDims /\ dims[b] \in KnownDims
    BY TypeParts
  <2> QED BY <1>6, <2>1, FirstDims
<1>9. dims[t] = <<m, k>>
  BY <1>6, <1>7, <1>8, FirstOf
<1>10. IsBias(dims[x], m, k)
  BY <1>3, <1>4, <1>8
<1>11. Len(outs[n]) = 1 /\ dims[outs[n][1]] = <<m, k>>
  <2>1. Len(outs[n]) = 1 /\ Broadcast(dims[ins[n][1]], dims[ins[n][2]]) = <<dims[outs[n][1]]>>
    BY <1>1, <1>3, BroadcastSized
  <2>2. \/ dims[ins[n][1]] = <<m, k>> /\ dims[ins[n][2]] = dims[x]
        \/ dims[ins[n][1]] = dims[x] /\ dims[ins[n][2]] = <<m, k>>
    BY <1>2, <1>9, OneOfTwo
  <2>3. Broadcast(<<m, k>>, dims[x]) = <<<<m, k>>>> /\ Broadcast(dims[x], <<m, k>>) = <<<<m, k>>>>
    BY <1>10, BroadcastBias
  <2>4. <<dims[outs[n][1]]>> = <<<<m, k>>>>
    BY <2>1, <2>2, <2>3
  <2> QED BY <2>1, <2>4, FirstOf
<1>12. PICK list : list = Append(ins[s], x)
  OBVIOUS
<1>13. list = <<a, b, x>> /\ list \in Seq(Value)
  BY <1>5, <1>12, AppendToTwo
<1>14. Fits("Gemm", attr[n], list, outs[n])
  <2>1. DimsOf(list) = <<dims[a], dims[b], dims[x]>>
    BY <1>13, DimsOfThree
  <2>2. outs[n] = <<outs[n][1]>>
    BY <1>1, <1>11, TypeParts, OneElement
  <2>3. DimsOf(outs[n]) = <<<<m, k>>>>
    BY <1>11, <2>2, DimsOfOne
  <2>4. PICK p, q, z : p = dims[a] /\ q = dims[b] /\ z = dims[x]
    OBVIOUS
  <2>5. Len(p) = 2 /\ Len(q) = 2 /\ p[2] = q[1] /\ p[1] = m /\ q[2] = k
    BY <1>6, <1>8, <2>4
  <2>6. /\ Infer("Gemm", attr[n], <<p, q, z>>) = <<<<p[1], q[2]>>>>
        /\ Creatable("Gemm", attr[n], <<p, q, z>>, 1)
    BY <2>5, GemmShapes
  <2>7. DimsOf(list) = <<p, q, z>> /\ DimsOf(outs[n]) = <<<<p[1], q[2]>>>>
    BY <2>1, <2>3, <2>4, <2>5
  <2> QED BY <1>11, <2>6, <2>7 DEF Fits
<1>15. Range(ins[s]) = {a, b} /\ Range(list) = {a, b, x} /\ Range(outs[s]) = {t}
  BY <1>5, <1>7, <1>13, RangeOfOne, RangeOfTwo, RangeOfThree
<1>16. x \in Range(ins[n])
  <2>1. ins[n] = <<ins[n][1], ins[n][2]>>
    BY <1>1, <1>3, TwoInputs
  <2>2. Range(ins[n]) = {ins[n][1], ins[n][2]}
    BY <2>1, RangeOfTwo
  <2> QED BY <1>2, <2>2, OneOfTwo
<1>17. t \notin {a, b}
  BY <1>1, <1>15, NoLoop
<1>18. t \notin Range(list) \/ x = t
  BY <1>15, <1>17
<1>19. n # s
  BY <1>3
<1>20. Fusable(n, s, "Gemm", list, t)
  BY <1>3, <1>5, <1>7, <1>12, <1>14, <1>15, <1>16, <1>18, <1>19 DEF Fusable
<1> QED BY <1>2, <1>12, <1>13, <1>20

LEMMA OneThenTwo ==
    ASSUME NEW x \in Value, NEW y \in Value, NEW z \in Value
    PROVE  <<x>> \o <<y, z>> = <<x, y, z>>
<1>1. /\ <<x>> \in Seq(Value) /\ Len(<<x>>) = 1 /\ <<x>>[1] = x
      /\ <<y, z>> \in Seq(Value) /\ Len(<<y, z>>) = 2 /\ <<y, z>>[1] = y /\ <<y, z>>[2] = z
  OBVIOUS
<1>2. /\ <<x, y, z>> \in Seq(Value) /\ Len(<<x, y, z>>) = 3
      /\ <<x, y, z>>[1] = x /\ <<x, y, z>>[2] = y /\ <<x, y, z>>[3] = z
  OBVIOUS
<1>3. PICK s \in Seq(Value), u \in Seq(Value), t \in Seq(Value) :
        s = <<x>> /\ u = <<y, z>> /\ t = <<x, y, z>>
  BY <1>1, <1>2
<1>4. /\ s \o u \in Seq(Value) /\ Len(s \o u) = 3
      /\ (s \o u)[1] = x /\ (s \o u)[2] = y /\ (s \o u)[3] = z
  BY <1>1, <1>3
<1>5. \A v \in Seq(Value) : \A w \in Seq(Value) :
        Len(v) = 3 /\ Len(w) = 3 /\ v[1] = w[1] /\ v[2] = w[2] /\ v[3] = w[3] => v = w
  OBVIOUS
<1>6. s \o u = t
  BY <1>2, <1>3, <1>4, <1>5
<1> QED BY <1>3, <1>6

LEMMA PartsOfTwo == ASSUME NEW a, NEW b, NEW c, NEW d, <<a, b>> = <<c, d>> PROVE a = c /\ b = d
OBVIOUS

\* The dimensions inside a depthwise convolution.
LEMMA ConvStateShapes ==
    ASSUME NEW ch \in Nat \ {0}
    PROVE  /\ Joined(<<1, ch, 3>>, <<1, ch, 1>>) = <<<<1, ch, 4>>>>
           /\ Parts(<<1, ch, 4>>) = <<<<1, ch, 1>>, <<1, ch, 3>>>>
           /\ Convolved(<<1, ch, 1, 4>>, <<ch, 1, 1, 4>>) = <<<<1, ch, 1, 1>>>>
           /\ ConvState(<<1, ch, 3>>, <<1, ch, 1>>) = <<<<1, ch, 1, 1>>, <<1, ch, 1>>, <<1, ch, 3>>>>
<1>1. \A x, y, z : Len(<<x, y, z>>) = 3 /\ <<x, y, z>>[1] = x /\ <<x, y, z>>[2] = y /\ <<x, y, z>>[3] = z
  OBVIOUS
<1>2. \A x, y, z, u : /\ Len(<<x, y, z, u>>) = 4 /\ <<x, y, z, u>>[1] = x /\ <<x, y, z, u>>[2] = y
  OBVIOUS
<1>3. 3 + 1 = 4 /\ 4 > 1 /\ 4 - 1 = 3
  OBVIOUS
<1>4. Joined(<<1, ch, 3>>, <<1, ch, 1>>) = <<<<1, ch, 3 + 1>>>>
  BY <1>1, Zenon DEF Joined
<1>5. Parts(<<1, ch, 4>>) = <<<<1, ch, 1>>, <<1, ch, 4 - 1>>>>
  BY <1>1, <1>3, Zenon DEF Parts
<1>6. Convolved(<<1, ch, 1, 4>>, <<ch, 1, 1, 4>>) = <<<<1, ch, 1, 1>>>>
  BY <1>2, Zenon DEF Convolved
<1>7. ConvState(<<1, ch, 3>>, <<1, ch, 1>>) = <<<<1, ch, 1, 1>>, <<1, ch, 1>>, <<1, ch, 3>>>>
  BY <1>1, Zenon DEF ConvState
<1> QED BY <1>3, <1>4, <1>5, <1>6, <1>7

LEMMA ConvStateCreated ==
    ASSUME NEW x, NEW y, NEW z, NEW a, NEW b, NEW c, ConvState(x, y) = <<a, b, c>>
    PROVE  /\ Infer("QwenDepthwiseConvState", <<>>, <<x, y, z>>) = <<a, b, c>>
           /\ Creatable("QwenDepthwiseConvState", <<>>, <<x, y, z>>, 3)
<1>1. <<x, y, z>>[1] = x /\ <<x, y, z>>[2] = y /\ Len(<<x, y, z>>) = 3
  OBVIOUS
<1>2. Infer("QwenDepthwiseConvState", <<>>, <<x, y, z>>) = <<a, b, c>>
  BY <1>1 DEF Infer
<1>3. <<a, b, c>> # <<>> /\ Len(<<a, b, c>>) = 3
  OBVIOUS
<1> QED BY <1>1, <1>2, <1>3 DEF Creatable, Operators, Arity

LEMMA VisitDepthwiseConv ==
    ASSUME TypeOK, Sound, Plain, NEW n \in live, NEW s \in live, NEW r \in live, NEW c \in live,
           ConvAt(n, s), r = producer[ins[n][1]], c = producer[ins[r][1]]
    PROVE  \E j, w, x \in Value :
             /\ Append(ins[c], ins[n][2]) \in Seq(Value)
             /\ Joinable(n, s, r, c, Append(ins[c], ins[n][2]), j, w, x)
<1>1. Agree /\ \A k \in live : Sized(k) /\ k \in Node /\ ins[k] \in Seq(Value) /\ outs[k] \in Seq(Value)
  BY TypeParts DEF Sound, AllSized
<1>2. /\ op[n] = "Conv" /\ op[r] = "Reshape" /\ op[c] = "Concat" /\ op[s] = "Split"
      /\ Len(ins[n]) = 2 /\ Len(ins[r]) = 2 /\ Len(ins[c]) = 2 /\ Len(outs[s]) = 2
  BY DEF ConvAt, MakerIs
<1>3. PICK w \in Value, x \in Value, j \in Value :
        w = ins[n][1] /\ x = ins[n][2] /\ j = ins[r][1]
  <2>1. ins[n][1] \in Value /\ ins[n][2] \in Value /\ ins[r][1] \in Value
    BY <1>1, <1>2, TwoElements
  <2> QED BY <2>1
<1>4. PICK st \in Value, mx \in Value : st = ins[c][1] /\ mx = ins[c][2]
  <2>1. ins[c][1] \in Value /\ ins[c][2] \in Value
    BY <1>1, <1>2, TwoElements
  <2> QED BY <2>1
<1>5. ins[n] = <<w, x>> /\ ins[c] = <<st, mx>>
  BY <1>1, <1>2, <1>3, <1>4, TwoElements
<1>6. Len(outs[r]) = 1 /\ Len(outs[c]) = 1 /\ Len(outs[n]) = 1
  BY <1>1, <1>2, ReshapeSized, ConcatSized, ConvSized
<1>7. outs[r] = <<w>> /\ outs[c] = <<j>>
  BY <1>1, <1>3, <1>6, MakerOfOne
<1>8. outs[r][1] = w /\ outs[c][1] = j
  BY <1>7, FirstOf
<1>9. users[w] = {n} /\ users[j] = {r, s} /\ ins[s] = <<j>>
  BY <1>8 DEF ConvAt
<1>10. PICK ch \in Nat \ {0} : ch = dims[st][2]
  <2>1. dims[st] \in KnownDims
    BY TypeParts
  <2>2. Len(dims[st]) = 3
    <3>1. \A u, v, z : Len(<<u, v, z>>) = 3
      OBVIOUS
    <3> QED BY <1>4, <3>1 DEF ConvAt
  <2> QED BY <2>1, <2>2, FirstDims
<1>11. /\ dims[st] = <<1, ch, 3>> /\ dims[mx] = <<1, ch, 1>>
       /\ dims[w] = <<1, ch, 1, 4>> /\ dims[x] = <<ch, 1, 1, 4>>
  BY <1>3, <1>4, <1>8, <1>10 DEF ConvAt
<1>12. dims[j] = <<1, ch, 4>>
  <2>1. Joined(dims[st], dims[mx]) = <<dims[j]>>
    BY <1>1, <1>2, <1>4, <1>8, ConcatSized
  <2>2. <<dims[j]>> = <<<<1, ch, 4>>>>
    BY <1>11, <2>1, ConvStateShapes
  <2> QED BY <2>2, FirstOf
<1>13. PICK y \in Value, o1 \in Value, o2 \in Value : outs[n] = <<y>> /\ outs[s] = <<o1, o2>>
  <2>1. outs[n] = <<outs[n][1]>> /\ outs[n][1] \in Value
    BY <1>1, <1>6, OneElement
  <2>2. outs[s] = <<outs[s][1], outs[s][2]>> /\ outs[s][1] \in Value /\ outs[s][2] \in Value
    BY <1>1, <1>2, TwoElements
  <2> QED BY <2>1, <2>2
<1>14. outs[n][1] = y /\ outs[s][1] = o1 /\ outs[s][2] = o2
  <2>1. <<o1, o2>>[1] = o1 /\ <<o1, o2>>[2] = o2
    OBVIOUS
  <2> QED BY <1>13, <2>1, FirstOf
<1>15. dims[o1] = <<1, ch, 1>> /\ dims[o2] = <<1, ch, 3>>
  <2>1. ins[s][1] = j
    BY <1>9, FirstOf
  <2>2. Parts(dims[j]) = <<dims[o1], dims[o2]>>
    BY <1>1, <1>2, <1>14, <2>1, SplitSized
  <2>3. <<dims[o1], dims[o2]>> = <<<<1, ch, 1>>, <<1, ch, 3>>>>
    BY <1>12, <2>2, ConvStateShapes
  <2> QED BY <2>3, PartsOfTwo
<1>16. dims[y] = <<1, ch, 1, 1>>
  <2>1. Convolved(dims[w], dims[x]) = <<dims[y]>>
    BY <1>1, <1>2, <1>3, <1>14, ConvSized
  <2>2. <<dims[y]>> = <<<<1, ch, 1, 1>>>>
    BY <1>11, <2>1, ConvStateShapes
  <2> QED BY <2>2, FirstOf
<1>17. PICK list : list = Append(ins[c], ins[n][2])
  OBVIOUS
<1>18. list = <<st, mx, x>> /\ list \in Seq(Value)
  <2>1. list = Append(<<st, mx>>, x)
    BY <1>3, <1>5, <1>17
  <2>2. <<st, mx, x>> \in Seq(Value)
    OBVIOUS
  <2> QED BY <2>1, <2>2, AppendToTwo
<1>19. outs[n] \o outs[s] = <<y, o1, o2>>
  BY <1>13, OneThenTwo
<1>20. /\ DimsOf(list) = <<dims[st], dims[mx], dims[x]>>
       /\ DimsOf(outs[n] \o outs[s]) = <<dims[y], dims[o1], dims[o2]>>
       /\ Len(outs[n] \o outs[s]) = 3
  <2>1. Len(<<y, o1, o2>>) = 3
    OBVIOUS
  <2> QED BY <1>18, <1>19, <2>1, DimsOfThree
<1>21. ConvState(dims[st], dims[mx]) = <<dims[y], dims[o1], dims[o2]>>
  BY <1>11, <1>15, <1>16, ConvStateShapes
<1>22. /\ Creatable("QwenDepthwiseConvState", <<>>, DimsOf(list), Len(outs[n] \o outs[s]))
       /\ Infer("QwenDepthwiseConvState", <<>>, DimsOf(list)) = DimsOf(outs[n] \o outs[s])
  BY <1>20, <1>21, ConvStateCreated
<1>23. outs[s] # <<>> /\ j \in Range(ins[r])
  <2>2. ins[r] = <<j, ins[r][2]>>
    BY <1>1, <1>2, <1>3, TwoElements
  <2>3. Range(ins[r]) = {j, ins[r][2]}
    BY <2>2, RangeOfTwo
  <2>4. Len(<<>>) = 0
    OBVIOUS
  <2> QED BY <1>2, <2>3, <2>4
<1>24. n \notin {s, r, c} /\ s \notin {r, c} /\ r # c
  BY <1>2
<1>25. list = Append(ins[c], x)
  BY <1>3, <1>17
<1>26. Joinable(n, s, r, c, list, j, w, x)
  BY <1>2, <1>5, <1>7, <1>9, <1>22, <1>23, <1>24, <1>25 DEF Joinable
<1> QED BY <1>17, <1>18, <1>26

------------------------------------------------------------------------------
\* A value of the same dimensions in place of another.
LEMMA SameDims ==
    ASSUME TypeOK, NEW m \in Node, NEW from \in Value, NEW to \in Value, dims[from] = dims[to]
    PROVE  DimsOf(WithInput(m, from, to)) = DimsOf(ins[m])
<1>1. PICK new \in Seq(Value) : new = WithInput(m, from, to) /\ Len(new) = Len(ins[m])
  BY WithInputType, TypeParts
<1>2. ins[m] \in Seq(Value) /\ \A i \in 1 .. Len(ins[m]) : dims[new[i]] = dims[ins[m][i]]
  BY <1>1, TypeParts DEF WithInput
<1>3. DimsOf(new) = DimsOf(ins[m])
  BY <1>1, <1>2 DEF DimsOf
<1> QED BY <1>1, <1>3

LEMMA VisitBypass ==
    ASSUME TypeOK, Sound, NEW n \in live, Single(n), ~IsGraphOutputValue(outs[n][1]),
           dims[ins[n][1]] = dims[outs[n][1]]
    PROVE  Bypassable(n, outs[n][1], ins[n][1])
<1>1. PICK from \in Value, to \in Value : from = outs[n][1] /\ to = ins[n][1]
  BY SingleType, TypeParts
<1>2. outs[n] = <<from>> /\ ins[n] = <<to>>
  BY <1>1, TypeParts, OneElement DEF Single
<1>3. ASSUME NEW m \in users[from] PROVE Refits(m, from, to)
  <2>1. m \in Node /\ m \in live
    BY <1>3, IndexFacts DEF Sound, TypeOK, GraphTypeOK
  <2>2. Sized(m)
    BY <2>1 DEF Sound, AllSized
  <2>3. DimsOf(WithInput(m, from, to)) = DimsOf(ins[m])
    BY <1>1, <2>1, SameDims
  <2> QED BY <2>2, <2>3 DEF Refits, Fits, Sized
<1> QED BY <1>1, <1>2, <1>3 DEF Bypassable

LEMMA ReplaceTheOne ==
    ASSUME NEW n, NEW from, NEW to, ins[n] = <<from>> PROVE WithInput(n, from, to) = <<to>>
<1>1. Len(ins[n]) = 1 /\ ins[n][1] = from
  BY FirstOf
<1>2. WithInput(n, from, to) = [i \in 1 .. 1 |-> to]
  BY <1>1 DEF WithInput
<1>3. [i \in 1 .. 1 |-> to] = <<to>>
  OBVIOUS
<1> QED BY <1>2, <1>3

LEMMA VisitReshapeChain ==
    ASSUME TypeOK, Sound, Plain, Passes[pass] # "NoOp",
           NEW n \in live, NEW p \in live, op[n] = "Reshape", p = producer[ins[n][1]],
           Single(n), ~IsGraphOutputValue(ins[n][1]), MakerIs(ins[n][1], "Reshape"), Single(p),
           users[ins[n][1]] = {n}
    PROVE  Bypassable(p, ins[n][1], ins[p][1])
<1>1. PICK t \in Value, x \in Value, y \in Value : t = ins[n][1] /\ x = ins[p][1] /\ y = outs[n][1]
  BY SingleType, TypeParts
<1>2. Agree /\ Sized(n) /\ Sized(p) /\ n \in Node /\ op[p] = "Reshape"
  BY TypeParts DEF Sound, AllSized, MakerIs
<1>3. outs[p] = <<t>> /\ ins[p] = <<x>> /\ ins[n] = <<t>> /\ outs[n] = <<y>>
  BY <1>1, <1>2, MakerOfOne, TypeParts, OneElement DEF Single
<1>4. Count(dims[t]) = Count(dims[x])
  BY <1>1, <1>2, <1>3, ReshapeSized, FirstOf
<1>5. attr[n] \in Seq(Int) /\ 0 \notin Range(attr[n])
  BY <1>2, TypeParts DEF Plain
<1>6. ResolveShape(attr[n], dims[x]) = <<dims[y]>>
  <2>1. ResolveShape(attr[n], dims[t]) = <<dims[y]>>
    BY <1>1, <1>2, ReshapeSized
  <2>2. DOMAIN attr[n] = 1 .. Len(attr[n])
    BY <1>5
  <2>3. ResolveShape(attr[n], dims[t]) = ResolveShape(attr[n], dims[x])
    BY <1>4, <1>5, <2>2, SameTarget
  <2> QED BY <2>1, <2>3
<1>7. WithInput(n, t, x) = <<x>>
  BY <1>3, ReplaceTheOne
<1>8. DimsOf(<<x>>) = <<dims[x]>> /\ DimsOf(outs[n]) = <<dims[y]>> /\ Len(outs[n]) = 1
  BY <1>3, DimsOfOne, FirstOf
<1>9. Infer("Reshape", attr[n], <<dims[x]>>) = <<dims[y]>>
  <2>1. <<dims[x]>>[1] = dims[x]
    BY FirstOf
  <2> QED BY <1>6, <2>1 DEF Infer
<1>10. Refits(n, t, x)
  <2>1. <<dims[y]>> # <<>> /\ Len(<<dims[y]>>) = 1 /\ Len(<<dims[x]>>) = 1
    OBVIOUS
  <2>2. Creatable("Reshape", attr[n], <<dims[x]>>, 1)
    BY <1>9, <2>1 DEF Creatable, Operators, Arity
  <2> QED BY <1>7, <1>8, <1>9, <2>2 DEF Refits, Fits
<1> QED BY <1>1, <1>3, <1>10 DEF Bypassable

------------------------------------------------------------------------------
(* The steps that make no call. *)

LEMMA StillParts ==
    ASSUME UNCHANGED <<graphVars, attr>>
    PROVE  /\ UNCHANGED <<op, ins, outs, live, producer, users, alias, dims, outputs, torn>>
           /\ \A list : DimsOf(list)' = DimsOf(list)
           /\ \A n, from, to : WithInput(n, from, to)' = WithInput(n, from, to)
           /\ \A v : IsGraphOutputValue(v)' <=> IsGraphOutputValue(v)
           /\ Made(live)' = Made(live)
<1>1. UNCHANGED <<op, ins, outs, live, producer, users, alias, dims, outputs, torn>>
  BY DEF graphVars
<1> QED BY <1>1, SameAliases DEF DimsOf, WithInput, Made

LEMMA StillSound ==
    ASSUME UNCHANGED <<graphVars, attr>>, Sound, Plain PROVE Sound' /\ Plain'
<1>1. Agree'
  BY StillParts DEF Sound, Agree, UsersOf, ProducersOf
<1>2. AllSized'
  BY StillParts, SizedStays DEF Sound, AllSized
<1>3. Acyclic'
  BY StillParts, FewerNodes DEF Sound
<1>4. SourcesAreFree' /\ InputsThere' /\ OutputsThere' /\ AliasesAreGone'
  BY StillParts, SameAliases DEF Sound, SourcesAreFree, InputsThere, OutputsThere, AliasesAreGone
<1>5. Plain'
  <2>1. PICK W \in SUBSET live : Preparing(W)
    BY DEF Plain
  <2>2. UNCHANGED <<op, ins, outs, live>>
    BY StillParts
  <2>3. \A v : v \in Prepared(W)' <=> v \in Prepared(W)
    BY <2>2, InPrepared
  <2>4. Preparing(W)'
    BY <2>1, <2>2, <2>3 DEF Preparing
  <2> QED BY <2>2, <2>4 DEF Plain
<1> QED BY <1>1, <1>2, <1>3, <1>4, <1>5 DEF Sound

LEMMA StillReasons ==
    ASSUME UNCHANGED <<graphVars, attr>>
    PROVE  /\ Excused' <=> Excused
           /\ \A n : IsDead(n)' <=> IsDead(n)
           /\ \A n : CanAlias(n)' <=> CanAlias(n)
           /\ \A n : CanRemove(n)' <=> CanRemove(n)
<1>1. \A n : FusedWithItself(n)' <=> FusedWithItself(n)
  BY StillParts DEF FusedWithItself
<1>2. \A n : PublicInside(n)' <=> PublicInside(n)
  BY StillParts DEF PublicInside
<1>3. Excused' <=> Excused
  BY <1>1, <1>2, StillParts DEF Excused
<1> QED BY <1>3, StillParts DEF IsDead, CanAlias, CanRemove, HasUsers

LEMMA StillFits ==
    ASSUME UNCHANGED <<graphVars, attr>>
    PROVE  /\ \A o, a, list, made : Fits(o, a, list, made)' <=> Fits(o, a, list, made)
           /\ \A n, s, o, list, t : Fusable(n, s, o, list, t)' <=> Fusable(n, s, o, list, t)
           /\ \A n, a, r, c, list, j, w, x :
                Joinable(n, a, r, c, list, j, w, x)' <=> Joinable(n, a, r, c, list, j, w, x)
<1>1. \A o, a, list, made : Fits(o, a, list, made)' <=> Fits(o, a, list, made)
  BY StillParts DEF Fits
<1>2. \A n, s, o, list, t : Fusable(n, s, o, list, t)' <=> Fusable(n, s, o, list, t)
  BY <1>1, StillParts DEF Fusable
<1>3. \A n, a, r, c, list, j, w, x :
        Joinable(n, a, r, c, list, j, w, x)' <=> Joinable(n, a, r, c, list, j, w, x)
  <2> TAKE n, a, r, c, list, j, w, x
  <2>1. PICK all : all = outs[n] \o outs[a] /\ all = outs'[n] \o outs'[a]
    BY StillParts
  <2>2. DimsOf(outs[n] \o outs[a])' = DimsOf(outs[n] \o outs[a])
    BY <2>1, StillParts DEF DimsOf
  <2>3. DimsOf(list)' = DimsOf(list)
    BY StillParts
  <2> QED BY <2>1, <2>2, <2>3, StillParts DEF Joinable
<1> QED BY <1>1, <1>2, <1>3

LEMMA StillBypassable ==
    ASSUME UNCHANGED <<graphVars, attr, pass>>, NEW n, NEW from, NEW to
    PROVE  Bypassable(n, from, to)' <=> Bypassable(n, from, to)
<1>1. \A m : Refits(m, from, to)' <=> Refits(m, from, to)
  BY StillParts DEF Refits, Fits
<1> QED BY <1>1, StillParts DEF Bypassable

LEMMA StillMatches ==
    ASSUME UNCHANGED <<graphVars, attr, pass>>, work' \subseteq work, WorkMatches
    PROVE  WorkMatches'
BY StillParts, StillReasons DEF WorkMatches, Single

------------------------------------------------------------------------------
\* The calls that a bypass leads to.
LEMMA BypassBegins ==
    ASSUME TypeOK, TypeOK', NEW n \in live, Single(n), Bypassable(n, outs[n][1], ins[n][1]),
           todo' \in Bypass(n), UNCHANGED <<graphVars, attr, pass>>
    PROVE  Bypassing'
<1>1. n \in Node
  BY TypeParts
<1>2. PICK from \in Value, to \in Value :
        \E k \in Nat : \E q \in [1 .. k -> users[from]] :
             /\ from = outs[n][1] /\ to = ins[n][1]
             /\ IsInjective(q) /\ Range(q) = users[from]
             /\ todo' = Append([i \in 1 .. k |-> SetInput(q[i], from, to)], Drop(n))
  BY <1>1, BypassFound, TypeParts
<1>3. PICK k \in Nat : \E q \in [1 .. k -> users[from]] :
             /\ from = outs[n][1] /\ to = ins[n][1]
             /\ IsInjective(q) /\ Range(q) = users[from]
             /\ todo' = Append([i \in 1 .. k |-> SetInput(q[i], from, to)], Drop(n))
  BY <1>2
<1>4. PICK q \in [1 .. k -> users[from]] :
             /\ from = outs[n][1] /\ to = ins[n][1]
             /\ IsInjective(q) /\ Range(q) = users[from]
             /\ todo' = Append([i \in 1 .. k |-> SetInput(q[i], from, to)], Drop(n))
  BY <1>3
<1>5. BypassLeft(k, q, n, from, to)'
  <2>1. PICK t : t = [i \in 1 .. k |-> SetInput(q[i], from, to)]
    OBVIOUS
  <2>2. \A i \in 1 .. k : q[i] \in Node
    BY TypeParts DEF GraphTypeOK
  <2>3. t \in Seq(Call) /\ Len(t) = k /\ \A i \in 1 .. k : t[i] = SetInput(q[i], from, to)
    BY <2>1, <2>2, InputCallType
  <2>4. PICK d \in Call : d = Drop(n)
    BY <1>1 DEF Drop, Call
  <2>5. todo' = Append(t, d)
    BY <1>4, <2>1, <2>4
  <2>6. Len(todo') = k + 1 /\ todo'[k + 1] = d /\ \A i \in 1 .. k : todo'[i] = t[i]
    BY <2>3, <2>5
  <2> QED BY <2>3, <2>4, <2>6 DEF BypassLeft
<1>6. Bypassable(n, from, to)'
  BY <1>4, StillBypassable
<1>7. UNCHANGED <<live, users>>
  BY StillParts
<1> QED BY <1>2, <1>4, <1>5, <1>6, <1>7 DEF Bypassing

LEMMA ReshapeChainBegins ==
    ASSUME TypeOK, NEW n \in live, NEW p \in live, NEW t \in Value, NEW x \in Value,
           users[t] = {n}, Bypassable(p, t, x), todo' = <<SetInput(n, t, x), Drop(p)>>,
           UNCHANGED <<graphVars, attr, pass>>
    PROVE  Bypassing'
<1>1. PICK q : q = [i \in 1 .. 1 |-> n]
  OBVIOUS
<1>2. q \in [1 .. 1 -> {n}] /\ q[1] = n /\ Range(q) = {n} /\ IsInjective(q)
  BY <1>1 DEF Range, IsInjective
<1>3. BypassLeft(1, q, p, t, x)'
  <2>1. Len(todo') = 2 /\ todo'[1] = SetInput(n, t, x) /\ todo'[2] = Drop(p)
    OBVIOUS
  <2>2. 1 + 1 = 2 /\ \A i \in 1 .. 1 : i = 1
    OBVIOUS
  <2> QED BY <1>2, <2>1, <2>2 DEF BypassLeft
<1>4. Bypassable(p, t, x)' /\ users'[t] = {n} /\ p \in live'
  BY StillBypassable, StillParts
<1>5. 1 \in Nat /\ q \in [1 .. 1 -> users'[t]] /\ Range(q) = users'[t]
  BY <1>2, <1>4
<1> QED BY <1>2, <1>3, <1>4, <1>5 DEF Bypassing

LEMMA VisitSucceeds == ASSUME TypesInv, TypesInv', Steady, Visit PROVE CallsSucceed'
<1>1. PICK n \in work : todo' \in CallsFor(Passes[pass], n) /\ work' = work \ {n}
  BY DEF Visit
<1>2. UNCHANGED <<graphVars, attr, pass, changed, status>>
  BY DEF Visit
<1>3. pass \in Int /\ pass >= 1 /\ pass <= Len(Passes) /\ n \in Node /\ TypeOK /\ TypeOK'
  BY <1>1, PassesAssumption DEF TypesInv, NothingBeforeFirst, TypeOK
<1>4. PICK p \in PassNames : p = Passes[pass] /\ p = Passes[pass']
  BY <1>2, <1>3, PassName
<1> SUFFICES ASSUME todo' # <<>> PROVE CallsSucceed'
  BY DEF CallsSucceed
<1>5. n \in live /\ live' = live
  <2>1. n \notin live => todo' = <<>>
    BY <1>1 DEF CallsFor
  <2> QED BY <1>2, <2>1, StillParts
<1>6. Sound /\ Plain /\ Operators \subseteq Op
  BY OpAssumption DEF Steady
<1>7. CASE p = "SigmoidMul"
  <2>1. todo' = SigmoidMulCalls(n)
    BY <1>1, <1>4, <1>5, <1>7 DEF CallsFor
  <2>2. PICK i \in {1, 2} :
             /\ SiluAt(n, i)
             /\ todo' = <<SetOp(n, "SiLU", <<ins[n][3 - i]>>), Drop(producer[ins[n][i]])>>
    BY <2>1, SigmoidMulFound
  <2>3. PICK t \in Value :
             /\ producer[ins[n][i]] \in live
             /\ <<ins[n][3 - i]>> \in Seq(Value)
             /\ Fusable(n, producer[ins[n][i]], "SiLU", <<ins[n][3 - i]>>, t)
    BY <1>3, <1>5, <1>6, <2>2, VisitSigmoidMul
  <2>4. PICK s \in live, list \in Seq(Value) : s = producer[ins[n][i]] /\ list = <<ins[n][3 - i]>>
    BY <2>3
  <2>5. Fusable(n, s, "SiLU", list, t)'
    BY <1>2, <2>3, <2>4, StillFits
  <2>6. "SiLU" \in Op
    BY <1>6 DEF Operators
  <2>7. Fusing'
    BY <1>5, <2>2, <2>4, <2>5, <2>6 DEF Fusing
  <2> QED BY <1>4, <1>7, <2>7 DEF CallsSucceed
<1>8. CASE p = "MatMulAdd"
  <2>1. todo' = MatMulAddCalls(n)
    BY <1>1, <1>4, <1>5, <1>8 DEF CallsFor
  <2>2. PICK i \in {1, 2}, s \in live :
             /\ GemmAt(n, i) /\ s = producer[ins[n][i]]
             /\ todo' = <<SetOp(n, "Gemm", Append(ins[s], ins[n][3 - i])), Drop(s)>>
    BY <2>1, MatMulAddFound
  <2>3. PICK t \in Value :
             /\ Append(ins[s], ins[n][3 - i]) \in Seq(Value)
             /\ Fusable(n, s, "Gemm", Append(ins[s], ins[n][3 - i]), t)
    BY <1>3, <1>5, <1>6, <2>2, VisitMatMulAdd
  <2>4. PICK list \in Seq(Value) : list = Append(ins[s], ins[n][3 - i])
    BY <2>3
  <2>5. Fusable(n, s, "Gemm", list, t)'
    BY <1>2, <2>3, <2>4, StillFits
  <2>6. "Gemm" \in Op
    BY <1>6 DEF Operators
  <2>7. Fusing'
    BY <1>5, <2>2, <2>4, <2>5, <2>6 DEF Fusing
  <2> QED BY <1>4, <1>8, <2>7 DEF CallsSucceed
<1>9. CASE p = "QwenDepthwiseConv"
  <2>1. todo' = DepthwiseConvCalls(n)
    BY <1>1, <1>4, <1>5, <1>9 DEF CallsFor
  <2>2. PICK s \in live, r \in live, c \in live :
             /\ ConvAt(n, s) /\ r = producer[ins[n][1]] /\ c = producer[ins[r][1]]
             /\ todo' = <<Absorb(n, s, "QwenDepthwiseConvState", Append(ins[c], ins[n][2])),
                          Drop(r), Drop(c)>>
    BY <2>1, DepthwiseConvFound
  <2>3. PICK list : list = Append(ins[c], ins[n][2])
    OBVIOUS
  <2>4. PICK j \in Value, w \in Value, x \in Value :
             list \in Seq(Value) /\ Joinable(n, s, r, c, list, j, w, x)
    BY <1>3, <1>5, <1>6, <2>2, <2>3, VisitDepthwiseConv
  <2>5. Joinable(n, s, r, c, list, j, w, x)'
    BY <1>2, <2>4, StillFits
  <2>6. Joining'
    BY <1>5, <2>2, <2>3, <2>4, <2>5 DEF Joining
  <2> QED BY <1>4, <1>9, <2>6 DEF CallsSucceed
<1>10. CASE p \in {"Identity", "NoOp"}
  <2>1. Single(n) /\ ~IsGraphOutputValue(outs[n][1]) /\ dims[ins[n][1]] = dims[outs[n][1]]
    <3>1. CASE p = "Identity"
      <4>1. op[n] = "Identity" /\ Sized(n)
        BY <1>1, <1>4, <1>5, <1>6, <3>1 DEF Steady, WorkMatches, Sound, AllSized
      <4>2. Single(n) /\ dims[ins[n][1]] = dims[outs[n][1]]
        BY <1>3, <1>5, <4>1, UnarySized
      <4> QED BY <1>1, <1>4, <1>5, <3>1, <4>2 DEF CallsFor
    <3>2. CASE p = "NoOp"
      BY <1>1, <1>4, <1>5, <3>2 DEF Steady, WorkMatches
    <3> QED BY <1>10, <3>1, <3>2
  <2>2. todo' \in Bypass(n)
    BY <1>1, <1>4, <1>5, <1>10, <2>1 DEF CallsFor
  <2>3. Bypassable(n, outs[n][1], ins[n][1])
    BY <1>3, <1>5, <1>6, <2>1, VisitBypass
  <2>4. Bypassing'
    BY <1>2, <1>3, <1>5, <2>1, <2>2, <2>3, BypassBegins
  <2> QED BY <1>4, <1>10, <2>4 DEF CallsSucceed
<1>11. CASE p = "ReshapeChain"
  <2>1. todo' = ReshapeChainCalls(n)
    BY <1>1, <1>4, <1>5, <1>11 DEF CallsFor
  <2>2. PICK s \in live :
             /\ s = producer[ins[n][1]] /\ Single(n) /\ ~IsGraphOutputValue(ins[n][1])
             /\ MakerIs(ins[n][1], "Reshape") /\ Single(s) /\ users[ins[n][1]] = {n}
             /\ todo' = <<SetInput(n, ins[n][1], ins[s][1]), Drop(s)>>
    BY <2>1, ReshapeChainFound
  <2>3. op[n] = "Reshape"
    BY <1>1, <1>4, <1>5, <1>11 DEF Steady, WorkMatches
  <2>4. Bypassable(s, ins[n][1], ins[s][1])
    BY <1>3, <1>4, <1>5, <1>6, <1>11, <2>2, <2>3, VisitReshapeChain
  <2>5. PICK t \in Value, x \in Value : t = ins[n][1] /\ x = ins[s][1]
    BY <1>3, <2>2, SingleType, TypeParts
  <2>6. Bypassing'
    BY <1>2, <1>3, <1>5, <2>2, <2>4, <2>5, ReshapeChainBegins
  <2> QED BY <1>4, <1>11, <2>6 DEF CallsSucceed
<1>12. CASE p = "DeadNode"
  <2>1. todo' = <<Drop(n)>> /\ IsDead(n)
    BY <1>1, <1>4, <1>5, <1>12 DEF CallsFor, Steady, WorkMatches
  <2>2. Removed'
    BY <1>2, <1>5, <2>1, StillReasons DEF Removed
  <2> QED BY <1>4, <1>12, <2>2 DEF CallsSucceed
<1>13. CASE p = "StateOutputAlias"
  <2>1. todo' = <<Relay(n)>> /\ CanAlias(n)
    BY <1>1, <1>4, <1>5, <1>13 DEF CallsFor, Steady, WorkMatches
  <2>2. Relaying'
    BY <1>2, <1>5, <2>1, StillReasons DEF Relaying
  <2> QED BY <1>4, <1>13, <2>2 DEF CallsSucceed
<1> QED BY <1>7, <1>8, <1>9, <1>10, <1>11, <1>12, <1>13 DEF PassNames

LEMMA SoundIsValid == ASSUME TypeOK, Sound PROVE ValidStructure
<1>1. \A n \in live : IsInjective(outs[n])
  BY DEF Sound, AllSized
<1>2. \A n \in live : \A v \in Range(outs[n]) : v \notin Source /\ ProducersOf(v) = {n}
  <2> TAKE n \in live
  <2> TAKE v \in Range(outs[n])
  <2>1. v \in Made(live)
    BY InMade
  <2>2. \A m \in live : v \in Range(outs[m]) => m = n
    BY MadeOnce DEF Sound
  <2> QED BY <2>1, <2>2 DEF ProducersOf, Sound, SourcesAreFree
<1> QED BY <1>1, <1>2 DEF Sound, InputsThere, OutputsThere, ValidStructure

\* Without aliases an output is itself.
LEMMA OutputsOnly == ASSUME Aliased = {}, NEW v, IsGraphOutputValue(v) PROVE v \in outputs
<1>1. PICK o \in outputs : v \in AliasChain(o)
  BY DEF IsGraphOutputValue
<1>2. v \in ChainIn(alias, o) /\ AliasedIn(alias) = {}
  BY <1>1, ChainsOf
<1>3. PICK al : al = alias
  OBVIOUS
<1>4. o \in {o} /\ \A w \in {o} \cap AliasedIn(al) : al[w] \in {o}
  BY <1>2, <1>3
<1>5. ChainIn(al, o) \subseteq {o}
  BY <1>4, ChainFacts
<1> QED BY <1>2, <1>3, <1>5

\* What a pass notes is what it will match.
LEMMA CandidatesMatch ==
    ASSUME TypeOK, Sound, NEW p \in PassNames, p = "StateOutputAlias" => Aliased = {},
           NEW n \in Candidates(p)
    PROVE  /\ p = "Identity" => op[n] = "Identity"
           /\ p = "ReshapeChain" => op[n] = "Reshape"
           /\ p = "NoOp" => /\ Single(n) /\ ~IsGraphOutputValue(outs[n][1])
                            /\ dims[ins[n][1]] = dims[outs[n][1]]
           /\ p = "DeadNode" => IsDead(n)
           /\ p = "StateOutputAlias" => CanAlias(n)
<1>1. n \in live /\ Sized(n)
  BY DEF Candidates, Sound, AllSized
<1>2. p = "Identity" => op[n] = "Identity"
  BY DEF Candidates
<1>3. p = "ReshapeChain" => op[n] = "Reshape"
  BY DEF Candidates
<1>4. ASSUME p = "NoOp"
      PROVE  Single(n) /\ ~IsGraphOutputValue(outs[n][1]) /\ dims[ins[n][1]] = dims[outs[n][1]]
  <2>1. IsNoOp(n)
    BY <1>4 DEF Candidates
  <2>2. op[n] = "Transpose" /\ attr[n] = [i \in 1 .. Len(attr[n]) |-> i] =>
          dims[ins[n][1]] = dims[outs[n][1]]
    BY <1>1, TransposeSized
  <2> QED BY <2>1, <2>2 DEF IsNoOp
<1>5. p = "DeadNode" => IsDead(n)
  BY DEF Candidates
<1>6. ASSUME p = "StateOutputAlias" PROVE CanAlias(n)
  <2>1. IsStateRelay(n)
    BY <1>6 DEF Candidates
  <2>2. Single(n) /\ dims[outs[n][1]] = dims[ins[n][1]]
    BY <1>1, <2>1, UnarySized DEF IsStateRelay
  <2>3. outs[n][1] \in outputs
    BY <1>6, <2>1, OutputsOnly DEF IsStateRelay
  <2> QED BY <1>1, <2>1, <2>2, <2>3 DEF CanAlias, IsStateRelay, Single
<1> QED BY <1>2, <1>3, <1>4, <1>5, <1>6

\* The passes before the one that relays the states are others.
LEMMA RelaysOnce ==
    ASSUME NEW i \in Nat, i + 1 <= Len(Passes), Passes[i + 1] = "StateOutputAlias",
           NEW j \in 1 .. i
    PROVE  Passes[j] # "StateOutputAlias"
<1>1. DOMAIN Passes = 1 .. Len(Passes) /\ Len(Passes) \in Nat
  BY PassesAssumption
<1>2. i + 1 \in DOMAIN Passes /\ j \in DOMAIN Passes /\ i + 1 # j
  BY <1>1
<1> QED BY <1>2, PassesAssumption DEF IsInjective

LEMMA PassBegins ==
    ASSUME TypesInv, NoAliasYet, Steady, NextPass \/ NextRound
    PROVE  NoAliasYet' /\ status' \in {"running", "done"} /\ Steady'
<1>1. UNCHANGED <<graphVars, attr, todo>> /\ todo = <<>> /\ status = "running" /\ work = {}
  BY DEF NextPass, NextRound, Idle
<1>2. TypeOK /\ Sound /\ Plain /\ pass \in Nat /\ pass <= Len(Passes) /\ Len(Passes) \in Nat
  BY PassesAssumption DEF TypesInv, TypeOK, Steady
<1>3. ~torn' /\ Sound' /\ Plain' /\ CallsSucceed'
  BY <1>1, StillSound, StillParts DEF Steady, CallsSucceed
<1>4. status' \in {"running", "done"}
      /\ \/ pass' = pass /\ work' = {}
         \/ /\ pass < Len(Passes) /\ pass' = pass + 1 /\ work' = Candidates(Passes[pass + 1])
         \/ /\ pass > 0 /\ pass' = pass /\ Passes[pass] = "DeadNode" /\ work' = Candidates(Passes[pass])
  <2>1. CASE NextPass
    BY <1>1, <1>2, <2>1, SoundIsValid DEF NextPass
  <2>2. CASE NextRound
    BY <1>1, <1>2, <2>2 DEF NextRound, Looping
  <2> QED BY <2>1, <2>2
<1>5. NoAliasYet'
  <2> SUFFICES ASSUME \A i \in 1 .. pass' : Passes[i] # "StateOutputAlias" PROVE Aliased' = {}
    BY DEF NoAliasYet
  <2>1. \A i \in 1 .. pass : i \in 1 .. pass'
    BY <1>2, <1>4
  <2> QED BY <1>1, <2>1, StillParts DEF NoAliasYet, Aliased
<1>6. ASSUME NEW q \in Nat, q >= 1, q <= Len(Passes), pass' = q, work' = Candidates(Passes[q]),
             Passes[q] = "StateOutputAlias" => Aliased = {}
      PROVE  WorkMatches'
  <2>1. Passes[q] \in PassNames
    BY <1>6, PassName
  <2>2. PICK p \in PassNames : p = Passes[q]
    BY <2>1
  <2>3. \A n \in work' :
           /\ p = "Identity" => op[n] = "Identity"
           /\ p = "ReshapeChain" => op[n] = "Reshape"
           /\ p = "NoOp" => /\ Single(n) /\ ~IsGraphOutputValue(outs[n][1])
                            /\ dims[ins[n][1]] = dims[outs[n][1]]
           /\ p = "DeadNode" => IsDead(n)
           /\ p = "StateOutputAlias" => CanAlias(n)
    BY <1>2, <1>6, <2>2, CandidatesMatch
  <2> QED BY <1>1, <1>6, <2>2, <2>3, StillParts, StillReasons DEF WorkMatches, Single
<1>7. WorkMatches'
  <2>1. CASE work' = {}
    BY <2>1 DEF WorkMatches
  <2>2. CASE pass < Len(Passes) /\ pass' = pass + 1 /\ work' = Candidates(Passes[pass + 1])
    <3>1. Passes[pass + 1] = "StateOutputAlias" => Aliased = {}
      BY <1>2, <2>2, RelaysOnce DEF NoAliasYet
    <3>2. pass + 1 \in Nat /\ pass + 1 >= 1 /\ pass + 1 <= Len(Passes)
      BY <1>2, <2>2
    <3> QED BY <1>6, <2>2, <3>1, <3>2
  <2>3. CASE pass > 0 /\ pass' = pass /\ Passes[pass] = "DeadNode" /\ work' = Candidates(Passes[pass])
    <3>1. pass \in Nat /\ pass >= 1 /\ pass <= Len(Passes)
      BY <1>2, <2>3
    <3> QED BY <1>6, <2>3, <3>1
  <2> QED BY <1>4, <2>1, <2>2, <2>3
<1> QED BY <1>3, <1>4, <1>5, <1>7 DEF Steady

------------------------------------------------------------------------------
(* The calls. *)

LEMMA AgreesAfter == ASSUME TypeOK, Agree, ~torn', Rewrites PROVE Agree'
<1>1. Inv
  BY DEF TypeOK, Inv, IndexesAgree, Agree
<1>2. Inv'
  BY <1>1, StepInv DEF Rewrites
<1> QED BY <1>2 DEF Inv, IndexesAgree, Agree

LEMMA RangeOfAppend ==
    ASSUME NEW s \in Seq(Value), NEW x \in Value PROVE Range(Append(s, x)) = Range(s) \cup {x}
<1>1. <<x>> \in Seq(Value) /\ Append(s, x) = s \o <<x>>
  OBVIOUS
<1> QED BY <1>1, RangeOfConcat, RangeOfOne

\* The candidates still match when nodes and uses went.
LEMMA MatchesKept ==
    ASSUME WorkMatches, work' \subseteq work, pass' = pass, live' \subseteq live,
           UNCHANGED <<op, ins, outs, dims, outputs>>,
           \A n \in live' : HasUsers(n)' => HasUsers(n),
           \/ Passes[pass] = "StateOutputAlias"
           \/ \A v : IsGraphOutputValue(v)' <=> IsGraphOutputValue(v)
    PROVE  WorkMatches'
<1> SUFFICES ASSUME NEW n \in work' \cap live'
             PROVE  /\ Passes[pass] = "Identity" => op'[n] = "Identity"
                    /\ Passes[pass] = "ReshapeChain" => op'[n] = "Reshape"
                    /\ Passes[pass] = "NoOp" => /\ Single(n)' /\ ~IsGraphOutputValue(outs[n][1])'
                                                /\ dims'[ins'[n][1]] = dims'[outs'[n][1]]
                    /\ Passes[pass] = "DeadNode" => IsDead(n)'
                    /\ Passes[pass] = "StateOutputAlias" => CanAlias(n)'
  BY DEF WorkMatches
<1>1. n \in work \cap live
  OBVIOUS
<1>2. Single(n)' <=> Single(n)
  BY DEF Single
<1>3. Passes[pass] = "NoOp" => Single(n)' /\ ~IsGraphOutputValue(outs[n][1])'
                               /\ dims'[ins'[n][1]] = dims'[outs'[n][1]]
  BY <1>1, <1>2 DEF WorkMatches
<1>4. Passes[pass] = "DeadNode" => IsDead(n)'
  BY <1>1 DEF WorkMatches, IsDead
<1>5. Passes[pass] = "StateOutputAlias" => CanAlias(n)'
  BY <1>1 DEF WorkMatches, CanAlias
<1>6. /\ Passes[pass] = "Identity" => op'[n] = "Identity"
      /\ Passes[pass] = "ReshapeChain" => op'[n] = "Reshape"
  BY <1>1 DEF WorkMatches
<1> QED BY <1>3, <1>4, <1>5, <1>6

\* What todo is when there is a call.
LEMMA CallOf ==
    ASSUME TypesInv, todo # <<>>
    PROVE  /\ pass \in Int /\ pass >= 1 /\ pass <= Len(Passes) /\ Passes[pass] \in PassNames
           /\ TypeOK /\ todo \in Seq(Call)
<1>1. pass \in Int /\ pass >= 1 /\ pass <= Len(Passes)
  BY PassesAssumption DEF TypesInv, NothingBeforeFirst, TypeOK
<1> QED BY <1>1, PassName DEF TypesInv, TypeOK

LEMMA OneLeft ==
    ASSUME NEW x, todo = <<x>> PROVE Head(todo) = x /\ Tail(todo) = <<>> /\ todo[1] = x /\ Len(todo) = 1
OBVIOUS

LEMMA TwoLeft ==
    ASSUME NEW x, NEW y, todo = <<x, y>>
    PROVE  Head(todo) = x /\ Tail(todo) = <<y>> /\ todo[1] = x /\ Len(todo) = 2
OBVIOUS

LEMMA ThreeLeft ==
    ASSUME NEW x, NEW y, NEW z, todo = <<x, y, z>>
    PROVE  Head(todo) = x /\ Tail(todo) = <<y, z>> /\ todo[1] = x /\ Len(todo) = 3
OBVIOUS

LEMMA CallNames ==
    ASSUME NEW n, NEW o, NEW list, NEW from, NEW to, NEW a
    PROVE  /\ SetOp(n, o, list).f = "op" /\ SetInput(n, from, to).f = "input"
           /\ Absorb(n, a, o, list).f = "absorb"
           /\ Drop(n).f = "remove" /\ Drop(n).n = n /\ Relay(n).f = "relay" /\ Relay(n).n = n
BY DEF SetOp, SetInput, Absorb, Drop, Relay

\* The call that every stage begins with.
LEMMA FirstCalls ==
    ASSUME TypesInv, todo # <<>>
    PROVE  /\ Fusing => Head(todo).f = "op"
           /\ Joining => Head(todo).f = "absorb"
           /\ Separating \/ Removing \/ Removed => Head(todo).f = "remove"
           /\ Bypassing => Head(todo).f \in {"input", "remove"}
           /\ Relaying => Head(todo).f = "relay"
<1>1. \A n, s, o, list : todo = <<SetOp(n, o, list), Drop(s)>> => Head(todo) = SetOp(n, o, list)
  BY TwoLeft
<1>2. \A n, a, r, c, o, list :
        todo = <<Absorb(n, a, o, list), Drop(r), Drop(c)>> => Head(todo) = Absorb(n, a, o, list)
  BY ThreeLeft
<1>3. /\ \A n : todo = <<Drop(n)>> => Head(todo).f = "remove"
      /\ \A n, s : todo = <<Drop(n), Drop(s)>> => Head(todo).f = "remove"
  <2>1. \A n : todo = <<Drop(n)>> => Head(todo) = Drop(n)
    BY OneLeft
  <2>2. \A n, s : todo = <<Drop(n), Drop(s)>> => Head(todo) = Drop(n)
    BY TwoLeft
  <2> QED BY <2>1, <2>2, CallNames
<1>4. \A n : todo = <<Relay(n)>> => Head(todo) = Relay(n)
  BY OneLeft
<1>5. ASSUME NEW n, NEW from, NEW to, NEW k \in Nat, NEW q, BypassLeft(k, q, n, from, to)
      PROVE  Head(todo).f \in {"input", "remove"}
  <2>1. Head(todo) = todo[1]
    BY CallOf
  <2>2. CASE k = 0
    BY <1>5, <2>1, <2>2, CallNames DEF BypassLeft
  <2>3. CASE k # 0
    <3>1. todo[1] = SetInput(q[1], from, to)
      BY <1>5, <2>3 DEF BypassLeft
    <3> QED BY <2>1, <3>1, CallNames
  <2> QED BY <2>2, <2>3
<1>6. Fusing => Head(todo).f = "op"
  BY <1>1, CallNames DEF Fusing
<1>7. Joining => Head(todo).f = "absorb"
  BY <1>2, CallNames DEF Joining
<1>8. Separating \/ Removing \/ Removed => Head(todo).f = "remove"
  BY <1>3 DEF Separating, Removing, Removed
<1>9. Bypassing => Head(todo).f \in {"input", "remove"}
  BY <1>5 DEF Bypassing
<1>10. Relaying => Head(todo).f = "relay"
  BY <1>4, CallNames DEF Relaying
<1> QED BY <1>6, <1>7, <1>8, <1>9, <1>10

------------------------------------------------------------------------------
\* Nothing to replace any more.
LEMMA BypassEnds ==
    ASSUME TypesInv, todo # <<>>, Bypassing, Head(todo).f = "remove"
    PROVE  \E n \in live : todo = <<Drop(n)>> /\ CanRemove(n)
<1>1. PICK n \in live, from \in Value, to \in Value :
        \E k \in Nat : \E q \in [1 .. k -> users[from]] :
          /\ BypassLeft(k, q, n, from, to) /\ Bypassable(n, from, to)
          /\ IsInjective(q) /\ Range(q) = users[from]
  BY DEF Bypassing
<1>2. PICK k \in Nat : \E q \in [1 .. k -> users[from]] :
          /\ BypassLeft(k, q, n, from, to) /\ Bypassable(n, from, to)
          /\ IsInjective(q) /\ Range(q) = users[from]
  BY <1>1
<1>3. PICK q \in [1 .. k -> users[from]] :
          /\ BypassLeft(k, q, n, from, to) /\ Bypassable(n, from, to)
          /\ IsInjective(q) /\ Range(q) = users[from]
  BY <1>2
<1>4. todo \in Seq(Call) /\ Len(todo) = k + 1 /\ todo[k + 1] = Drop(n) /\ Head(todo) = todo[1]
  BY <1>3, CallOf DEF BypassLeft
<1>5. k = 0
  <2>1. k >= 1 => Head(todo) = SetInput(q[1], from, to)
    BY <1>3, <1>4 DEF BypassLeft
  <2> QED BY <2>1, CallNames
<1>6. todo = <<Drop(n)>>
  <2>1. PICK d : d = Drop(n)
    OBVIOUS
  <2>2. Len(todo) = 1 /\ todo[1] = d
    BY <1>4, <1>5, <2>1
  <2>3. todo = <<d>>
    BY <1>4, <2>2, OneElement
  <2> QED BY <2>1, <2>3
<1>7. users[from] = {}
  <2>1. DOMAIN q = {}
    BY <1>5
  <2> QED BY <1>3, <2>1 DEF Range
<1>8. Range(outs[n]) = {from} /\ ~IsGraphOutputValue(from)
  BY <1>3, RangeOfOne DEF Bypassable
<1> QED BY <1>6, <1>7, <1>8 DEF CanRemove, HasUsers

\* A removal that comes to its turn.
LEMMA RemoveTurns ==
    ASSUME TypesInv, Steady, DoRemove
    PROVE  \/ \E n \in live : todo = <<Drop(n)>> /\ (CanRemove(n) \/ Excused)
           \/ Separating
<1>1. todo # <<>> /\ Head(todo).f = "remove"
  BY DEF DoRemove, Calls
<1>2. Passes[pass] \in PassNames /\ CallsSucceed
  BY <1>1, CallOf DEF Steady
<1>3. ~Fusing /\ ~Joining /\ ~Relaying
  BY <1>1, FirstCalls
<1>4. CASE Passes[pass] \in {"SigmoidMul", "MatMulAdd"}
  BY <1>1, <1>2, <1>3, <1>4 DEF CallsSucceed, Removing
<1>5. CASE Passes[pass] = "QwenDepthwiseConv"
  BY <1>1, <1>2, <1>3, <1>5 DEF CallsSucceed, Removing
<1>6. CASE Passes[pass] \in {"Identity", "ReshapeChain", "NoOp"}
  BY <1>1, <1>2, <1>6, BypassEnds DEF CallsSucceed
<1>7. CASE Passes[pass] = "DeadNode"
  BY <1>1, <1>2, <1>7 DEF CallsSucceed, Removed, IsDead, CanRemove
<1>8. CASE Passes[pass] = "StateOutputAlias"
  BY <1>1, <1>2, <1>3, <1>8 DEF CallsSucceed
<1> QED BY <1>2, <1>4, <1>5, <1>6, <1>7, <1>8 DEF PassNames

\* Two removals are of one pass.
LEMMA SeparatingPass ==
    ASSUME TypesInv, Steady, Separating PROVE Passes[pass] = "QwenDepthwiseConv"
<1>1. PICK r \in live, c \in live : todo = <<Drop(r), Drop(c)>>
  BY DEF Separating
<1>2. todo # <<>> /\ Len(todo) = 2 /\ Head(todo) = Drop(r) /\ todo[1] = Drop(r)
  BY <1>1, TwoLeft
<1>3. Head(todo).f = "remove"
  BY <1>2, CallNames
<1>4. Passes[pass] \in PassNames /\ CallsSucceed
  BY <1>2, CallOf DEF Steady
<1>5. ~Fusing /\ ~Relaying
  BY <1>2, <1>3, FirstCalls
<1>6. ~Removing /\ ~Removed
  <2> SUFFICES ASSUME NEW x, todo = <<x>> PROVE FALSE
    BY DEF Removing, Removed
  <2> QED BY <1>2, OneLeft
<1>7. ~Bypassing
  <2>1. ASSUME Bypassing PROVE \E n \in live : todo = <<Drop(n)>>
    BY <1>2, <1>3, <2>1, BypassEnds
  <2>2. \A x : todo # <<x>>
    BY <1>2, OneLeft
  <2> QED BY <2>1, <2>2
<1> QED BY <1>2, <1>4, <1>5, <1>6, <1>7 DEF CallsSucceed, PassNames

\* The call tells the stage, and the stage the pass.
LEMMA StageOf ==
    ASSUME TypesInv, Steady, todo # <<>>
    PROVE  /\ Head(todo).f = "op" => Fusing /\ Passes[pass] \in {"SigmoidMul", "MatMulAdd"}
           /\ Head(todo).f = "absorb" => Joining /\ Passes[pass] = "QwenDepthwiseConv"
           /\ Head(todo).f = "input" =>
                Bypassing /\ Passes[pass] \in {"Identity", "ReshapeChain", "NoOp"}
           /\ Head(todo).f = "relay" => Relaying /\ Passes[pass] = "StateOutputAlias"
<1>1. Passes[pass] \in PassNames /\ CallsSucceed
  BY CallOf DEF Steady
<1> QED BY <1>1, FirstCalls DEF CallsSucceed, PassNames

\* A node that retires takes users away and gives none.
LEMMA FewerUsers ==
    ASSUME GraphTypeOK, NEW n \in Node, NEW dropped, Retire(n, Unregister(users, n, ins[n]), dropped),
           outs' = outs, NEW m \in live', HasUsers(m)'
    PROVE  HasUsers(m)
<1>1. m \in live /\ live \subseteq Node
  BY DEF Retire, GraphTypeOK
<1>2. PICK v \in Range(outs[m]) : users'[v] # {}
  BY DEF HasUsers
<1>3. v \in Value
  BY <1>1, <1>2, RangeTypes
<1>4. users'[v] \subseteq users[v]
  BY <1>3 DEF Retire, Unregister
<1> QED BY <1>2, <1>4 DEF HasUsers

LEMMA RemoveSteady ==
    ASSUME TypeOK, Steady, NoAliasYet, Agree', NEW n \in Node, RemoveNode(n),
           UNCHANGED <<attr, pass, work>>
    PROVE  ~torn' /\ Sound' /\ Plain' /\ WorkMatches' /\ NoAliasYet'
<1>1. /\ live' \subseteq live /\ UNCHANGED <<op, ins, outs, alias, dims, outputs, torn>>
      /\ Retire(n, Unregister(users, n, ins[n]), Range(outs[n]))
  BY DEF RemoveNode, Retire
<1>2. Sound'
  BY RemoveSound DEF Steady
<1>3. Plain'
  <2>1. n \in live /\ ~HasUsers(n) /\ live' = live \ {n}
    BY DEF RemoveNode, CanRemove, Retire
  <2> QED BY <1>1, <2>1, PlainWithout DEF Steady, Sound
<1>4. \A m \in live' : HasUsers(m)' => HasUsers(m)
  BY <1>1, FewerUsers, TypeParts
<1>5. WorkMatches'
  BY <1>1, <1>4, SameAliases, MatchesKept DEF Steady
<1>6. NoAliasYet'
  BY <1>1, SameAliases DEF NoAliasYet
<1> QED BY <1>1, <1>2, <1>3, <1>5, <1>6 DEF Steady

LEMMA StillSteady ==
    ASSUME Steady, NoAliasYet, UNCHANGED <<graphVars, attr, pass, work>>
    PROVE  ~torn' /\ Sound' /\ Plain' /\ WorkMatches' /\ NoAliasYet'
<1>1. UNCHANGED <<alias, outputs, torn>>
  BY StillParts
<1> QED BY <1>1, StillSound, StillMatches, SameAliases DEF Steady, NoAliasYet

\* The reshape and the concatenation of a convolution go, in this order.
LEMMA SeparatingTurns ==
    ASSUME TypeOK, Steady, NEW r \in live, NEW c \in live, Separating, todo = <<Drop(r), Drop(c)>>
    PROVE  \E n \in live, j, w \in Value :
        /\ r # c /\ n # r
        /\ op[n] = "QwenDepthwiseConvState" /\ op[r] = "Reshape" /\ op[c] = "Concat"
        /\ outs[c] = <<j>> /\ outs[r] = <<w>> /\ users[w] = {} /\ users[j] = {r}
<1>1. PICK n \in live, q \in live, e \in live, j \in Value, w \in Value :
        /\ todo = <<Drop(q), Drop(e)>> /\ q # e
        /\ op[n] = "QwenDepthwiseConvState" /\ op[q] = "Reshape" /\ op[e] = "Concat"
        /\ outs[e] = <<j>> /\ outs[q] = <<w>> /\ users[w] = {} /\ users[j] = {q}
  BY DEF Separating
<1>2. q = r /\ e = c
  <2>1. \A x, y, z, u : <<x, y>> = <<z, u>> => x = z /\ y = u
    OBVIOUS
  <2>2. Drop(q) = Drop(r) /\ Drop(e) = Drop(c)
    BY <1>1, <2>1
  <2> QED BY <2>2, CallNames
<1>3. n # r
  BY <1>1, <1>2
<1> QED BY <1>1, <1>2, <1>3

LEMMA RemoveCall ==
    ASSUME TypesInv, TypesInv', NoAliasYet, Steady, Rewrites, DoRemove
    PROVE  /\ NoAliasYet'
           /\ (status' = "running" /\ Steady') \/ (status' = "refused" /\ Excused')
<1>1. TypeOK /\ TypeOK' /\ Sound /\ ~torn /\ UNCHANGED <<attr, pass, work>> /\ status = "running"
  BY CallsLeave DEF TypesInv, Steady, DoRemove, Calls
<1>2. ~torn' /\ Agree'
  <2>1. ~torn'
    BY <1>1 DEF DoRemove, RemoveNode, graphVars
  <2> QED BY <1>1, <2>1, AgreesAfter DEF Sound
<1>3. ASSUME NEW n \in live, Head(todo) = Drop(n)
      PROVE  \/ RemoveNode(n) /\ Returned
             \/ /\ ~CanRemove(n) /\ UNCHANGED graphVars
                /\ \/ Passes[pass] = "DeadNode" /\ Returned
                   \/ Refused
  BY <1>3, CallNames DEF DoRemove
<1>4. ASSUME todo' = <<>> PROVE CallsSucceed'
  BY <1>4 DEF CallsSucceed
<1>5. ASSUME NEW n \in live, todo = <<Drop(n)>>, CanRemove(n) \/ Excused
      PROVE  /\ NoAliasYet'
             /\ (status' = "running" /\ Steady') \/ (status' = "refused" /\ Excused')
  <2>1. Head(todo) = Drop(n) /\ Tail(todo) = <<>>
    BY <1>5, OneLeft
  <2>2. CASE RemoveNode(n) /\ Returned
    <3>1. ~torn' /\ Sound' /\ Plain' /\ WorkMatches' /\ NoAliasYet'
      BY <1>1, <1>2, <2>2, RemoveSteady, TypeParts
    <3>2. CallsSucceed' /\ status' = "running"
      BY <1>1, <1>4, <2>1, <2>2 DEF Returned
    <3> QED BY <3>1, <3>2 DEF Steady
  <2>3. CASE UNCHANGED graphVars /\ Returned
    <3>1. ~torn' /\ Sound' /\ Plain' /\ WorkMatches' /\ NoAliasYet'
      BY <1>1, <2>3, StillSteady
    <3>2. CallsSucceed' /\ status' = "running"
      BY <1>1, <1>4, <2>1, <2>3 DEF Returned
    <3> QED BY <3>1, <3>2 DEF Steady
  <2>4. CASE ~CanRemove(n) /\ UNCHANGED graphVars /\ Refused
    <3>1. Excused' /\ status' = "refused"
      BY <1>1, <1>5, <2>4, StillReasons DEF Refused, Fails
    <3>2. NoAliasYet'
      BY <1>1, <2>4, StillSteady
    <3> QED BY <3>1, <3>2
  <2> QED BY <1>3, <2>1, <2>2, <2>3, <2>4
<1>6. CASE Separating
  <2>1. PICK r \in live, c \in live : todo = <<Drop(r), Drop(c)>>
    BY <1>6 DEF Separating
  <2>2. Head(todo) = Drop(r) /\ Tail(todo) = <<Drop(c)>>
    BY <2>1, TwoLeft
  <2>3. PICK n \in live, j \in Value, w \in Value :
        /\ r # c /\ n # r
        /\ op[n] = "QwenDepthwiseConvState" /\ op[r] = "Reshape" /\ op[c] = "Concat"
        /\ outs[c] = <<j>> /\ outs[r] = <<w>> /\ users[w] = {} /\ users[j] = {r}
    BY <1>1, <1>6, <2>1, SeparatingTurns
  <2>4. Range(outs[r]) = {w} /\ Range(outs[c]) = {j}
    BY <2>3, RangeOfOne
  <2>5. Passes[pass] = "QwenDepthwiseConv"
    BY <1>6, SeparatingPass
  <2>6. CASE RemoveNode(r) /\ Returned
    <3>1. ~torn' /\ Sound' /\ Plain' /\ WorkMatches' /\ NoAliasYet'
      BY <1>1, <1>2, <2>6, RemoveSteady, TypeParts
    <3>2. status' = "running" /\ todo' = <<Drop(c)>>
      BY <1>1, <2>2, <2>6 DEF Returned
    <3>3. /\ live' = live \ {r} /\ UNCHANGED <<op, ins, outs, alias, outputs>>
          /\ users'[j] \subseteq users[j] \ {r}
      <4>1. j \in Range(ins[r])
        BY <1>1, <2>3, IndexFacts, TypeParts DEF Sound
      <4>2. users'[j] \subseteq users[j] \ {r}
        BY <2>3, <2>6, <4>1 DEF RemoveNode, Retire, Unregister
      <4> QED BY <2>6, <4>2 DEF RemoveNode, Retire
    <3>4. c \in live' /\ n \in live' /\ users'[j] = {}
      BY <2>3, <3>3
    <3>5. CanRemove(c)' \/ Excused'
      <4>1. CASE IsGraphOutputValue(j)'
        <5>1. \A v \in Range(outs'[c]) : IsGraphOutputValue(v)'
          BY <2>4, <3>3, <4>1
        <5>2. PublicInside(n)'
          BY <2>3, <3>3, <3>4, <5>1 DEF PublicInside
        <5> QED BY <3>4, <5>2 DEF Excused
      <4>2. CASE ~IsGraphOutputValue(j)'
        BY <2>4, <3>3, <3>4, <4>2 DEF CanRemove, HasUsers
      <4> QED BY <4>1, <4>2
    <3>6. Removing'
      BY <3>2, <3>4, <3>5 DEF Removing
    <3>7. CallsSucceed'
      BY <1>1, <2>5, <3>6 DEF CallsSucceed
    <3> QED BY <3>1, <3>2, <3>7 DEF Steady
  <2>7. CASE ~CanRemove(r) /\ UNCHANGED graphVars /\ Refused
    <3>1. ~HasUsers(r)
      BY <2>3, <2>4 DEF HasUsers
    <3>2. \A v \in Range(outs[r]) : IsGraphOutputValue(v)
      BY <2>4, <2>7, <3>1 DEF CanRemove
    <3>3. Excused
      BY <2>3, <3>2 DEF Excused, PublicInside
    <3>4. Excused' /\ status' = "refused" /\ NoAliasYet'
      BY <1>1, <2>7, <3>3, StillReasons, StillSteady DEF Refused, Fails
    <3> QED BY <3>4
  <2> QED BY <1>3, <2>2, <2>5, <2>6, <2>7
<1> QED BY <1>5, <1>6, RemoveTurns

LEMMA RelayCall ==
    ASSUME TypesInv, TypesInv', NoAliasYet, Steady, Rewrites, DoRelay
    PROVE  NoAliasYet' /\ status' = "running" /\ Steady'
<1>1. /\ TypeOK /\ TypeOK' /\ Sound /\ ~torn /\ UNCHANGED <<attr, pass, work>> /\ status = "running"
      /\ todo # <<>> /\ Head(todo).f = "relay"
  BY CallsLeave DEF TypesInv, Steady, DoRelay, Calls
<1>2. Relaying /\ Passes[pass] = "StateOutputAlias" /\ pass \in Int /\ pass >= 1
  BY <1>1, StageOf, CallOf
<1>3. PICK n \in live : todo = <<Relay(n)>> /\ CanAlias(n)
  BY <1>2 DEF Relaying
<1>4. Head(todo) = Relay(n) /\ Tail(todo) = <<>>
  BY <1>3, OneLeft
<1>5. RemoveNodeWithOutputAlias(n) /\ Returned
  BY <1>3, <1>4, CallNames DEF DoRelay
<1>6. ~torn' /\ Agree'
  <2>1. ~torn'
    BY <1>1, <1>5 DEF RemoveNodeWithOutputAlias
  <2> QED BY <1>1, <2>1, AgreesAfter DEF Sound
<1>7. Sound'
  BY <1>1, <1>5, <1>6, RelaySound, TypeParts
<1>8. live' \subseteq live /\ UNCHANGED <<op, ins, outs, dims, outputs>>
  BY <1>5 DEF RemoveNodeWithOutputAlias, Retire
<1>9. Plain'
  <2>1. ~HasUsers(n) /\ live' = live \ {n}
    BY <1>5 DEF RemoveNodeWithOutputAlias, CanAlias, Retire
  <2> QED BY <1>1, <1>8, <2>1, PlainWithout DEF Steady, Sound
<1>10. \A m \in live' : HasUsers(m)' => HasUsers(m)
  BY <1>1, <1>5, <1>8, FewerUsers, TypeParts DEF RemoveNodeWithOutputAlias
<1>11. WorkMatches'
  BY <1>1, <1>2, <1>8, <1>10, MatchesKept DEF Steady
<1>12. NoAliasYet'
  <2>1. pass \in 1 .. pass' /\ pass' = pass
    BY <1>1, <1>2
  <2> QED BY <1>2, <2>1 DEF NoAliasYet
<1>13. CallsSucceed' /\ status' = "running"
  BY <1>1, <1>4, <1>5 DEF Returned, CallsSucceed
<1> QED BY <1>6, <1>7, <1>9, <1>11, <1>12, <1>13 DEF Steady

\* A rewrite that stops for the data types.
Stops == status' \in {"no kernel", "metadata"} /\ UNCHANGED <<alias, outputs>>

LEMMA CallParts ==
    ASSUME NEW n, NEW o, NEW list, NEW from, NEW to, NEW a
    PROVE  /\ SetOp(n, o, list).n = n /\ SetOp(n, o, list).o = o /\ SetOp(n, o, list).list = list
           /\ SetInput(n, from, to).n = n /\ SetInput(n, from, to).from = from
           /\ SetInput(n, from, to).to = to
           /\ Absorb(n, a, o, list).n = n /\ Absorb(n, a, o, list).a = a
           /\ Absorb(n, a, o, list).o = o /\ Absorb(n, a, o, list).list = list
BY DEF SetOp, SetInput, Absorb

\* A pass whose candidates are matched when they are visited.
LEMMA NothingToMatch ==
    ASSUME pass' = pass, Passes[pass] \in {"SigmoidMul", "MatMulAdd", "QwenDepthwiseConv"}
    PROVE  WorkMatches'
BY DEF WorkMatches

LEMMA FusingCall ==
    ASSUME TypesInv, Steady, DoSetOp
    PROVE  \/ Stops
           \/ \E n, s \in live, o \in Op, list \in Seq(Value), t \in Value :
                /\ todo' = <<Drop(s)>> /\ Fusable(n, s, o, list, t) /\ status' = "running"
                /\ ReplaceNodeDesc(n, o, list, Range(outs[n]), Assign(outs[n], DimsOf(outs[n])))
<1>1. todo # <<>> /\ Head(todo).f = "op" /\ status = "running"
  BY DEF DoSetOp, Calls
<1>2. PICK n \in live, s \in live, o \in Op, list \in Seq(Value), t \in Value :
        todo = <<SetOp(n, o, list), Drop(s)>> /\ Fusable(n, s, o, list, t)
  BY <1>1, StageOf DEF Fusing
<1>3. PICK c : c = Head(todo) /\ c = SetOp(n, o, list) /\ Tail(todo) = <<Drop(s)>>
  BY <1>2, TwoLeft
<1>4. c.n = n /\ c.o = o /\ c.list = list
  BY <1>3, CallParts
<1>5. Creatable(o, attr[n], DimsOf(list), Len(outs[n])) /\ Infer(o, attr[n], DimsOf(list)) = DimsOf(outs[n])
  BY <1>2 DEF Fusable, Fits
<1>6. PICK d : d = Infer(o, attr[n], DimsOf(list)) /\ d = DimsOf(outs[n])
  BY <1>5
<1>7. PICK e : e = Assign(outs[n], d)
  OBVIOUS
<1>8. \/ ReplaceNodeDesc(n, o, list, Range(outs[n]), e) /\ Returned
      \/ \E f : CreateFails(f) /\ Fails("no kernel")
      \/ \E taken, f : ReplaceNodeDesc(n, o, list, taken, f) /\ Fails("metadata")
  BY <1>3, <1>4, <1>5, <1>6, <1>7 DEF DoSetOp
<1>9. CASE ReplaceNodeDesc(n, o, list, Range(outs[n]), e) /\ Returned
  <2>1. ReplaceNodeDesc(n, o, list, Range(outs[n]), Assign(outs[n], DimsOf(outs[n])))
    BY <1>6, <1>7, <1>9
  <2>2. todo' = <<Drop(s)>> /\ status' = "running"
    BY <1>1, <1>3, <1>9 DEF Returned
  <2> QED BY <1>2, <2>1, <2>2
<1>10. CASE \E f : CreateFails(f) /\ Fails("no kernel")
  BY <1>10 DEF CreateFails, Fails, Stops
<1>11. CASE \E taken, f : ReplaceNodeDesc(n, o, list, taken, f) /\ Fails("metadata")
  BY <1>11 DEF ReplaceNodeDesc, Fails, Stops
<1> QED BY <1>8, <1>9, <1>10, <1>11

\* A node made to fit is as it was created.
LEMMA FitsIsSized ==
    ASSUME NEW n, NEW o, NEW a, NEW list, NEW made, Fits(o, a, list, made), dims' = dims,
           op'[n] = o, attr'[n] = a, ins'[n] = list, outs'[n] = made
    PROVE  Sized(n)'
<1>1. DimsOf(ins[n])' = DimsOf(list) /\ DimsOf(outs[n])' = DimsOf(made)
  BY DEF DimsOf
<1>2. PICK d, e : d = DimsOf(list) /\ e = DimsOf(made)
  OBVIOUS
<1>3. Creatable(o, a, d, Len(made)) /\ Infer(o, a, d) = e
  BY <1>2 DEF Fits
<1>4. Creatable(op'[n], attr'[n], DimsOf(ins[n])', Len(outs'[n]))
  BY <1>1, <1>2, <1>3
<1>5. Infer(op'[n], attr'[n], DimsOf(ins[n])') = DimsOf(outs[n])'
  BY <1>1, <1>2, <1>3
<1> QED BY <1>4, <1>5 DEF Sized, Creatable

LEMMA SetOpDone ==
    ASSUME TypesInv, TypesInv', NoAliasYet, Steady, Rewrites, DoSetOp,
           NEW n \in live, NEW s \in live, NEW o \in Op, NEW list \in Seq(Value), NEW t \in Value,
           todo' = <<Drop(s)>>, Fusable(n, s, o, list, t), status' = "running",
           ReplaceNodeDesc(n, o, list, Range(outs[n]), Assign(outs[n], DimsOf(outs[n])))
    PROVE  NoAliasYet' /\ status' = "running" /\ Steady'
<1>1. /\ TypeOK /\ TypeOK' /\ Sound /\ ~torn /\ UNCHANGED <<attr, pass, work>>
      /\ todo # <<>> /\ Head(todo).f = "op"
  BY CallsLeave DEF TypesInv, Steady, DoSetOp, Calls
<1>2. Passes[pass] \in {"SigmoidMul", "MatMulAdd"}
  BY <1>1, StageOf
<1>3. /\ todo' = <<Drop(s)>> /\ Fusable(n, s, o, list, t) /\ status' = "running"
      /\ ReplaceNodeDesc(n, o, list, Range(outs[n]), Assign(outs[n], DimsOf(outs[n])))
  OBVIOUS
<1>4. n \in Node /\ s \in Node /\ outs[n] \in Seq(Value) /\ dims \in [Value -> KnownDims]
  BY <1>1, TypeParts
<1>5. /\ UNCHANGED <<live, outs, alias, outputs, torn>> /\ dims' = dims
      /\ op' = [op EXCEPT ![n] = o] /\ ins' = [ins EXCEPT ![n] = list]
  <2>1. dims' = Inferred(Assign(outs[n], DimsOf(outs[n])))
    BY <1>3 DEF ReplaceNodeDesc
  <2>2. dims' = dims
    BY <1>4, <2>1, DimsStay
  <2> QED BY <1>3, <2>2 DEF ReplaceNodeDesc
<1>6. op'[n] = o /\ ins'[n] = list /\ \A k \in live : k # n => ins'[k] = ins[k] /\ op'[k] = op[k]
  BY <1>1, <1>4, <1>5, TypeParts
<1>7. /\ n # s /\ o \in {"SiLU", "Gemm"} /\ Fits(o, attr[n], list, outs[n])
      /\ Range(list) \subseteq Range(ins[n]) \cup Range(ins[s])
      /\ outs[s] = <<t>> /\ users[t] = {n} /\ ~IsGraphOutputValue(t)
      /\ \/ t \notin Range(list)
         \/ o = "Gemm" /\ op[s] = "MatMul" /\ Len(ins[s]) = 2 /\ list = Append(ins[s], t)
  BY <1>3 DEF Fusable
<1>8. Range(outs[s]) = {t} /\ t \in Range(ins[n])
  BY <1>1, <1>4, <1>7, RangeOfOne, IndexFacts DEF Sound
<1>9. ~torn' /\ Agree'
  BY <1>1, <1>5, AgreesAfter DEF Sound
<1>10. Sized(n)'
  BY <1>1, <1>5, <1>6, <1>7, FitsIsSized
<1>11. Sound'
  <2>1. Range(ins'[n]) \subseteq Range(ins[n]) \cup Range(ins[s]) /\ Range(ins[n]) \cap Range(outs[s]) # {}
    BY <1>6, <1>7, <1>8
  <2> QED BY <1>1, <1>5, <1>6, <1>9, <1>10, <2>1, RewireSound
<1>12. Plain'
  <2>1. Range(ins'[n]) \subseteq Range(ins[n]) \cup Range(ins[s]) /\ Range(ins[n]) \cap Range(outs[s]) # {}
    BY <1>6, <1>7, <1>8
  <2>2. op'[n] \in {"SiLU", "Gemm"} /\ op'[n] # "Conv"
    BY <1>6, <1>7
  <2>3. TypeOK /\ Agree /\ SourcesAreFree /\ Plain
    BY <1>1 DEF Steady, Sound
  <2> QED BY <1>1, <1>5, <1>6, <2>1, <2>2, <2>3, PlainRewired
<1>13. NoAliasYet'
  BY <1>1, <1>5, SameAliases DEF NoAliasYet
<1>14. CASE t \notin Range(list)
  <2>1. users'[t] = {}
    <3>1. \A m \in Node : m \in users'[t] => m \in live /\ t \in Range(ins'[m])
      BY <1>1, <1>5, <1>9, AgreeByMember DEF TypeOK, Agree, UsersOf
    <3>2. \A m \in Node : m \in users[t] <=> m \in live /\ t \in Range(ins[m])
      BY <1>1, IndexFacts DEF Sound
    <3>3. users'[t] \subseteq Node
      BY <1>1 DEF TypeOK, GraphTypeOK
    <3> QED BY <1>6, <1>7, <1>14, <3>1, <3>2, <3>3
  <2>2. CanRemove(s)'
    <3>1. ~IsGraphOutputValue(t)'
      BY <1>5, <1>7, SameAliases
    <3>2. Range(outs'[s]) = {t} /\ s \in live'
      BY <1>5, <1>8
    <3> QED BY <2>1, <3>1, <3>2 DEF CanRemove, HasUsers
  <2>3. Removing'
    BY <1>3, <1>5, <2>2 DEF Removing
  <2> QED BY <1>1, <1>2, <1>3, <1>9, <1>11, <1>12, <1>13, <2>3, NothingToMatch DEF Steady, CallsSucceed
<1>15. CASE o = "Gemm" /\ op[s] = "MatMul" /\ Len(ins[s]) = 2 /\ list = Append(ins[s], t)
  <2>1. ins'[n][3] = t
    <3>1. ins[s] \in Seq(Value)
      BY <1>1, TypeParts
    <3>2. Append(ins[s], t)[3] = t
      BY <1>15, <3>1
    <3> QED BY <1>6, <1>15, <3>2
  <2>2. producer'[t] = s
    <3>1. t \in Range(outs'[s])
      BY <1>5, <1>8
    <3>2. s \in ProducersOf(t)'
      BY <1>5, <3>1 DEF ProducersOf
    <3> QED BY <1>4, <1>9, <3>2 DEF Agree
  <2>3. outs'[s][1] = t /\ ins'[s] = ins[s] /\ op'[s] = op[s] /\ s \in live'
    BY <1>5, <1>6, <1>7, FirstOf
  <2>4. FusedWithItself(n)'
    BY <1>6, <1>15, <2>1, <2>2, <2>3 DEF FusedWithItself
  <2>5. Excused'
    BY <1>5, <2>4 DEF Excused
  <2>6. Removing'
    BY <1>3, <1>5, <2>5 DEF Removing
  <2> QED BY <1>1, <1>2, <1>3, <1>9, <1>11, <1>12, <1>13, <2>6, NothingToMatch DEF Steady, CallsSucceed
<1> QED BY <1>7, <1>14, <1>15

LEMMA StopsQuietly == ASSUME NoAliasYet, UNCHANGED pass, Stops PROVE NoAliasYet'
BY SameAliases DEF Stops, NoAliasYet

LEMMA SetOpCall ==
    ASSUME TypesInv, TypesInv', NoAliasYet, Steady, Rewrites, DoSetOp
    PROVE  NoAliasYet' /\ ((status' = "running" /\ Steady') \/ Stops)
<1>1. CASE Stops
  BY <1>1, CallsLeave, StopsQuietly
<1>2. CASE ~Stops
  <2>1. PICK n \in live, s \in live, o \in Op, list \in Seq(Value), t \in Value :
             /\ todo' = <<Drop(s)>> /\ Fusable(n, s, o, list, t) /\ status' = "running"
             /\ ReplaceNodeDesc(n, o, list, Range(outs[n]), Assign(outs[n], DimsOf(outs[n])))
    BY <1>2, FusingCall
  <2> QED BY <2>1, SetOpDone
<1> QED BY <1>1, <1>2

LEMMA ConvStateFits ==
    ASSUME NEW a, NEW list, NEW made, Fits("QwenDepthwiseConvState", <<>>, list, made)
    PROVE  Fits("QwenDepthwiseConvState", a, list, made)
<1>1. PICK d : d = DimsOf(list)
  OBVIOUS
<1>2. Infer("QwenDepthwiseConvState", a, d) = Infer("QwenDepthwiseConvState", <<>>, d)
  BY DEF Infer
<1> QED BY <1>1, <1>2 DEF Fits, Creatable

LEMMA JoiningCall ==
    ASSUME TypesInv, Steady, DoAbsorb
    PROVE  \E n, a, r, c \in live, list \in Seq(Value), j, w, x \in Value :
             /\ Joinable(n, a, r, c, list, j, w, x)
             /\ \/ /\ ReplaceNodeDescAndAbsorbNode(n, a, "QwenDepthwiseConvState", list,
                          Assign(outs[n] \o outs[a], DimsOf(outs[n] \o outs[a])))
                   /\ todo' = <<Drop(r), Drop(c)>> /\ status' = "running"
                \/ Stops
<1>1. todo # <<>> /\ Head(todo).f = "absorb" /\ status = "running" /\ TypeOK /\ Agree
  BY DEF DoAbsorb, Calls, TypesInv, Steady, Sound
<1>2. PICK n \in live, a \in live, r \in live, c \in live, list \in Seq(Value),
           j \in Value, w \in Value, x \in Value :
        /\ todo = <<Absorb(n, a, "QwenDepthwiseConvState", list), Drop(r), Drop(c)>>
        /\ Joinable(n, a, r, c, list, j, w, x)
  BY <1>1, StageOf DEF Joining
<1>3. PICK h : h = Head(todo) /\ h = Absorb(n, a, "QwenDepthwiseConvState", list)
               /\ Tail(todo) = <<Drop(r), Drop(c)>>
  BY <1>2, ThreeLeft
<1>4. h.n = n /\ h.a = a /\ h.o = "QwenDepthwiseConvState" /\ h.list = list
  BY <1>3, CallParts
<1>5. PICK all : all = outs[n] \o outs[a]
  OBVIOUS
<1>6. PICK d : d = Infer("QwenDepthwiseConvState", <<>>, DimsOf(list)) /\ d = DimsOf(all)
  BY <1>2, <1>5 DEF Joinable
<1>7. CASE /\ ReplaceNodeDescAndAbsorbNode(n, a, "QwenDepthwiseConvState", list, Assign(all, d))
           /\ Returned
  <2>1. /\ ReplaceNodeDescAndAbsorbNode(n, a, "QwenDepthwiseConvState", list,
                          Assign(outs[n] \o outs[a], DimsOf(outs[n] \o outs[a])))
    BY <1>5, <1>6, <1>7
  <2>2. todo' = <<Drop(r), Drop(c)>> /\ status' = "running"
    BY <1>1, <1>3, <1>7 DEF Returned
  <2> QED BY <1>2, <2>1, <2>2
<1>8. CASE \/ \E f : CreateFails(f) /\ Fails("no kernel")
           \/ \E taken, f : /\ AbsorbHalf(n, a, "QwenDepthwiseConvState", list, taken, f)
                            /\ Fails("metadata")
  <2>1. Stops
    BY <1>8 DEF CreateFails, AbsorbHalf, Fails, Stops
  <2> QED BY <1>2, <2>1
<1>9. CanAbsorb(n, a)
  <2>1. n # a /\ outs[a] # <<>>
    BY <1>2 DEF Joinable
  <2>2. \A v \in Range(outs[a]) : v \in Value
    BY <1>1, TypeParts, RangeTypes
  <2>3. a \in Node
    BY <1>1, TypeParts
  <2> QED BY <1>1, <2>1, <2>2, <2>3, IndexFacts DEF CanAbsorb
<1>10. Creatable("QwenDepthwiseConvState", <<>>, DimsOf(list), Len(all))
  BY <1>2, <1>5 DEF Joinable
<1>11. /\ CanAbsorb(h.n, h.a) /\ Creatable(h.o, <<>>, DimsOf(h.list), Len(all))
       /\ all = outs[h.n] \o outs[h.a] /\ d = Infer(h.o, <<>>, DimsOf(h.list))
  BY <1>4, <1>5, <1>6, <1>9, <1>10
<1>12. \/ ReplaceNodeDescAndAbsorbNode(h.n, h.a, h.o, h.list, Assign(all, d)) /\ Returned
       \/ \E f : CreateFails(f) /\ Fails("no kernel")
       \/ \E taken, f : AbsorbHalf(h.n, h.a, h.o, h.list, taken, f) /\ Fails("metadata")
  BY <1>3, <1>11 DEF DoAbsorb
<1> QED BY <1>4, <1>7, <1>8, <1>12

\* What the three nodes are when n has taken over the outputs of a.
LEMMA AbsorbSeparates ==
    ASSUME TypeOK, TypeOK', Sound, Agree', Passes[pass] = "QwenDepthwiseConv",
           NEW n \in live, NEW a \in live, NEW r \in live, NEW c \in live,
           NEW list \in Seq(Value), NEW j \in Value, NEW w \in Value, NEW x \in Value,
           NEW W \in SUBSET live, Preparing(W),
           Joinable(n, a, r, c, list, j, w, x), live' = live \ {a},
           \A k \in live : k # n => ins'[k] = ins[k] /\ op'[k] = op[k] /\ outs'[k] = outs[k],
           ins'[n] = list, op'[n] = "QwenDepthwiseConvState", todo' = <<Drop(r), Drop(c)>>
    PROVE  Separating'
<1>1. /\ n \notin {a, r, c} /\ a \notin {r, c} /\ r # c
      /\ op[n] = "Conv" /\ op[r] = "Reshape" /\ op[c] = "Concat"
      /\ outs[c] = <<j>> /\ outs[r] = <<w>> /\ ins[a] = <<j>> /\ ins[n] = <<w, x>>
      /\ j \in Range(ins[r]) /\ users[w] = {n} /\ users[j] = {r, a}
      /\ list = Append(ins[c], x)
  BY DEF Joinable
<1>2. n \in live' /\ r \in live' /\ c \in live'
  BY <1>1
<1>3. /\ op'[r] = "Reshape" /\ op'[c] = "Concat" /\ outs'[c] = <<j>> /\ outs'[r] = <<w>>
      /\ ins'[r] = ins[r] /\ ins'[c] = ins[c]
  BY <1>1
<1>4. Range(outs[c]) = {j} /\ Range(outs[r]) = {w}
  BY <1>1, RangeOfOne
<1>5. Acyclic /\ SourcesAreFree /\ Agree /\ ins[c] \in Seq(Value)
  BY TypeParts DEF Sound
<1>6. x # j /\ x # w
  <2>1. x \in Prepared(W)
    <3>1. <<w, x>>[2] = x
      OBVIOUS
    <3> QED BY <1>1, <3>1 DEF Preparing
  <2>2. j \notin Prepared(W)
    <3>1. j \notin Source
      BY <1>4, <1>5, InMade DEF SourcesAreFree
    <3>2. ASSUME NEW k \in W, j \in Range(outs[k]) PROVE FALSE
      <4>1. k = c
        BY <1>4, <1>5, <3>2, MadeOnce
      <4> QED BY <1>1, <4>1 DEF Preparing
    <3> QED BY <3>1, <3>2, InPrepared
  <2>3. w \notin Prepared(W)
    <3>1. w \notin Source
      BY <1>4, <1>5, InMade DEF SourcesAreFree
    <3>2. ASSUME NEW k \in W, w \in Range(outs[k]) PROVE FALSE
      <4>1. k = r
        BY <1>4, <1>5, <3>2, MadeOnce
      <4>2. Range(ins[r]) \subseteq Prepared(W)
        BY <4>1 DEF Preparing
      <4> QED BY <1>1, <2>2, <4>2
    <3> QED BY <3>1, <3>2, InPrepared
  <2> QED BY <2>1, <2>2, <2>3
<1>7. j \notin Range(ins[c])
  BY <1>4, <1>5, NoLoop
<1>8. w \notin Range(ins[c])
  <2>1. Range(ins[r]) \cap Range(outs[c]) # {}
    BY <1>1, <1>4
  <2>2. Range(ins[c]) \cap Range(outs[r]) = {}
    BY <1>5, <2>1, NoPair
  <2> QED BY <1>4, <2>2
<1>9. Range(list) = Range(ins[c]) \cup {x}
  BY <1>1, <1>5, RangeOfAppend
<1>10. \A m \in Node : \A v \in Value :
         /\ m \in users'[v] <=> m \in live' /\ v \in Range(ins'[m])
         /\ m \in users[v] <=> m \in live /\ v \in Range(ins[m])
  <2>1. \A m \in Node : \A v \in Value : m \in users[v] <=> m \in live /\ v \in Range(ins[m])
    BY <1>5, IndexFacts
  <2>2. \A m \in Node : \A v \in Value : m \in users'[v] <=> m \in live' /\ v \in Range(ins'[m])
    BY AgreeByMember DEF TypeOK, Agree, UsersOf
  <2> QED BY <2>1, <2>2
<1>11. live \subseteq Node /\ users'[w] \subseteq Node /\ users'[j] \subseteq Node
  BY DEF TypeOK, GraphTypeOK
<1>12. users'[w] = {}
  <2>1. \A m \in Node : m \notin users'[w]
    <3>1. TAKE m \in Node
    <3>2. CASE m = n
      BY <1>6, <1>8, <1>9, <1>10, <3>2
    <3>3. CASE m # n
      BY <1>1, <1>10, <3>3
    <3> QED BY <3>2, <3>3
  <2> QED BY <1>11, <2>1
<1>13. users'[j] = {r}
  <2>1. \A m \in Node : m \in users'[j] <=> m = r
    <3>1. TAKE m \in Node
    <3>2. CASE m = n
      BY <1>1, <1>6, <1>7, <1>9, <1>10, <3>2
    <3>3. CASE m # n
      BY <1>1, <1>2, <1>3, <1>10, <3>3
    <3> QED BY <3>2, <3>3
  <2> QED BY <1>11, <2>1
<1> QED BY <1>1, <1>2, <1>3, <1>12, <1>13 DEF Separating

LEMMA AbsorbCall ==
    ASSUME TypesInv, TypesInv', NoAliasYet, Steady, Rewrites, DoAbsorb
    PROVE  NoAliasYet' /\ ((status' = "running" /\ Steady') \/ Stops)
<1>1. /\ TypeOK /\ TypeOK' /\ Sound /\ Plain /\ ~torn /\ UNCHANGED <<attr, pass, work>>
      /\ todo # <<>> /\ Head(todo).f = "absorb"
  BY CallsLeave DEF TypesInv, Steady, DoAbsorb, Calls
<1>2. Passes[pass] = "QwenDepthwiseConv"
  BY <1>1, StageOf
<1>3. PICK n \in live, a \in live, r \in live, c \in live, list \in Seq(Value),
           j \in Value, w \in Value, x \in Value :
             /\ Joinable(n, a, r, c, list, j, w, x)
             /\ \/ /\ ReplaceNodeDescAndAbsorbNode(n, a, "QwenDepthwiseConvState", list,
                          Assign(outs[n] \o outs[a], DimsOf(outs[n] \o outs[a])))
                   /\ todo' = <<Drop(r), Drop(c)>> /\ status' = "running"
                \/ Stops
  BY JoiningCall
<1>4. UNCHANGED <<alias, outputs>>
  BY <1>3 DEF ReplaceNodeDescAndAbsorbNode, Stops
<1>5. NoAliasYet'
  BY <1>1, <1>4, SameAliases DEF NoAliasYet
<1>6. CASE Stops
  BY <1>5, <1>6
<1>7. PICK W \in SUBSET live : Preparing(W)
  BY <1>1 DEF Plain
<1>8. CASE /\ ReplaceNodeDescAndAbsorbNode(n, a, "QwenDepthwiseConvState", list,
                     Assign(outs[n] \o outs[a], DimsOf(outs[n] \o outs[a])))
           /\ todo' = <<Drop(r), Drop(c)>> /\ status' = "running"
  <2>1. PICK all : all = outs[n] \o outs[a]
    OBVIOUS
  <2>2. /\ n \in Node /\ a \in Node /\ all \in Seq(Value) /\ dims \in [Value -> KnownDims]
    BY <1>1, <2>1, TypeParts
  <2>3. /\ op' = [op EXCEPT ![n] = "QwenDepthwiseConvState"] /\ ins' = [ins EXCEPT ![n] = list]
        /\ outs' = [outs EXCEPT ![n] = all] /\ live' = live \ {a} /\ torn' = torn
        /\ dims' = Inferred(Assign(all, DimsOf(all)))
    BY <1>8, <2>1 DEF ReplaceNodeDescAndAbsorbNode, TakeOver
  <2>4. dims' = dims
    BY <2>2, <2>3, DimsStay
  <2>5. /\ op'[n] = "QwenDepthwiseConvState" /\ ins'[n] = list /\ outs'[n] = all
        /\ \A k \in live : k # n => ins'[k] = ins[k] /\ op'[k] = op[k] /\ outs'[k] = outs[k]
    BY <1>1, <2>2, <2>3, TypeParts
  <2>6. ~torn' /\ Agree'
    <3>1. ~torn'
      BY <1>1, <2>3
    <3> QED BY <1>1, <3>1, AgreesAfter DEF Sound
  <2>7. /\ n \notin {a, r, c} /\ outs[c] = <<j>> /\ outs[r] = <<w>> /\ ins[a] = <<j>>
        /\ op[n] = "Conv" /\ op[a] = "Split" /\ ins[n] = <<w, x>> /\ j \in Range(ins[r]) /\ list = Append(ins[c], x)
        /\ Creatable("QwenDepthwiseConvState", <<>>, DimsOf(list), Len(all))
        /\ Infer("QwenDepthwiseConvState", <<>>, DimsOf(list)) = DimsOf(all)
    BY <1>3, <2>1 DEF Joinable
  <2>8. n \notin W /\ a \notin W
    BY <1>7, <2>7 DEF Preparing
  <2>9. Sized(n)'
    <3>1. Fits("QwenDepthwiseConvState", attr[n], list, all)
      BY <2>7, ConvStateFits DEF Fits
    <3> QED BY <1>1, <2>4, <2>5, <3>1, FitsIsSized
  <2>10. Sound'
    <3>1. Range(outs[c]) = {j} /\ Range(outs[r]) = {w} /\ Range(ins[a]) = {j} /\ w \in Range(ins[n])
      <4>1. Range(ins[n]) = {w, x}
        BY <2>7, RangeOfTwo
      <4>2. Range(outs[c]) = {j} /\ Range(outs[r]) = {w} /\ Range(ins[a]) = {j}
        BY <2>7, RangeOfOne
      <4> QED BY <4>1, <4>2
    <3>2. Range(ins'[n]) \subseteq Range(ins[c]) \cup Prepared(W)
      <4>1. <<w, x>>[2] = x
        OBVIOUS
      <4>2. x \in Prepared(W)
        BY <1>7, <2>7, <4>1 DEF Preparing
      <4>3. Range(list) = Range(ins[c]) \cup {x}
        BY <1>1, <2>7, TypeParts, RangeOfAppend
      <4> QED BY <2>5, <4>2, <4>3
    <3>3. outs'[n] = outs[n] \o outs[a]
      BY <2>1, <2>5
    <3>4. \A k \in W : Range(ins[k]) \subseteq Prepared(W)
      BY <1>7 DEF Preparing
    <3>5. n # a /\ n # c
      BY <2>7
    <3>6. /\ Range(ins[n]) \cap Range(outs[r]) # {} /\ Range(ins[r]) \cap Range(outs[c]) # {}
          /\ Range(ins[a]) \cap Range(outs[c]) # {}
      BY <2>7, <3>1
    <3> QED BY <1>1, <1>4, <2>3, <2>4, <2>5, <2>6, <2>9, <2>8, <3>2, <3>3, <3>4, <3>5, <3>6, AbsorbSound
  <2>11. Plain'
    <3>1. op'[n] \notin {"Conv", "Reshape"}
      BY <2>5
    <3> QED BY <1>1, <1>7, <2>3, <2>5, <2>8, <3>1, PlainJoined
  <2>12. Separating'
    BY <1>1, <1>2, <1>3, <1>8, <1>7, <2>3, <2>5, <2>6, AbsorbSeparates
  <2>13. CallsSucceed' /\ WorkMatches'
    BY <1>1, <1>2, <2>12, NothingToMatch DEF CallsSucceed
  <2> QED BY <1>5, <1>8, <2>6, <2>10, <2>11, <2>13 DEF Steady
<1> QED BY <1>3, <1>6, <1>8

\* A user of the bypassed value comes to its turn.
LEMMA SetInputTurn ==
    ASSUME TypesInv, Steady, DoSetInput
    PROVE  \E n, m \in live, from, to \in Value : \E k \in Nat : \E q \in [1 .. k -> users[from]] :
             /\ k >= 1 /\ m = q[1] /\ m \in users[from]
             /\ BypassLeft(k, q, n, from, to) /\ Bypassable(n, from, to)
             /\ IsInjective(q) /\ Range(q) = users[from]
             /\ Head(todo) = SetInput(m, from, to)
<1>1. todo # <<>> /\ Head(todo).f = "input" /\ TypeOK /\ Agree
  BY DEF DoSetInput, Calls, TypesInv, Steady, Sound
<1>2. PICK n \in live, from \in Value, to \in Value :
        \E k \in Nat : \E q \in [1 .. k -> users[from]] :
          /\ BypassLeft(k, q, n, from, to) /\ Bypassable(n, from, to)
          /\ IsInjective(q) /\ Range(q) = users[from]
  BY <1>1, StageOf DEF Bypassing
<1>3. PICK k \in Nat : \E q \in [1 .. k -> users[from]] :
          /\ BypassLeft(k, q, n, from, to) /\ Bypassable(n, from, to)
          /\ IsInjective(q) /\ Range(q) = users[from]
  BY <1>2
<1>4. PICK q \in [1 .. k -> users[from]] :
          /\ BypassLeft(k, q, n, from, to) /\ Bypassable(n, from, to)
          /\ IsInjective(q) /\ Range(q) = users[from]
  BY <1>3
<1>5. todo \in Seq(Call) /\ Len(todo) = k + 1 /\ todo[k + 1] = Drop(n) /\ Head(todo) = todo[1]
  BY <1>1, <1>4, CallOf DEF BypassLeft
<1>6. k >= 1
  <2>1. k = 0 => Head(todo) = Drop(n)
    BY <1>5
  <2>2. Drop(n).f = "remove"
    BY CallNames
  <2> QED BY <1>1, <2>1, <2>2
<1>7. PICK m : m = q[1] /\ m \in users[from]
  BY <1>6
<1>8. m \in live
  BY <1>1, <1>7, IndexFacts DEF TypeOK, GraphTypeOK
<1>9. Head(todo) = SetInput(m, from, to)
  BY <1>4, <1>5, <1>6, <1>7 DEF BypassLeft
<1> QED BY <1>4, <1>6, <1>7, <1>8, <1>9

LEMMA SetInputDone ==
    ASSUME TypesInv, Agree, DoSetInput, NEW m \in live, NEW n \in live,
           NEW from \in Value, NEW to \in Value,
           m \in users[from], Bypassable(n, from, to), Head(todo) = SetInput(m, from, to)
    PROVE  \/ Stops
           \/ /\ ins' = [ins EXCEPT ![m] = WithInput(m, from, to)] /\ dims' = dims
              /\ UNCHANGED <<op, outs, live, alias, outputs, torn>>
              /\ todo' = Tail(todo) /\ status' = "running"
<1>1. PICK h : h = Head(todo) /\ h = SetInput(m, from, to)
  OBVIOUS
<1>2. h.n = m /\ h.from = from /\ h.to = to
  BY <1>1, CallParts
<1>3. TypeOK /\ m \in Node /\ outs[m] \in Seq(Value) /\ dims \in [Value -> KnownDims]
  BY TypeParts DEF TypesInv
<1>4. CanReplaceInput(m, from)
  BY <1>3, IndexFacts DEF CanReplaceInput
<1>5. PICK d : d = DimsOf(WithInput(m, from, to))
  OBVIOUS
<1>6. Creatable(op[m], attr[m], d, Len(outs[m])) /\ Infer(op[m], attr[m], d) = DimsOf(outs[m])
  BY <1>5 DEF Bypassable, Refits, Fits
<1>7. /\ CanReplaceInput(h.n, h.from) /\ Creatable(op[h.n], attr[h.n], d, Len(outs[h.n]))
      /\ d = DimsOf(WithInput(h.n, h.from, h.to))
  BY <1>2, <1>4, <1>5, <1>6
<1>8. PICK e : e = Assign(outs[h.n], Infer(op[h.n], attr[h.n], d))
  OBVIOUS
<1>9. \/ ReplaceInputValue(h.n, h.from, h.to, Range(outs[h.n]), e) /\ Returned
      \/ \E taken, f, why : /\ ReplaceInputValue(h.n, h.from, h.to, taken, f) /\ Fails(why)
                            /\ why \in {"no kernel", "metadata"}
  BY <1>1, <1>7, <1>8 DEF DoSetInput
<1>10. CASE ReplaceInputValue(h.n, h.from, h.to, Range(outs[h.n]), e) /\ Returned
  <2>1. e = Assign(outs[m], DimsOf(outs[m]))
    BY <1>2, <1>6, <1>8
  <2>2. ReplaceInputValue(m, from, to, Range(outs[m]), e)
    BY <1>2, <1>10
  <2>3. dims' = dims
    BY <1>3, <2>1, <2>2, DimsStay DEF ReplaceInputValue
  <2>4. todo' = Tail(todo) /\ status' = "running"
    BY <1>10 DEF Returned, DoSetInput, Calls
  <2> QED BY <2>2, <2>3, <2>4 DEF ReplaceInputValue
<1>11. CASE \E taken, f, why : /\ ReplaceInputValue(h.n, h.from, h.to, taken, f) /\ Fails(why)
                              /\ why \in {"no kernel", "metadata"}
  BY <1>11 DEF ReplaceInputValue, Fails, Stops
<1> QED BY <1>9, <1>10, <1>11

\* What is left of the bypass when m reads the other value.
LEMMA BypassGoesOn ==
    ASSUME TypesInv, TypeOK', Agree, Agree', Acyclic, UNCHANGED <<attr, pass>>,
           NEW m \in live, NEW n \in live, NEW from \in Value, NEW to \in Value,
           NEW k \in Nat, NEW q \in [1 .. k -> users[from]], todo # <<>>,
           k >= 1, m = q[1], BypassLeft(k, q, n, from, to), Bypassable(n, from, to),
           IsInjective(q), Range(q) = users[from],
           ins' = [ins EXCEPT ![m] = WithInput(m, from, to)], dims' = dims,
           UNCHANGED <<op, outs, live, alias, outputs>>, todo' = Tail(todo)
    PROVE  Bypassing'
<1>1. /\ TypeOK /\ m \in Node /\ n \in Node /\ live \subseteq Node /\ todo \in Seq(Call)
      /\ ins \in [Node -> Seq(Value)]
  BY TypeParts, CallOf DEF TypesInv
<1>2. outs[n] = <<from>> /\ ins[n] = <<to>> /\ ~IsGraphOutputValue(from)
  BY DEF Bypassable
<1>3. Range(outs[n]) = {from} /\ Range(ins[n]) = {to}
  BY <1>2, RangeOfOne
<1>4. from # to
  BY <1>3, NoLoop
<1>5. m \in users[from] /\ from \in Range(ins[m])
  BY <1>1, IndexFacts
<1>6. n # m
  BY <1>3, <1>4, <1>5
<1>7. /\ ins'[m] = WithInput(m, from, to)
      /\ \A u \in live : u # m => ins'[u] = ins[u]
  BY <1>1
<1>8. from \notin Range(ins'[m])
  BY <1>1, <1>4, <1>5, <1>7, RangeOfWithInput, TypeParts
<1>9. users'[from] = users[from] \ {m}
  <2>1. \A u \in Node : u \in users'[from] <=> u \in live' /\ from \in Range(ins'[u])
    BY AgreeByMember DEF TypeOK, Agree, UsersOf
  <2>2. \A u \in Node : u \in users[from] <=> u \in live /\ from \in Range(ins[u])
    BY <1>1, IndexFacts
  <2>3. users[from] \subseteq Node /\ users'[from] \subseteq Node
    BY <1>1 DEF TypeOK, GraphTypeOK
  <2>4. \A u \in Node : u \in users'[from] <=> u \in users[from] /\ u # m
    BY <1>7, <1>8, <2>1, <2>2
  <2> QED BY <2>3, <2>4
<1>10. PICK rest \in [1 .. k - 1 -> users'[from]] :
         /\ \A i \in 1 .. k - 1 : rest[i] = q[i + 1]
         /\ IsInjective(rest) /\ Range(rest) = users'[from]
  <2>1. \A i, j \in 1 .. k : q[i] = q[j] => i = j
    BY DEF IsInjective
  <2>2. PICK rest : rest = [i \in 1 .. k - 1 |-> q[i + 1]]
    OBVIOUS
  <2>3. \A i \in 1 .. k - 1 : i + 1 \in 1 .. k /\ i + 1 # 1 /\ 1 \in 1 .. k
    OBVIOUS
  <2>4. \A i \in 1 .. k - 1 : rest[i] = q[i + 1] /\ q[i + 1] \in users[from] /\ q[i + 1] # m
    BY <2>1, <2>2, <2>3
  <2>5. rest \in [1 .. k - 1 -> users[from] \ {m}]
    BY <2>2, <2>4
  <2>6. IsInjective(rest)
    <3>1. \A i, j \in 1 .. k - 1 : rest[i] = rest[j] => i = j
      <4>1. TAKE i, j \in 1 .. k - 1
      <4>2. HAVE rest[i] = rest[j]
      <4>3. i + 1 = j + 1
        BY <2>1, <2>3, <2>4, <4>2
      <4> QED BY <4>3
    <3> QED BY <2>2, <3>1 DEF IsInjective
  <2>7. users[from] \ {m} \subseteq Range(rest)
    <3>1. ASSUME NEW u \in users[from] \ {m} PROVE u \in Range(rest)
      <4>1. PICK i \in 1 .. k : q[i] = u
        BY <3>1 DEF Range
      <4>2. i - 1 \in 1 .. k - 1 /\ (i - 1) + 1 = i
        BY <3>1, <4>1
      <4>3. rest[i - 1] = u /\ DOMAIN rest = 1 .. k - 1
        BY <2>2, <4>1, <4>2
      <4> QED BY <4>2, <4>3 DEF Range
    <3> QED BY <3>1
  <2>8. Range(rest) = users[from] \ {m}
    BY <2>5, <2>7 DEF Range
  <2> QED BY <1>9, <2>4, <2>5, <2>6, <2>8
<1>11. BypassLeft(k - 1, rest, n, from, to)'
  <2>1. Len(todo) = k + 1 /\ todo[k + 1] = Drop(n) /\ \A i \in 1 .. k : todo[i] = SetInput(q[i], from, to)
    BY DEF BypassLeft
  <2>2. Len(todo') = k /\ \A i \in 1 .. k : todo'[i] = todo[i + 1]
    BY <1>1, <2>1
  <2>3. \A i \in 1 .. k - 1 : i + 1 \in 1 .. k /\ i \in 1 .. k
    OBVIOUS
  <2>4. \A i \in 1 .. k - 1 : todo'[i] = SetInput(rest[i], from, to)
    <3>1. TAKE i \in 1 .. k - 1
    <3>2. i \in 1 .. k /\ i + 1 \in 1 .. k /\ rest[i] = q[i + 1]
      BY <1>10, <2>3
    <3>3. todo'[i] = todo[i + 1]
      BY <2>2, <3>2
    <3>4. todo[i + 1] = SetInput(q[i + 1], from, to)
      BY <2>1, <3>2
    <3> QED BY <3>2, <3>3, <3>4
  <2>5. k - 1 + 1 = k /\ todo'[k] = Drop(n)
    BY <2>1, <2>2
  <2> QED BY <2>2, <2>4, <2>5 DEF BypassLeft
<1>12. Bypassable(n, from, to)'
  <2>1. ASSUME NEW u \in users'[from] PROVE Refits(u, from, to)'
    <3>1. u \in users[from] /\ u # m
      BY <1>9
    <3>2. u \in live
      BY <1>1, <3>1, IndexFacts DEF TypeOK, GraphTypeOK
    <3>3. ins'[u] = ins[u] /\ op'[u] = op[u] /\ outs'[u] = outs[u] /\ attr'[u] = attr[u]
      BY <1>7, <3>1, <3>2
    <3>4. WithInput(u, from, to)' = WithInput(u, from, to)
      BY <3>3 DEF WithInput
    <3>5. PICK list, made : list = WithInput(u, from, to) /\ made = outs[u]
      OBVIOUS
    <3>6. Fits(op[u], attr[u], list, made)
      BY <3>1, <3>5 DEF Bypassable, Refits
    <3>7. DimsOf(WithInput(u, from, to))' = DimsOf(list)
      <4>1. WithInput(u, from, to)' = list
        BY <3>4, <3>5
      <4> QED BY <4>1 DEF DimsOf
    <3>8. DimsOf(outs[u])' = DimsOf(made)
      BY <3>3, <3>5 DEF DimsOf
    <3>9. PICK d, e : d = DimsOf(list) /\ e = DimsOf(made)
      OBVIOUS
    <3>10. Creatable(op[u], attr[u], d, Len(made)) /\ Infer(op[u], attr[u], d) = e
      BY <3>6, <3>9 DEF Fits
    <3>11. /\ Creatable(op'[u], attr'[u], DimsOf(WithInput(u, from, to))', Len(outs'[u]))
           /\ Infer(op'[u], attr'[u], DimsOf(WithInput(u, from, to))') = DimsOf(outs[u])'
      BY <3>3, <3>5, <3>7, <3>8, <3>9, <3>10
    <3> QED BY <3>11 DEF Refits, Fits, Creatable
  <2>2. outs'[n] = <<from>> /\ ins'[n] = <<to>>
    BY <1>2, <1>6, <1>7
  <2>3. ~IsGraphOutputValue(from)'
    BY <1>2, SameAliases
  <2>4. Passes'[pass'] = "NoOp" => dims'[from] = dims'[to]
    BY DEF Bypassable
  <2> QED BY <2>1, <2>2, <2>3, <2>4 DEF Bypassable
<1>13. k - 1 \in Nat /\ n \in live'
  OBVIOUS
<1> QED BY <1>10, <1>11, <1>12, <1>13 DEF Bypassing

LEMMA SetInputCall ==
    ASSUME TypesInv, TypesInv', NoAliasYet, Steady, Rewrites, DoSetInput
    PROVE  NoAliasYet' /\ ((status' = "running" /\ Steady') \/ Stops)
<1>0. CASE Stops
  BY <1>0, CallsLeave, StopsQuietly
<1> SUFFICES ASSUME ~Stops PROVE NoAliasYet' /\ status' = "running" /\ Steady'
  BY <1>0
<1>1. /\ TypeOK /\ TypeOK' /\ Sound /\ Plain /\ ~torn /\ UNCHANGED <<attr, pass, work>>
      /\ todo # <<>> /\ Head(todo).f = "input"
  BY CallsLeave DEF TypesInv, Steady, DoSetInput, Calls
<1>2. Passes[pass] \in {"Identity", "ReshapeChain", "NoOp"}
  BY <1>1, StageOf
<1>3. PICK n \in live, m \in live, from \in Value, to \in Value :
        \E k \in Nat : \E q \in [1 .. k -> users[from]] :
             /\ k >= 1 /\ m = q[1] /\ m \in users[from]
             /\ BypassLeft(k, q, n, from, to) /\ Bypassable(n, from, to)
             /\ IsInjective(q) /\ Range(q) = users[from]
             /\ Head(todo) = SetInput(m, from, to)
  BY SetInputTurn
<1>4. PICK k \in Nat : \E q \in [1 .. k -> users[from]] :
             /\ k >= 1 /\ m = q[1] /\ m \in users[from]
             /\ BypassLeft(k, q, n, from, to) /\ Bypassable(n, from, to)
             /\ IsInjective(q) /\ Range(q) = users[from]
             /\ Head(todo) = SetInput(m, from, to)
  BY <1>3
<1>5. PICK q \in [1 .. k -> users[from]] :
             /\ k >= 1 /\ m = q[1] /\ m \in users[from]
             /\ BypassLeft(k, q, n, from, to) /\ Bypassable(n, from, to)
             /\ IsInjective(q) /\ Range(q) = users[from]
             /\ Head(todo) = SetInput(m, from, to)
  BY <1>4
<1>6. /\ ins' = [ins EXCEPT ![m] = WithInput(m, from, to)] /\ dims' = dims
      /\ UNCHANGED <<op, outs, live, alias, outputs, torn>>
      /\ todo' = Tail(todo) /\ status' = "running"
  BY <1>1, <1>5, SetInputDone DEF Sound
<1>7. ~torn' /\ Agree'
  <2>1. ~torn'
    BY <1>1, <1>6
  <2> QED BY <1>1, <2>1, AgreesAfter DEF Sound
<1>8. Bypassing'
  BY <1>1, <1>5, <1>6, <1>7, BypassGoesOn DEF Sound
<1>9. NoAliasYet'
  BY <1>1, <1>6, SameAliases DEF NoAliasYet
<1>10. m \in Node /\ n \in Node /\ GraphTypeOK /\ ins \in [Node -> Seq(Value)] /\ live \subseteq Node
  BY <1>1, TypeParts
<1>11. PICK new : new = WithInput(m, from, to)
  OBVIOUS
<1>12. ins'[m] = new /\ \A u \in live : u # m => ins'[u] = ins[u]
  BY <1>6, <1>10, <1>11
<1>13. outs[n] = <<from>> /\ ins[n] = <<to>> /\ Refits(m, from, to)
       /\ (Passes[pass] = "NoOp" => dims[from] = dims[to])
  BY <1>5 DEF Bypassable
<1>14. from \in Range(ins[m])
  BY <1>1, <1>5, <1>10, IndexFacts DEF Sound
<1>15. Range(outs[n]) = {from} /\ Range(ins[n]) = {to} /\ Range(new) = (Range(ins[m]) \ {from}) \cup {to}
  <2>1. Range(outs[n]) = {from} /\ Range(ins[n]) = {to}
    BY <1>13, RangeOfOne
  <2>2. Range(new) = (Range(ins[m]) \ {from}) \cup {to}
    BY <1>10, <1>11, <1>14, RangeOfWithInput
  <2> QED BY <2>1, <2>2
<1>16. Sized(m)'
  <2>1. Fits(op[m], attr[m], new, outs[m])
    BY <1>11, <1>13 DEF Refits
  <2> QED BY <1>1, <1>6, <1>12, <2>1, FitsIsSized
<1>17. Sound'
  BY <1>1, <1>6, <1>7, <1>12, <1>14, <1>15, <1>16, RewireSound
<1>18. /\ Len(new) = Len(ins[m])
       /\ \A i \in 1 .. Len(ins[m]) : new[i] = IF ins[m][i] = from THEN to ELSE ins[m][i]
  <2>1. Len(new) = Len(ins[m])
    BY <1>10, <1>11, WithInputType
  <2> QED BY <1>11, <2>1 DEF WithInput
<1>19. Plain'
  <2>1. op[m] = "Conv" => Len(ins[m]) >= 2
    BY <1>1 DEF Plain, Preparing
  <2>2. Len(ins[m]) \in Nat
    BY <1>10
  <2>3. op[m] = "Conv" => new[2] = ins[m][2] \/ (ins[m][2] = from /\ new[2] = to)
    BY <1>18, <2>1, <2>2
  <2>4. op'[m] = "Conv" => /\ Len(ins'[m]) = Len(ins[m])
                           /\ \/ ins'[m][2] = ins[m][2]
                              \/ ins[m][2] \in Range(outs[n]) /\ ins'[m][2] \in Range(ins[n])
    BY <1>6, <1>12, <1>15, <1>18, <2>3
  <2>5. Range(ins'[m]) \subseteq Range(ins[m]) \cup Range(ins[n]) /\ Range(ins[m]) \cap Range(outs[n]) # {}
    BY <1>12, <1>14, <1>15
  <2>6. TypeOK /\ Agree /\ SourcesAreFree /\ Plain
    BY <1>1 DEF Sound
  <2> QED BY <1>1, <1>6, <1>12, <2>4, <2>5, <2>6, PlainRewired
<1>20. WorkMatches'
  <2> SUFFICES ASSUME NEW u \in work' \cap live'
               PROVE  /\ Passes[pass] = "Identity" => op'[u] = "Identity"
                      /\ Passes[pass] = "ReshapeChain" => op'[u] = "Reshape"
                      /\ Passes[pass] = "NoOp" => /\ Single(u)' /\ ~IsGraphOutputValue(outs[u][1])'
                                                  /\ dims'[ins'[u][1]] = dims'[outs'[u][1]]
    BY <1>1, <1>2 DEF WorkMatches
  <2>1. u \in work \cap live
    BY <1>1, <1>6
  <2>2. /\ Passes[pass] = "Identity" => op[u] = "Identity"
        /\ Passes[pass] = "ReshapeChain" => op[u] = "Reshape"
        /\ Passes[pass] = "NoOp" => /\ Single(u) /\ ~IsGraphOutputValue(outs[u][1])
                                    /\ dims[ins[u][1]] = dims[outs[u][1]]
    BY <1>1, <2>1 DEF Steady, WorkMatches
  <2>3. Passes[pass] = "NoOp" => Len(ins'[u]) = Len(ins[u]) /\ dims[ins'[u][1]] = dims[ins[u][1]]
    <3>1. CASE u = m
      BY <1>12, <1>13, <1>18, <2>2, <3>1 DEF Single
    <3>2. CASE u # m
      BY <1>12, <2>1, <3>2
    <3> QED BY <3>1, <3>2
  <2>4. Passes[pass] = "NoOp" => Single(u)'
    BY <1>6, <2>2, <2>3 DEF Single
  <2>5. ~IsGraphOutputValue(outs[u][1])' <=> ~IsGraphOutputValue(outs[u][1])
    <3>1. \A o : AliasChain(o)' = AliasChain(o)
      BY <1>6, SameAliases
    <3> QED BY <1>6, <3>1 DEF IsGraphOutputValue
  <2> QED BY <1>6, <2>2, <2>3, <2>4, <2>5
<1>21. CallsSucceed'
  BY <1>1, <1>2, <1>8 DEF CallsSucceed
<1> QED BY <1>6, <1>7, <1>9, <1>17, <1>19, <1>20, <1>21 DEF Steady

LEMMA VisitStep ==
    ASSUME TypesInv, TypesInv', NoAliasYet, Steady, Visit
    PROVE  NoAliasYet' /\ status' = "running" /\ Steady'
<1>1. UNCHANGED <<graphVars, attr, pass, status>> /\ status = "running" /\ work' \subseteq work
  BY DEF Visit
<1>2. Sound' /\ Plain' /\ WorkMatches'
  BY <1>1, StillSound, StillMatches DEF Steady
<1>3. UNCHANGED <<alias, outputs, torn>>
  BY <1>1, StillParts
<1>4. NoAliasYet'
  BY <1>1, <1>3, SameAliases DEF NoAliasYet
<1>5. CallsSucceed'
  BY VisitSucceeds
<1> QED BY <1>1, <1>2, <1>3, <1>4, <1>5 DEF Steady

\* The calls to be made are as they were when nothing happens.
LEMMA StillSucceed ==
    ASSUME UNCHANGED vars, CallsSucceed
    PROVE  CallsSucceed'
<1>1. UNCHANGED <<graphVars, attr, pass, work, todo, status>>
  BY DEF vars, passVars
<1>2. UNCHANGED <<op, ins, outs, live, producer, users, alias, dims, outputs, torn>>
  BY <1>1, StillParts
<1>3. Removing => Removing'
  BY <1>1, <1>2, StillReasons DEF Removing
<1>4. Fusing => Fusing'
  <2> SUFFICES ASSUME Fusing PROVE Fusing'
    OBVIOUS
  <2>1. PICK n \in live, s \in live, o \in Op, list \in Seq(Value), t \in Value :
          todo = <<SetOp(n, o, list), Drop(s)>> /\ Fusable(n, s, o, list, t)
    BY DEF Fusing
  <2>2. Fusable(n, s, o, list, t)'
    BY <1>1, <2>1, StillFits
  <2> QED BY <1>1, <1>2, <2>1, <2>2 DEF Fusing
<1>5. Joining => Joining'
  <2> SUFFICES ASSUME Joining PROVE Joining'
    OBVIOUS
  <2>1. PICK n \in live, a \in live, r \in live, c \in live, list \in Seq(Value),
             j \in Value, w \in Value, x \in Value :
          /\ todo = <<Absorb(n, a, "QwenDepthwiseConvState", list), Drop(r), Drop(c)>>
          /\ Joinable(n, a, r, c, list, j, w, x)
    BY DEF Joining
  <2>2. Joinable(n, a, r, c, list, j, w, x)'
    BY <1>1, <2>1, StillFits
  <2> QED BY <1>1, <1>2, <2>1, <2>2 DEF Joining
<1>6. Separating => Separating'
  BY <1>1, <1>2 DEF Separating
<1>7. Bypassing => Bypassing'
  <2> SUFFICES ASSUME Bypassing PROVE Bypassing'
    OBVIOUS
  <2>1. PICK n \in live, from \in Value, to \in Value :
          \E k \in Nat : \E q \in [1 .. k -> users[from]] :
            /\ BypassLeft(k, q, n, from, to) /\ Bypassable(n, from, to)
            /\ IsInjective(q) /\ Range(q) = users[from]
    BY DEF Bypassing
  <2>2. PICK k \in Nat : \E q \in [1 .. k -> users[from]] :
            /\ BypassLeft(k, q, n, from, to) /\ Bypassable(n, from, to)
            /\ IsInjective(q) /\ Range(q) = users[from]
    BY <2>1
  <2>3. PICK q \in [1 .. k -> users[from]] :
            /\ BypassLeft(k, q, n, from, to) /\ Bypassable(n, from, to)
            /\ IsInjective(q) /\ Range(q) = users[from]
    BY <2>2
  <2>4. Bypassable(n, from, to)'
    BY <1>1, <2>3, StillBypassable
  <2>5. BypassLeft(k, q, n, from, to)'
    BY <1>1, <2>3 DEF BypassLeft
  <2>6. q \in [1 .. k -> users'[from]] /\ Range(q) = users'[from] /\ n \in live'
    BY <1>2, <2>3
  <2> QED BY <2>3, <2>4, <2>5, <2>6 DEF Bypassing
<1>8. Removed => Removed'
  BY <1>1, <1>2, StillReasons DEF Removed
<1>9. Relaying => Relaying'
  BY <1>1, <1>2, StillReasons DEF Relaying
<1> QED BY <1>1, <1>3, <1>4, <1>5, <1>6, <1>7, <1>8, <1>9 DEF CallsSucceed

LEMMA StillIInv == ASSUME IInv, TypesInv', UNCHANGED vars PROVE IInv'
<1>1. UNCHANGED <<graphVars, attr, pass, work, todo, status>>
  BY DEF vars, passVars
<1>2. UNCHANGED <<alias, outputs, torn>>
  BY <1>1, StillParts
<1>3. NoAliasYet'
  BY <1>1, <1>2, SameAliases DEF NoAliasYet, IInv
<1>4. status' = "running" => Steady'
  <2>1. status = "running" => Sound' /\ Plain' /\ WorkMatches' /\ CallsSucceed'
    BY <1>1, StillSound, StillMatches, StillSucceed DEF Steady, IInv
  <2> QED BY <1>1, <1>2, <2>1 DEF Steady, IInv
<1>5. StopsForAReason'
  <2>1. Excused' <=> Excused
    BY <1>1, StillReasons
  <2> QED BY <1>1, <1>2, <2>1 DEF StopsForAReason, IInv, Excused
<1> QED BY <1>3, <1>4, <1>5 DEF IInv

LEMMA StepIInv == ASSUME IInv, [Next]_vars PROVE IInv'
<1>1. TypesInv /\ NoAliasYet /\ TypesInv' /\ Rewrites
  BY StepTypes DEF IInv
<1>2. CASE UNCHANGED vars
  BY <1>1, <1>2, StillIInv
<1>3. CASE Finished
  BY <1>1, <1>3, StillIInv DEF Finished
<1>4. CASE NextPass \/ NextRound \/ Visit \/ DoRemove \/ DoRelay \/ DoSetInput \/ DoSetOp \/ DoAbsorb
  <2>1. Steady
    BY <1>4 DEF IInv, NextPass, NextRound, Idle, Visit, DoRemove, DoRelay, DoSetInput, DoSetOp, DoAbsorb, Calls
  <2>2. NoAliasYet' /\ \/ status' \in {"running", "done"} /\ Steady'
                       \/ status' = "refused" /\ Excused'
                       \/ status' \in {"no kernel", "metadata"}
    <3>1. CASE NextPass \/ NextRound
      BY <1>1, <2>1, <3>1, PassBegins
    <3>2. CASE Visit
      BY <1>1, <2>1, <3>2, VisitStep
    <3>3. CASE DoRemove
      BY <1>1, <2>1, <3>3, RemoveCall
    <3>4. CASE DoRelay
      BY <1>1, <2>1, <3>4, RelayCall
    <3>5. CASE DoSetInput
      BY <1>1, <2>1, <3>5, SetInputCall DEF Stops
    <3>6. CASE DoSetOp
      BY <1>1, <2>1, <3>6, SetOpCall DEF Stops
    <3>7. CASE DoAbsorb
      BY <1>1, <2>1, <3>7, AbsorbCall DEF Stops
    <3> QED BY <1>4, <3>1, <3>2, <3>3, <3>4, <3>5, <3>6, <3>7
  <2>3. StopsForAReason'
    BY <2>2 DEF StopsForAReason, Excused
  <2> QED BY <1>1, <2>2, <2>3 DEF IInv
<1> QED BY <1>2, <1>3, <1>4 DEF Next

(* The model as it is built. *)

LEMMA Least == ASSUME NEW S \in SUBSET Nat, S # {} PROVE \E n \in S : \A m \in S : n <= m
<1> DEFINE R == OpToRel(<, Nat)
<1>1. IsWellFoundedOn(R, Nat)
  BY NatLessThanWellFounded
<1>2. \A m, n \in Nat : m < n => <<m, n>> \in R
  BY DEF OpToRel
<1> HIDE DEF R
<1>3. PICK n \in S : \A m \in S : ~(<<m, n>> \in R)
  BY <1>1, WFMin
<1>4. \A m \in S : ~(m < n)
  BY <1>2, <1>3
<1> QED BY <1>4

\* The order in which the nodes are listed.
LEMMA ListedInOrder ==
    ASSUME NEW g \in Graphs, Built(g)
    PROVE  /\ \A n \in live : n \in Nat /\ IsInjective(outs[n]) /\ Range(outs[n]) \cap Source = {}
           /\ \A n \in live : \A v \in Range(ins[n]) :
                v \in Source \/ \E j \in live : j < n /\ v \in Range(outs[j])
           /\ outputs \subseteq Source \cup Made(live)
<1>1. Len(g.nodes) \in Nat /\ live = 1 .. Len(g.nodes)
  BY DEF Built
<1>2. \A n \in live : ins[n] = g.nodes[n].ins /\ outs[n] = g.nodes[n].outs
  BY DEF Built
<1> DEFINE made(i) == Range(g.nodes[i].outs)
<1>3. /\ \A i \in 1 .. Len(g.nodes) :
            /\ IsInjective(g.nodes[i].outs) /\ made(i) \cap Source = {}
            /\ Range(g.nodes[i].ins) \subseteq Source \cup UNION {made(j) : j \in 1 .. i - 1}
      /\ outputs \subseteq Source \cup UNION {made(i) : i \in 1 .. Len(g.nodes)}
  BY DEF Built, IsModel
<1>4. \A n \in live : made(n) = Range(outs[n])
  BY <1>2
<1> HIDE DEF made
<1>5. \A n \in live : n \in Nat /\ IsInjective(outs[n]) /\ Range(outs[n]) \cap Source = {}
  BY <1>1, <1>2, <1>3, <1>4
<1>6. ASSUME NEW n \in live, NEW v \in Range(ins[n]), v \notin Source
      PROVE  \E j \in live : j < n /\ v \in Range(outs[j])
  <2>1. v \in UNION {made(j) : j \in 1 .. n - 1}
    BY <1>1, <1>2, <1>3, <1>6
  <2>2. PICK j \in 1 .. n - 1 : v \in made(j)
    BY <2>1
  <2>3. j \in live /\ j < n
    BY <1>1
  <2> QED BY <1>4, <2>2, <2>3
<1>7. outputs \subseteq Source \cup Made(live)
  BY <1>1, <1>3, <1>4 DEF Made
<1> QED BY <1>5, <1>6, <1>7

LEMMA InitAcyclic ==
    ASSUME NEW g \in Graphs, Built(g) PROVE Acyclic
<1> SUFFICES ASSUME NEW S \in SUBSET live, S # {}
             PROVE  \E n \in S : Range(ins[n]) \cap Made(S) = {}
  BY DEF Acyclic
<1>1. PICK n \in S : \A m \in S : n <= m
  <2>1. S \in SUBSET Nat
    BY ListedInOrder
  <2> QED BY <2>1, Least
<1>2. ASSUME NEW v \in Range(ins[n]), v \in Made(S) PROVE FALSE
  <2>1. PICK m \in S : v \in Range(outs[m])
    BY <1>2, InMade
  <2>2. v \notin Source
    BY <2>1, ListedInOrder
  <2>3. PICK j \in live : j < n /\ v \in Range(outs[j])
    BY <1>2, <2>2, ListedInOrder
  <2>4. m = j
    BY <2>1, <2>3, OneProducer
  <2>5. n \in Nat /\ m \in Nat /\ n <= m
    BY <1>1, ListedInOrder
  <2> QED BY <2>3, <2>4, <2>5
<1> QED BY <1>2

LEMMA InitPlain ==
    ASSUME PlainModels, TypeOK, NEW g \in Graphs, Built(g), \A n \in live : Sized(n)
    PROVE  Plain
<1>1. live = 1 .. Len(g.nodes)
  BY DEF Built
<1>2. \A n \in live : /\ op[n] = g.nodes[n].op /\ ins[n] = g.nodes[n].ins
                       /\ outs[n] = g.nodes[n].outs /\ attr[n] = g.nodes[n].attr
  <2>1. TAKE n \in live
  <2>2. n \in Node /\ NodeOf(g, n) = g.nodes[n]
    BY DEF Built
  <2> QED BY <2>2 DEF Built
<1> DEFINE prepared(X) == Source \cup UNION {Range(g.nodes[i].outs) : i \in X}
<1>3. /\ \E X \in SUBSET (1 .. Len(g.nodes)) :
            /\ \A i \in X : /\ g.nodes[i].op \notin {"Concat", "Conv", "Split"}
                            /\ Range(g.nodes[i].ins) \subseteq prepared(X)
            /\ \A i \in 1 .. Len(g.nodes) :
                 g.nodes[i].op = "Conv" => Range(Tail(g.nodes[i].ins)) \subseteq prepared(X)
      /\ \A i \in 1 .. Len(g.nodes) : g.nodes[i].op = "Reshape" => 0 \notin Range(g.nodes[i].attr)
  BY DEF PlainModels
<1>4. PICK W \in SUBSET (1 .. Len(g.nodes)) :
            /\ \A i \in W : /\ g.nodes[i].op \notin {"Concat", "Conv", "Split"}
                            /\ Range(g.nodes[i].ins) \subseteq prepared(W)
            /\ \A i \in 1 .. Len(g.nodes) :
                 g.nodes[i].op = "Conv" => Range(Tail(g.nodes[i].ins)) \subseteq prepared(W)
  BY <1>3
<1>5. prepared(W) = Prepared(W)
  <2>1. \A v : v \in prepared(W) <=> v \in Source \/ \E k \in W : v \in Range(g.nodes[k].outs)
    OBVIOUS
  <2>2. \A k \in W : Range(g.nodes[k].outs) = Range(outs[k])
    BY <1>1, <1>2
  <2> QED BY <2>1, <2>2, InPrepared
<1> HIDE DEF prepared
<1>6. \A k \in W : op[k] \notin {"Concat", "Conv", "Split"} /\ Range(ins[k]) \subseteq Prepared(W)
  BY <1>1, <1>2, <1>4, <1>5
<1>7. \A n \in live : op[n] = "Conv" => Len(ins[n]) >= 2 /\ ins[n][2] \in Prepared(W)
  <2>1. TAKE n \in live
  <2>2. HAVE op[n] = "Conv"
  <2>3. Len(ins[n]) \in {2, 3} /\ ins[n] \in Seq(Value)
    BY <2>2, ConvSized, TypeParts
  <2>4. Range(Tail(ins[n])) \subseteq Prepared(W)
    BY <1>1, <1>2, <1>4, <1>5, <2>2
  <2>5. PICK s \in Seq(Value) : s = ins[n] /\ Len(s) \in {2, 3} /\ Range(Tail(s)) \subseteq Prepared(W)
    BY <2>3, <2>4
  <2>6. Tail(s)[1] = s[2] /\ 1 \in DOMAIN Tail(s)
    BY <2>5
  <2>7. Tail(s)[1] \in Range(Tail(s))
    BY <2>6 DEF Range
  <2>8. s[2] \in Prepared(W) /\ Len(s) >= 2
    BY <2>5, <2>6, <2>7
  <2> QED BY <2>5, <2>8
<1>8. Preparing(W)
  BY <1>6, <1>7 DEF Preparing
<1>9. \A n \in live : op[n] = "Reshape" => 0 \notin Range(attr[n])
  BY <1>1, <1>2, <1>3
<1> QED BY <1>1, <1>8, <1>9 DEF Plain

LEMMA InitIInv == ASSUME PlainModels, Init PROVE IInv
<1>1. TypesInv /\ TypeOK /\ GraphInit
  BY InitTypes DEF TypesInv
<1>2. PICK g \in Graphs : Built(g)
  BY InitBuilt
<1>3. /\ alias = [v \in Value |-> NoValue] /\ ~torn /\ (\A n \in live : Sized(n))
      /\ work = {} /\ todo = <<>> /\ status = "running"
  BY DEF Init
<1>4. Agree
  BY <1>1 DEF GraphInit, Agree
<1>5. Aliased = {}
  BY <1>3 DEF Aliased
<1>6. \A o : AliasChain(o) = {o}
  <2> TAKE o
  <2>1. AliasChain(o) = ChainIn(alias, o) /\ AliasedIn(alias) = {}
    BY <1>5, ChainsOf
  <2>2. o \in ChainIn(alias, o)
    BY ChainFacts
  <2>3. ChainIn(alias, o) \subseteq {o}
    <3>1. o \in {o} /\ \A w \in {o} \cap AliasedIn(alias) : alias[w] \in {o}
      BY <2>1
    <3> QED BY <3>1, ChainFacts
  <2> QED BY <2>1, <2>2, <2>3
<1>7. AllSized
  BY <1>2, <1>3, ListedInOrder DEF AllSized
<1>8. SourcesAreFree
  BY <1>2, ListedInOrder DEF SourcesAreFree, Made
<1>9. InputsThere
  BY <1>2, ListedInOrder, InMade DEF InputsThere
<1>10. OutputsThere
  <2>1. outputs \subseteq Source \cup Made(live)
    BY <1>2, ListedInOrder
  <2>2. ResolvedOutputs \subseteq outputs
    BY <1>6 DEF ResolvedOutputs
  <2> QED BY <1>5, <1>6, <2>1, <2>2 DEF OutputsThere
<1>11. Sound
  BY <1>2, <1>4, <1>5, <1>7, <1>8, <1>9, <1>10, InitAcyclic DEF Sound, AliasesAreGone
<1>12. Plain
  BY <1>1, <1>2, <1>3, InitPlain
<1>13. Steady
  BY <1>3, <1>11, <1>12 DEF Steady, CallsSucceed, WorkMatches
<1> QED BY <1>1, <1>3, <1>5, <1>13 DEF IInv, NoAliasYet, StopsForAReason

\* Whatever the passes before it did, a pass leaves no graph that the validation
\* after it rejects (PassManager::RunStatus), and makes no call that the graph
\* refuses but for the two reasons the model gave it: for every plain model.  A
\* rewrite may still stop for its data types.
THEOREM PipelineStopsForAReason == ASSUME PlainModels PROVE Spec => []StopsForAReason
<1>1. Init => IInv
  BY InitIInv
<1>2. IInv /\ [Next]_vars => IInv'
  BY StepIInv
<1>3. IInv => StopsForAReason
  BY DEF IInv
<1> QED BY <1>1, <1>2, <1>3, PTL DEF Spec
=============================================================================
