-------------------------- MODULE BuilderChainProofs --------------------------
(***************************************************************************)
(* The list of builders is the sequence of appended builders, for any      *)
(* number of nodes and any calls.                                          *)
(***************************************************************************)
EXTENDS BuilderChain, SequenceTheorems, TLAPS

\* A log: its nodes are nodes, none of which is NULL.
LEMMA LogFacts ==
  ASSUME ChainTypeOK, PlacesInv, NEW h \in Chains
  PROVE  /\ log[h] \in Seq(Node) /\ Len(log[h]) \in Nat /\ 1 \in 1..Len(log[h]) /\ log[h][1] = h
         /\ \A i \in 1..Len(log[h]) : log[h][i] \in Node /\ log[h][i] # NULL
<1>1. log[h] \in Seq(Node)
  BY DEF ChainTypeOK
<1>2. Len(log[h]) \in Nat /\ \A i \in 1..Len(log[h]) : log[h][i] \in Node
  BY <1>1, ElementOfSeq
<1>. QED BY <1>1, <1>2, NodeAssumption DEF PlacesInv

\* When no list is being changed, every node of a log is allocated and linked to
\* the next, and nothing else is allocated.
Settled ==
  /\ \A n \in Allocated : \E h \in heads : \E i \in 1..Len(log[h]) : log[h][i] = n
  /\ \A h \in heads : \A i \in 1..Len(log[h]) :
       log[h][i] \in Allocated /\ nextBuilder[log[h][i]] = Succ(log[h], i)

\* Outside appends and destructions the links are those of the logs ...
LEMMA WhenSettled ==
  ASSUME op \in {"idle", "build"}, LinksInv
  PROVE  Chains = heads /\ Settled
BY DEF Chains, LinksInv, Freed, Unlinked, Settled

\* ... and that is all there is to show about them.
LEMMA Settling ==
  ASSUME op' \in {"idle", "build"}, Settled'
  PROVE  Chains' = heads' /\ LinksInv'
BY DEF Chains, LinksInv, Freed, Unlinked, Settled

-----------------------------------------------------------------------------
\* PurgMemBuilderCreate adds a chain of one node.
LEMMA Creates ==
  ASSUME ChainInv, PurgMemBuilderCreate
  PROVE  ChainInv'
<1>1. op = "idle" /\ UNCHANGED <<op, top, curr, newcomer, ran, ok>>
  BY DEF PurgMemBuilderCreate, callVars
<1>2. PICK n \in Node : Malloc(n) /\ heads' = heads \cup {n} /\ log' = With(log, n, <<n>>)
  BY DEF PurgMemBuilderCreate
<1>3. Chains = heads /\ Settled /\ Chains' = heads'
  BY <1>1, WhenSettled DEF ChainInv, Chains
<1>4. /\ n \notin Allocated /\ Allocated' = Allocated \cup {n} /\ nextBuilder'[n] = NULL
      /\ \A m \in Allocated : nextBuilder'[m] = nextBuilder[m]
  BY <1>2 DEF Malloc, Allocated, With
<1>5. \A h \in heads : /\ h \in Allocated /\ log[h] \in Seq(Node) /\ Len(log[h]) \in Nat
                       /\ 0 < Len(log[h]) /\ log[h][1] = h
  BY <1>3, LogFacts DEF ChainInv, Settled
<1>6. /\ n \notin heads /\ DOMAIN log' = heads' /\ log'[n] = <<n>>
      /\ \A h \in heads : log'[h] = log[h]
  <2>1. n \notin heads
    BY <1>4, <1>5
  <2>2. DOMAIN log = heads
    BY <1>3 DEF ChainInv, ChainTypeOK
  <2>. QED BY <1>2, <2>1, <2>2 DEF With
<1>7. <<n>> \in Seq(Node) /\ Len(<<n>>) = 1 /\ <<n>>[1] = n
  OBVIOUS
<1>8. log' \in [heads' -> Seq(Node)]
  <2>1. log' = [h \in heads' |-> log'[h]]
    BY <1>2, <1>6 DEF With
  <2>. QED BY <1>2, <1>5, <1>6, <1>7, <2>1
<1>9. ChainTypeOK'
  BY <1>1, <1>2, <1>3, <1>8 DEF ChainInv, ChainTypeOK
<1>10. PlacesInv'
  <2>1. \A h \in Chains' : 0 < Len(log'[h]) /\ log'[h][1] = h
    BY <1>2, <1>3, <1>5, <1>6, <1>7
  <2>2. \A h \in heads : \A i \in 1..Len(log[h]) : log[h][i] # n
    BY <1>3, <1>4 DEF Settled
  <2>3. ASSUME NEW h \in heads', NEW k \in heads', NEW i \in 1..Len(log'[h]),
               NEW j \in 1..Len(log'[k]), log'[h][i] = log'[k][j]
        PROVE  h = k /\ i = j
    <3>1. CASE h = n /\ k = n
      BY <1>6, <1>7, <2>3, <3>1
    <3>2. CASE h # n /\ k # n
      BY <1>2, <1>3, <1>6, <2>3, <3>2 DEF ChainInv, PlacesInv
    <3>3. CASE h = n /\ k # n
      BY <1>2, <1>6, <1>7, <2>2, <2>3, <3>3
    <3>4. CASE h # n /\ k = n
      BY <1>2, <1>6, <1>7, <2>2, <2>3, <3>4
    <3>. QED BY <3>1, <3>2, <3>3, <3>4
  <2>. QED BY <1>3, <2>1, <2>3 DEF PlacesInv
<1>11. LinksInv'
  <2>1. ASSUME NEW m \in Allocated'
        PROVE  \E h \in heads' : \E i \in 1..Len(log'[h]) : log'[h][i] = m
    <3>1. CASE m = n
      BY <1>2, <1>6, <1>7, <3>1
    <3>2. CASE m \in Allocated
      BY <1>2, <1>3, <1>6, <3>2 DEF Settled
    <3>. QED BY <1>4, <3>1, <3>2
  <2>2. ASSUME NEW h \in heads', NEW i \in 1..Len(log'[h])
        PROVE  log'[h][i] \in Allocated' /\ nextBuilder'[log'[h][i]] = Succ(log'[h], i)
    <3>1. CASE h = n
      BY <1>4, <1>6, <1>7, <3>1 DEF Succ
    <3>2. CASE h \in heads
      <4>1. /\ i \in 1..Len(log[h]) /\ log[h][i] \in Allocated
            /\ nextBuilder[log[h][i]] = Succ(log[h], i)
        BY <1>3, <1>6, <3>2 DEF Settled
      <4>. QED BY <1>4, <1>6, <3>2, <4>1
    <3>. QED BY <1>2, <3>1, <3>2
  <2>3. Settled'
    BY <2>1, <2>2 DEF Settled, Succ
  <2>. QED BY <1>1, <2>3, Settling
<1>12. CallInv' /\ (op' # "build")
  BY <1>1 DEF CallInv
<1>. QED BY <1>9, <1>10, <1>11, <1>12 DEF ChainInv

\* Both appends: the list t is to follow the list of h.  The lists are disjoint,
\* and together they hold what is allocated, linked in their order.
Joins(h, t) ==
  /\ h \in heads' /\ heads' \subseteq heads
  /\ t \in Seq(Node) /\ 0 < Len(t) /\ t[1] = newcomer'
  /\ log' = [g \in heads' |-> IF g = h THEN log[h] \o t ELSE log[g]]
  /\ op' = "append" /\ top' = h /\ curr' = h
Disjoint(t) ==
  /\ \A i, j \in 1..Len(t) : t[i] = t[j] => i = j
  /\ \A g \in heads' : \A i \in 1..Len(log[g]), j \in 1..Len(t) : log[g][i] # t[j]
Held(t) ==
  \A m \in Allocated' :
    \/ \E g \in heads' : \E i \in 1..Len(log[g]) : log[g][i] = m
    \/ \E i \in 1..Len(t) : t[i] = m
Linked(t) ==
  /\ \A g \in heads' : \A i \in 1..Len(log[g]) :
       log[g][i] \in Allocated' /\ nextBuilder'[log[g][i]] = Succ(log[g], i)
  /\ \A i \in 1..Len(t) : t[i] \in Allocated' /\ nextBuilder'[t[i]] = Succ(t, i)

\* An append to h of the chain t, a fresh node or a chain the client gives up, logs
\* it behind log[h] before any link is set.
LEMMA Joining ==
  ASSUME ChainTypeOK, PlacesInv, op = "idle", NEW h, NEW t,
         Joins(h, t), Disjoint(t), Held(t), Linked(t)
  PROVE  ChainInv'
<1>. DEFINE s == log[h]  L == Len(s)  M == Len(t)
<1>1. /\ h \in heads' /\ heads' \subseteq heads /\ Chains = heads /\ Chains' = heads'
      /\ t \in Seq(Node) /\ 0 < M /\ t[1] = newcomer'
  BY DEF Joins, Chains
<1>2. /\ s \in Seq(Node) /\ L \in Nat /\ 0 < L /\ s[1] = h
      /\ \A i \in 1..L : s[i] \in Node /\ s[i] # NULL
  BY <1>1, LogFacts
<1>3. M \in Nat /\ \A i \in 1..M : t[i] \in Node /\ t[i] # NULL
  BY <1>1, ElementOfSeq, NodeAssumption
<1>4. /\ log'[h] \in Seq(Node) /\ Len(log'[h]) = L + M
      /\ \A i \in 1..L : i \in 1..(L + M) /\ log'[h][i] = s[i]
      /\ \A i \in 1..M : L + i \in 1..(L + M) /\ log'[h][L + i] = t[i]
  <2>1. log'[h] = s \o t
    BY <1>1 DEF Joins
  <2>2. /\ s \o t \in Seq(Node) /\ Len(s \o t) = L + M
        /\ \A i \in 1..(L + M) : (s \o t)[i] = IF i <= L THEN s[i] ELSE t[i - L]
    BY <1>1, <1>2, ConcatProperties
  <2>3. \A i \in 1..L : i \in 1..(L + M) /\ i <= L
    BY <1>2, <1>3
  <2>4. \A i \in 1..M : L + i \in 1..(L + M) /\ ~(L + i <= L) /\ L + i - L = i
    BY <1>2, <1>3
  <2>. QED BY <2>1, <2>2, <2>3, <2>4
<1>5. \A g \in heads' \ {h} : log'[g] = log[g] /\ log[g] \in Seq(Node)
  BY <1>1 DEF ChainTypeOK, Joins
<1>. HIDE DEF L, M
<1>10. \A i \in 1..(L + M) : i <= L => i \in 1..L
  BY <1>2
<1>11. \A i \in 1..(L + M) : i > L => i - L \in 1..M /\ i = L + (i - L)
  BY <1>2, <1>3
<1>12. \A i \in 1..(L + M) : i > L => i - L \in 1..M /\ log'[h][i] = t[i - L]
  BY <1>4, <1>11
<1>6. ChainTypeOK'
  <2>1. log' \in [heads' -> Seq(Node)]
    BY <1>4, <1>5 DEF Joins
  <2>. QED BY <1>1, <2>1 DEF ChainTypeOK, Joins
<1>7. PlacesInv'
  <2>1. \A g \in heads' : 0 < Len(log'[g]) /\ log'[g][1] = g
    BY <1>1, <1>2, <1>3, <1>4, <1>5 DEF PlacesInv
  <2>2. ASSUME NEW i \in 1..Len(log'[h]), NEW j \in 1..Len(log'[h]), log'[h][i] = log'[h][j]
        PROVE  i = j
    <3>1. CASE i <= L /\ j <= L
      <4>1. i \in 1..L /\ j \in 1..L /\ s[i] = s[j]
        BY <1>4, <1>10, <2>2, <3>1
      <4>. QED BY <1>1, <4>1 DEF PlacesInv, L
    <3>2. CASE i > L /\ j > L
      <4>1. i - L \in 1..M /\ j - L \in 1..M /\ t[i - L] = t[j - L]
        BY <1>4, <1>12, <2>2, <3>2
      <4>2. i - L = j - L
        BY <4>1 DEF Disjoint, M
      <4>. QED BY <1>2, <1>4, <4>2
    <3>3. CASE i <= L /\ j > L
      <4>1. i \in 1..L /\ j - L \in 1..M /\ s[i] = t[j - L]
        BY <1>4, <1>10, <1>12, <2>2, <3>3
      <4>. QED BY <1>1, <4>1 DEF Disjoint, L, M
    <3>4. CASE i > L /\ j <= L
      <4>1. j \in 1..L /\ i - L \in 1..M /\ s[j] = t[i - L]
        BY <1>4, <1>10, <1>12, <2>2, <3>4
      <4>. QED BY <1>1, <4>1 DEF Disjoint, L, M
    <3>. QED BY <1>2, <1>4, <3>1, <3>2, <3>3, <3>4
  <2>3. ASSUME NEW g \in heads' \ {h}, NEW i \in 1..Len(log[g]), NEW j \in 1..Len(log'[h])
        PROVE  log[g][i] # log'[h][j]
    <3>1. CASE j <= L
      <4>1. j \in 1..L /\ log'[h][j] = s[j]
        BY <1>4, <1>10, <3>1
      <4>. QED BY <1>1, <4>1 DEF PlacesInv, L
    <3>2. CASE j > L
      <4>1. j - L \in 1..M /\ log'[h][j] = t[j - L]
        BY <1>4, <1>12, <3>2
      <4>. QED BY <1>1, <4>1 DEF Disjoint, M
    <3>. QED BY <1>2, <1>4, <3>1, <3>2
  <2>4. ASSUME NEW g \in heads', NEW k \in heads', NEW i \in 1..Len(log'[g]),
               NEW j \in 1..Len(log'[k]), log'[g][i] = log'[k][j]
        PROVE  g = k /\ i = j
    <3>1. CASE g = h /\ k = h
      BY <2>2, <2>4, <3>1
    <3>2. CASE g # h /\ k = h
      BY <1>5, <2>3, <2>4, <3>2
    <3>3. CASE g = h /\ k # h
      BY <1>5, <2>3, <2>4, <3>3
    <3>4. CASE g # h /\ k # h
      <4>1. g \in Chains /\ k \in Chains /\ log'[g] = log[g] /\ log'[k] = log[k]
        BY <1>1, <1>5, <3>4
      <4>. QED BY <2>4, <4>1 DEF PlacesInv
    <3>. QED BY <3>1, <3>2, <3>3, <3>4
  <2>. QED BY <1>1, <2>1, <2>4 DEF PlacesInv
<1>8. LinksInv'
  <2>1. ASSUME NEW m \in Allocated'
        PROVE  \E g \in heads' : \E i \in 1..Len(log'[g]) : log'[g][i] = m
    <3>1. CASE \E g \in heads' : \E i \in 1..Len(log[g]) : log[g][i] = m
      <4>1. PICK g \in heads' : \E i \in 1..Len(log[g]) : log[g][i] = m
        BY <3>1
      <4>2. CASE g = h
        BY <1>4, <4>1, <4>2 DEF L
      <4>3. CASE g # h
        BY <1>5, <4>1, <4>3
      <4>. QED BY <4>2, <4>3
    <3>2. CASE \E i \in 1..M : t[i] = m
      <4>1. PICK i \in 1..M : t[i] = m
        BY <3>2
      <4>. QED BY <1>1, <1>4, <4>1
    <3>. QED BY <3>1, <3>2 DEF Held, M
  <2>2. ASSUME NEW i \in 1..L, i < L
        PROVE  Succ(log'[h], i) # newcomer' /\ Succ(log'[h], i) = Succ(s, i)
    <3>1. i + 1 \in 1..L /\ i < L + M
      BY <1>2, <1>3, <2>2
    <3>2. Succ(log'[h], i) = s[i + 1]
      BY <1>4, <3>1 DEF Succ
    <3>3. Succ(s, i) = s[i + 1]
      BY <2>2 DEF Succ, L
    <3>4. s[i + 1] # newcomer'
      <4>1. 1 \in 1..M
        BY <1>1, <1>3
      <4>. QED BY <1>1, <3>1, <4>1 DEF Disjoint, L, M
    <3>. QED BY <3>2, <3>3, <3>4
  <2>3. Succ(log'[h], L) = newcomer' /\ Succ(s, L) = NULL
    <3>1. 1 \in 1..M /\ L < L + M
      BY <1>1, <1>2, <1>3
    <3>2. Succ(log'[h], L) = newcomer'
      BY <1>1, <1>4, <3>1 DEF Succ
    <3>3. Succ(s, L) = NULL
      BY <1>2 DEF Succ, L
    <3>. QED BY <3>2, <3>3
  <2>4. ASSUME NEW i \in 1..M
        PROVE  Succ(log'[h], L + i) # newcomer' /\ Succ(log'[h], L + i) = Succ(t, i)
    <3>1. CASE i < M
      <4>1. i + 1 \in 1..M /\ L + i < L + M /\ (L + i) + 1 = L + (i + 1) /\ i + 1 # 1 /\ 1 \in 1..M
        BY <1>2, <1>3, <3>1
      <4>2. Succ(log'[h], L + i) = t[i + 1]
        BY <1>4, <4>1 DEF Succ
      <4>3. Succ(t, i) = t[i + 1]
        BY <3>1 DEF Succ, M
      <4>4. t[i + 1] # t[1]
        BY <4>1 DEF Disjoint, M
      <4>. QED BY <1>1, <4>2, <4>3, <4>4
    <3>2. CASE i = M
      <4>1. Succ(log'[h], L + i) = NULL /\ Succ(t, i) = NULL
        BY <1>2, <1>3, <1>4, <3>2 DEF Succ, M
      <4>2. newcomer' # NULL
        BY <1>1, <1>3
      <4>. QED BY <4>1, <4>2
    <3>. QED BY <1>3, <3>1, <3>2
  <2>5. ASSUME NEW g \in heads', NEW i \in 1..Len(log'[g])
        PROVE  /\ log'[g][i] \in Allocated'
               /\ nextBuilder'[log'[g][i]] =
                    IF g = h /\ Succ(log'[g], i) = newcomer' THEN NULL ELSE Succ(log'[g], i)
    <3>1. CASE g # h
      BY <1>5, <3>1 DEF Linked
    <3>2. CASE g = h /\ i <= L
      <4>1. i \in 1..L /\ log'[h][i] = s[i] /\ (i < L \/ i = L)
        BY <1>2, <1>4, <1>10, <3>2
      <4>2. s[i] \in Allocated' /\ nextBuilder'[s[i]] = Succ(s, i)
        BY <1>1, <4>1 DEF Linked, L
      <4>3. CASE i < L
        BY <2>2, <3>2, <4>1, <4>2, <4>3
      <4>4. CASE i = L
        BY <2>3, <3>2, <4>1, <4>2, <4>4
      <4>. QED BY <4>1, <4>3, <4>4
    <3>3. CASE g = h /\ i > L
      <4>1. i - L \in 1..M /\ log'[h][i] = t[i - L] /\ i = L + (i - L)
        BY <1>4, <1>11, <1>12, <3>3
      <4>2. Succ(log'[h], L + (i - L)) # newcomer' /\ Succ(log'[h], L + (i - L)) = Succ(t, i - L)
        BY <2>4, <4>1, Zenon
      <4>3. t[i - L] \in Allocated' /\ nextBuilder'[t[i - L]] = Succ(t, i - L)
        BY <4>1 DEF Linked, M
      <4>. QED BY <3>3, <4>1, <4>2, <4>3
    <3>. QED BY <1>2, <1>4, <3>1, <3>2, <3>3
  <2>6. \A g, i : ~Freed(g, i)' /\ (Unlinked(g, i)' <=> g = h /\ Succ(log'[g], i) = newcomer')
    BY DEF Joins, Freed, Unlinked, Succ
  <2>. HIDE DEF s
  <2>7. \A m \in Allocated' : \E g \in Chains' : \E i \in 1..Len(log'[g]) : log'[g][i] = m /\ ~Freed(g, i)'
    BY <1>1, <2>1, <2>6
  <2>8. \A g \in Chains' : \A i \in 1..Len(log'[g]) :
          /\ log'[g][i] \in Allocated'
          /\ nextBuilder'[log'[g][i]] = IF Unlinked(g, i)' THEN NULL ELSE Succ(log'[g], i)
    BY <1>1, <2>5, <2>6
  <2>. QED BY <2>7, <2>8 DEF LinksInv, Succ
<1>9. CallInv' /\ op' # "build"
  <2>1. 1 \in 1..(L + M) /\ L + 1 \in 1..(L + M) /\ 1 < L + 1
    BY <1>1, <1>2, <1>3
  <2>2. log'[h][1] = h /\ log'[h][L + 1] = newcomer' /\ newcomer' \in Node
    <3>1. 1 \in 1..L /\ 1 \in 1..M
      BY <1>1, <1>2, <1>3
    <3>. QED BY <1>1, <1>2, <1>3, <1>4, <3>1
  <2>3. op' = "append" /\ top' = h /\ curr' = h
    BY DEF Joins
  <2>4. \E i, j \in 1..Len(log'[h]) : i < j /\ log'[h][i] = h /\ log'[h][j] = newcomer'
    BY <1>4, <2>1, <2>2
  <2>. QED BY <2>2, <2>3, <2>4 DEF CallInv
<1>. QED BY <1>6, <1>7, <1>8, <1>9 DEF ChainInv

\* PurgMemBuilderAppendFunc appends a node that it has just made.
LEMMA AppendsFunc ==
  ASSUME ChainInv, NEW h \in heads, PurgMemBuilderAppendFunc(h)
  PROVE  ChainInv'
<1>1. op = "idle" /\ UNCHANGED heads /\ Chains = heads /\ Settled
  BY WhenSettled DEF PurgMemBuilderAppendFunc, ChainInv
<1>2. PICK n \in Node : /\ Malloc(n) /\ Call("append", h, n)
                        /\ log' = [log EXCEPT ![h] = Append(@, n)]
  BY DEF PurgMemBuilderAppendFunc
<1>3. /\ n \notin Allocated /\ Allocated' = Allocated \cup {n} /\ nextBuilder'[n] = NULL
      /\ \A m \in Allocated : nextBuilder'[m] = nextBuilder[m]
  BY <1>2 DEF Malloc, Allocated, With
<1>4. <<n>> \in Seq(Node) /\ Len(<<n>>) = 1 /\ <<n>>[1] = n /\ Succ(<<n>>, 1) = NULL
  BY DEF Succ
<1>5. log \in [heads -> Seq(Node)]
  BY <1>1 DEF ChainInv, ChainTypeOK
<1>6. Append(log[h], n) = log[h] \o <<n>>
  BY <1>5, AppendIsConcat
<1>7. Joins(h, <<n>>)
  <2>1. log' = [g \in heads' |-> IF g = h THEN log[h] \o <<n>> ELSE log[g]]
    BY <1>1, <1>2, <1>5, <1>6
  <2>2. op' = "append" /\ top' = h /\ curr' = h /\ newcomer' = n
    BY <1>2 DEF Call
  <2>. QED BY <1>1, <1>4, <2>1, <2>2 DEF Joins
<1>8. Disjoint(<<n>>)
  BY <1>1, <1>3, <1>4 DEF Disjoint, Settled
<1>9. Held(<<n>>)
  <2>1. ASSUME NEW m \in Allocated
        PROVE  \E g \in heads' : \E i \in 1..Len(log[g]) : log[g][i] = m
    BY <1>1 DEF Settled
  <2>2. \E i \in 1..Len(<<n>>) : <<n>>[i] = n
    BY <1>4
  <2>3. \A m \in Allocated' : m \in Allocated \/ m = n
    BY <1>3
  <2>. QED BY <2>1, <2>2, <2>3, Zenon DEF Held
<1>10. Linked(<<n>>)
  BY <1>1, <1>3, <1>4 DEF Linked, Settled
<1>. QED BY <1>1, <1>7, <1>8, <1>9, <1>10, Joining DEF ChainInv

\* PurgMemBuilderAppendBuilder appends a whole chain, which ceases to be one.
LEMMA AppendsBuilder ==
  ASSUME ChainInv, NEW h \in heads, NEW new \in heads, PurgMemBuilderAppendBuilder(h, new)
  PROVE  ChainInv'
<1>1. /\ op = "idle" /\ h # new /\ heads' = heads \ {new} /\ UNCHANGED nextBuilder
      /\ Chains = heads /\ Settled
  BY WhenSettled DEF PurgMemBuilderAppendBuilder, ChainInv
<1>2. log \in [heads -> Seq(Node)] /\ 0 < Len(log[new]) /\ log[new][1] = new
  BY <1>1 DEF ChainInv, ChainTypeOK, PlacesInv
<1>3. log' = [g \in heads' |-> IF g = h THEN log[h] \o log[new] ELSE log[g]]
  BY <1>1, <1>2 DEF PurgMemBuilderAppendBuilder, Without
<1>4. Joins(h, log[new])
  BY <1>1, <1>2, <1>3 DEF Joins, PurgMemBuilderAppendBuilder, Call
<1>5. Disjoint(log[new])
  BY <1>1 DEF Disjoint, ChainInv, PlacesInv
<1>6. Held(log[new])
  <2>1. ASSUME NEW m \in Allocated'
        PROVE  \/ \E g \in heads' : \E i \in 1..Len(log[g]) : log[g][i] = m
               \/ \E i \in 1..Len(log[new]) : log[new][i] = m
    <3>1. PICK g \in heads : \E i \in 1..Len(log[g]) : log[g][i] = m
      BY <1>1 DEF Settled, Allocated
    <3>. QED BY <1>1, <3>1
  <2>. QED BY <2>1, Zenon DEF Held
<1>7. Linked(log[new])
  BY <1>1 DEF Linked, Settled, Allocated
<1>. QED BY <1>1, <1>4, <1>5, <1>6, <1>7, Joining DEF ChainInv

\* PurgMemBuilderBuildAll begins at the head, with nothing run.
LEMMA BuildStarts ==
  ASSUME ChainInv, NEW h \in heads, PurgMemBuilderBuildAll(h)
  PROVE  ChainInv'
<1>1. /\ op = "idle" /\ op' = "build" /\ top' = h /\ curr' = h /\ ran' = <<>> /\ ok' = FALSE
      /\ UNCHANGED <<nextBuilder, heads, log>>
  BY DEF PurgMemBuilderBuildAll, Call, heapVars
<1>2. Chains = heads /\ Chains' = heads /\ Settled
  BY <1>1, WhenSettled DEF ChainInv, Chains
<1>3. ChainTypeOK' /\ PlacesInv'
  BY <1>1, <1>2 DEF ChainInv, ChainTypeOK, PlacesInv
<1>4. Settled'
  BY <1>1, <1>2 DEF Settled, Allocated
<1>5. LinksInv'
  BY <1>1, <1>4, Settling
<1>6. CallInv'
  <2>1. <<>> \in Seq(Node) /\ Len(<<>>) = 0
    OBVIOUS
  <2>2. 0 < Len(log[h]) /\ log[h][1] = h
    BY <1>2 DEF ChainInv, PlacesInv
  <2>. QED BY <1>1, <2>1, <2>2 DEF CallInv
<1>. QED BY <1>1, <1>3, <1>5, <1>6 DEF ChainInv

\* PurgMemBuilderDestroy takes a chain from the client, with nothing freed.
LEMMA DestroyStarts ==
  ASSUME ChainInv, NEW h \in heads, PurgMemBuilderDestroy(h)
  PROVE  ChainInv'
<1>1. /\ op = "idle" /\ op' = "destroy" /\ top' = h /\ curr' = h /\ heads' = heads \ {h}
      /\ UNCHANGED <<nextBuilder, log>>
  BY DEF PurgMemBuilderDestroy, Call
<1>2. Chains = heads /\ Chains' = heads /\ Settled
  BY <1>1, WhenSettled DEF ChainInv, Chains
<1>3. ChainTypeOK'
  BY <1>1, <1>2 DEF ChainInv, ChainTypeOK
<1>4. PlacesInv'
  BY <1>1, <1>2 DEF ChainInv, PlacesInv
<1>5. 1 \in 1..Len(log[h]) /\ log[h][1] = h
  BY <1>2, LogFacts DEF ChainInv
<1>6. \A g \in heads : \A i \in 1..Len(log[g]) : ~Freed(g, i)' /\ ~Unlinked(g, i)'
  BY <1>1, <1>5 DEF Freed, Unlinked
<1>7. LinksInv'
  BY <1>1, <1>2, <1>6 DEF LinksInv, Settled, Allocated, Succ
<1>8. CallInv'
  BY <1>1, <1>5 DEF CallInv
<1>. QED BY <1>1, <1>3, <1>4, <1>7, <1>8 DEF ChainInv

-----------------------------------------------------------------------------
\* AppendBuilder goes one node further, or links the newcomer behind the last.
LEMMA Links ==
  ASSUME ChainInv, AppendBuilder
  PROVE  ChainInv'
<1>. DEFINE s == log[top]
<1>1. op = "append" /\ UNCHANGED <<heads, log>> /\ top \in heads /\ Chains = heads /\ Chains' = heads
  BY DEF AppendBuilder, ChainInv, ChainTypeOK, Chains, Return
<1>2. PICK i, j \in 1..Len(s) : i < j /\ s[i] = curr /\ s[j] = newcomer
  BY <1>1 DEF ChainInv, CallInv
<1>3. /\ Len(s) \in Nat /\ \A k \in 1..Len(s) : s[k] \in Node /\ s[k] # NULL
      /\ \A k, m \in 1..Len(s) : s[k] = s[m] => k = m
  BY <1>1, LogFacts DEF ChainInv, PlacesInv
<1>4. i + 1 \in 1..Len(s) /\ Succ(s, i) = s[i + 1]
  BY <1>2, <1>3 DEF Succ
<1>5. \A g \in heads : \A k \in 1..Len(log[g]) :
        /\ log[g][k] \in Allocated
        /\ nextBuilder[log[g][k]] = IF Unlinked(g, k) THEN NULL ELSE Succ(log[g], k)
  BY <1>1 DEF ChainInv, LinksInv, Freed
<1>6. \A n \in Allocated : \E g \in heads : \E k \in 1..Len(log[g]) : log[g][k] = n
  BY <1>1 DEF ChainInv, LinksInv
<1>7. CASE nextBuilder[curr] = NULL
  <2>1. Unlinked(top, i)
    BY <1>1, <1>2, <1>3, <1>4, <1>5, <1>7
  <2>2. s[i + 1] = newcomer
    BY <1>4, <2>1 DEF Unlinked
  <2>3. op' = "idle" /\ top' = NULL /\ nextBuilder' = [nextBuilder EXCEPT ![curr] = newcomer]
    BY <1>7 DEF AppendBuilder, Return
  <2>4. ChainTypeOK' /\ PlacesInv'
    BY <1>1, <2>3 DEF ChainInv, ChainTypeOK, PlacesInv
  <2>5. Allocated' = Allocated /\ curr \in Allocated
    BY <1>1, <1>2, <1>5, <2>3 DEF Allocated
  <2>6. ASSUME NEW g \in heads, NEW k \in 1..Len(log[g])
        PROVE  nextBuilder'[log[g][k]] = Succ(log[g], k)
    <3>1. CASE g = top /\ k = i
      BY <1>2, <1>4, <2>2, <2>3, <2>5, <3>1 DEF Allocated
    <3>2. CASE ~(g = top /\ k = i)
      <4>1. log[g][k] # curr
        BY <1>1, <1>2, <3>2 DEF ChainInv, PlacesInv
      <4>2. ~Unlinked(g, k)
        <5>1. ASSUME g = top, Succ(s, k) = newcomer
              PROVE  k = i
          <6>1. newcomer # NULL
            BY <1>2, <1>3
          <6>2. k < Len(s) /\ s[k + 1] = s[i + 1]
            BY <2>2, <5>1, <6>1 DEF Succ
          <6>3. k \in Int /\ i \in Int /\ k + 1 \in 1..Len(s)
            BY <1>3, <5>1, <6>2
          <6>4. k + 1 = i + 1
            BY <1>3, <1>4, <6>2, <6>3
          <6>. QED BY <6>3, <6>4
        <5>. QED BY <3>2, <5>1 DEF Unlinked
      <4>3. log[g][k] \in Allocated /\ nextBuilder[log[g][k]] = Succ(log[g], k)
        BY <1>5, <4>2
      <4>. QED BY <2>3, <4>1, <4>3 DEF Allocated
    <3>. QED BY <3>1, <3>2
  <2>7. Settled'
    BY <1>1, <1>5, <1>6, <2>5, <2>6 DEF Settled, Succ
  <2>8. LinksInv'
    BY <2>3, <2>7, Settling
  <2>9. CallInv'
    BY <2>3 DEF CallInv
  <2>. QED BY <2>3, <2>4, <2>8, <2>9 DEF ChainInv
<1>8. CASE nextBuilder[curr] # NULL
  <2>1. curr' = nextBuilder[curr] /\ UNCHANGED <<nextBuilder, op, top, newcomer>>
    BY <1>8 DEF AppendBuilder
  <2>2. ~Unlinked(top, i) /\ curr' = s[i + 1]
    BY <1>1, <1>2, <1>4, <1>5, <1>8, <2>1
  <2>3. i + 1 # j
    BY <1>1, <1>2, <1>4, <2>2 DEF Unlinked
  <2>4. ChainTypeOK' /\ PlacesInv'
    BY <1>1, <2>1 DEF ChainInv, ChainTypeOK, PlacesInv
  <2>5. \A g, k : ~Freed(g, k)' /\ (Unlinked(g, k)' <=> Unlinked(g, k))
    BY <1>1, <2>1 DEF Freed, Unlinked, Succ
  <2>6. LinksInv'
    BY <1>1, <1>5, <1>6, <2>1, <2>5 DEF LinksInv, Allocated, Succ
  <2>7. CallInv'
    <3>1. i + 1 < j
      BY <1>2, <1>3, <2>3
    <3>2. newcomer \in Node
      BY <1>2, <1>3
    <3>. QED BY <1>1, <1>2, <1>4, <2>1, <2>2, <3>1, <3>2 DEF CallInv
  <2>. QED BY <1>1, <2>1, <2>4, <2>6, <2>7 DEF ChainInv
<1>. QED BY <1>7, <1>8

\* A builder that succeeds is the next of the log.
LEMMA Builds ==
  ASSUME ChainInv, BuildNode
  PROVE  ChainInv'
<1>. DEFINE s == log[top]  m == Len(ran)
<1>1. /\ op = "build" /\ ran' = Append(ran, curr) /\ ok' = (nextBuilder[curr] = NULL)
      /\ UNCHANGED <<nextBuilder, heads, log>> /\ top \in heads
  BY DEF BuildNode, heapVars, ChainInv, ChainTypeOK
<1>2. Chains = heads /\ Settled
  BY <1>1, WhenSettled DEF ChainInv
<1>3. /\ ran \in Seq(Node) /\ m \in Nat /\ m < Len(s) /\ curr = s[m + 1]
      /\ \A i \in 1..m : ran[i] = s[i]
  BY <1>1 DEF ChainInv, CallInv
<1>4. /\ Len(s) \in Nat /\ \A i \in 1..Len(s) : s[i] \in Node /\ s[i] # NULL
  BY <1>1, <1>2, LogFacts DEF ChainInv
<1>5. m + 1 \in 1..Len(s)
  BY <1>3, <1>4
<1>6. nextBuilder[curr] = Succ(s, m + 1)
  BY <1>1, <1>2, <1>3, <1>5 DEF Settled
<1>7. op' \in {"idle", "build"} /\ Chains' = heads
  BY <1>1 DEF BuildNode, Return, Chains
<1>8. ChainTypeOK' /\ PlacesInv'
  BY <1>1, <1>2, <1>7 DEF ChainInv, ChainTypeOK, PlacesInv, BuildNode, Return
<1>9. LinksInv'
  <2>1. Settled'
    BY <1>1, <1>2 DEF Settled, Allocated
  <2>. QED BY <1>7, <2>1, Settling
<1>10. CASE nextBuilder[curr] = NULL
  <2>1. op' = "idle"
    BY <1>10 DEF BuildNode, Return
  <2>. QED BY <1>8, <1>9, <2>1 DEF ChainInv, CallInv
<1>11. CASE nextBuilder[curr] # NULL
  <2>1. curr' = nextBuilder[curr] /\ UNCHANGED <<op, top>> /\ op' = "build"
    BY <1>1, <1>11 DEF BuildNode
  <2>2. ~ok'
    BY <1>1, <1>11, Zenon
  <2>3. m + 1 < Len(s) /\ curr' = s[m + 2]
    BY <1>3, <1>5, <1>6, <1>11, <2>1 DEF Succ
  <2>4. curr \in Node
    BY <1>3, <1>4, <1>5
  <2>5. /\ ran' \in Seq(Node) /\ Len(ran') = m + 1 /\ ran'[m + 1] = curr
        /\ \A i \in 1..m : ran'[i] = ran[i]
    BY <1>1, <1>3, <2>4, AppendProperties
  <2>6. \A i \in 1..Len(ran') : ran'[i] = s[i]
    <3>1. \A i \in 1..(m + 1) : i \in 1..m \/ i = m + 1
      BY <1>3
    <3>. QED BY <1>3, <2>5, <3>1
  <2>7. CallInv'
    BY <1>1, <1>3, <2>1, <2>3, <2>5, <2>6 DEF CallInv
  <2>. QED BY <1>8, <1>9, <2>2, <2>7 DEF ChainInv
<1>. QED BY <1>10, <1>11

\* A builder that fails ends the walk.
LEMMA BuildFails ==
  ASSUME ChainInv, BuildNodeFails
  PROVE  ChainInv'
<1>1. /\ op = "build" /\ op' = "idle" /\ top' = NULL /\ UNCHANGED <<nextBuilder, heads, log>>
  BY DEF BuildNodeFails, heapVars, Return
<1>2. Chains = heads /\ Chains' = heads /\ Settled
  BY <1>1, WhenSettled DEF ChainInv, Chains
<1>3. ChainTypeOK' /\ PlacesInv'
  BY <1>1, <1>2 DEF ChainInv, ChainTypeOK, PlacesInv
<1>4. Settled'
  BY <1>1, <1>2 DEF Settled, Allocated
<1>5. LinksInv' /\ CallInv'
  BY <1>1, <1>4, Settling DEF CallInv
<1>. QED BY <1>1, <1>3, <1>5 DEF ChainInv

\* A freed node is the first of the chain that was left.
LEMMA Frees ==
  ASSUME ChainInv, FreeNode
  PROVE  ChainInv'
<1>. DEFINE s == log[top]
<1>1. /\ op = "destroy" /\ nextBuilder' = Without(nextBuilder, curr) /\ UNCHANGED heads
      /\ top \in Node \ heads /\ Chains = heads \cup {top}
  BY DEF FreeNode, ChainInv, ChainTypeOK, Chains
<1>2. PICK i \in 1..Len(s) : s[i] = curr
  BY <1>1 DEF ChainInv, CallInv
<1>3. /\ Len(s) \in Nat /\ \A k \in 1..Len(s) : s[k] \in Node /\ s[k] # NULL
      /\ \A k, m \in 1..Len(s) : s[k] = s[m] => k = m
  BY <1>1, LogFacts DEF ChainInv, PlacesInv
<1>4. /\ Allocated' = Allocated \ {curr}
      /\ \A n \in Allocated \ {curr} : nextBuilder'[n] = nextBuilder[n]
  BY <1>1 DEF Without, Allocated
<1>5. \A g \in heads : \A k \in 1..Len(log[g]) :
        /\ log[g][k] \in Allocated /\ log[g][k] # curr
        /\ nextBuilder[log[g][k]] = Succ(log[g], k)
  <2>1. \A g \in heads : \A k : ~Freed(g, k) /\ ~Unlinked(g, k)
    BY <1>1 DEF Freed, Unlinked
  <2>2. \A g \in heads : \A k \in 1..Len(log[g]) : log[g][k] # curr
    BY <1>1, <1>2 DEF ChainInv, PlacesInv
  <2>. QED BY <1>1, <2>1, <2>2 DEF ChainInv, LinksInv
<1>6. \A k \in 1..Len(s) : Freed(top, k) <=> k < i
  <2>1. TAKE k \in 1..Len(s)
  <2>2. ASSUME k < i, NEW j \in 1..k
        PROVE  s[j] # curr
    <3>1. j \in 1..Len(s) /\ j # i
      BY <1>3, <2>2
    <3>. QED BY <1>2, <1>3, <3>1
  <2>3. ASSUME ~(k < i)
        PROVE  i \in 1..k
    BY <1>3, <2>3
  <2>. QED BY <1>1, <1>2, <2>2, <2>3 DEF Freed
<1>7. \A k \in 1..Len(s) : ~(k < i) => s[k] \in Allocated /\ nextBuilder[s[k]] = Succ(s, k)
  BY <1>1, <1>6 DEF ChainInv, LinksInv, Unlinked
<1>8. ASSUME NEW n \in Allocated \ {curr}
      PROVE  \/ \E g \in heads : \E k \in 1..Len(log[g]) : log[g][k] = n
             \/ \E k \in 1..Len(s) : i < k /\ s[k] = n
  <2>1. PICK g \in Chains : \E k \in 1..Len(log[g]) : log[g][k] = n /\ ~Freed(g, k)
    BY DEF ChainInv, LinksInv
  <2>2. CASE g = top
    <3>1. PICK k \in 1..Len(s) : s[k] = n /\ ~(k < i)
      BY <1>6, <2>1, <2>2
    <3>2. k # i
      BY <1>2, <3>1
    <3>. QED BY <1>3, <3>1, <3>2
  <2>. QED BY <1>1, <2>1, <2>2
<1>9. nextBuilder[curr] = Succ(s, i)
  BY <1>2, <1>3, <1>7
<1>10. log \in [heads \cup {top} -> Seq(Node)]
  BY <1>1 DEF ChainInv, ChainTypeOK
<1>11. CASE nextBuilder[curr] = NULL
  <2>1. op' = "idle" /\ top' = NULL /\ log' = Without(log, top) /\ Chains' = heads
    BY <1>1, <1>11 DEF FreeNode, Return, Chains
  <2>2. log' = [g \in heads |-> log[g]]
    BY <1>1, <1>10, <2>1 DEF Without
  <2>3. ChainTypeOK'
    BY <1>1, <1>10, <2>1, <2>2 DEF ChainInv, ChainTypeOK
  <2>4. PlacesInv'
    BY <1>1, <2>1, <2>2 DEF ChainInv, PlacesInv
  <2>5. i = Len(s)
    BY <1>2, <1>3, <1>9, <1>11 DEF Succ
  <2>6. \A n \in Allocated' : \E g \in heads : \E k \in 1..Len(log[g]) : log[g][k] = n
    BY <1>3, <1>4, <1>8, <2>5
  <2>7. Settled'
    BY <1>1, <1>4, <1>5, <2>2, <2>6 DEF Settled, Succ
  <2>8. LinksInv' /\ CallInv'
    BY <2>1, <2>7, Settling DEF CallInv
  <2>. QED BY <2>1, <2>3, <2>4, <2>8 DEF ChainInv
<1>12. CASE nextBuilder[curr] # NULL
  <2>1. curr' = nextBuilder[curr] /\ UNCHANGED <<op, top, log>> /\ Chains' = Chains
    BY <1>1, <1>12 DEF FreeNode, Chains
  <2>2. i + 1 \in 1..Len(s) /\ curr' = s[i + 1]
    BY <1>3, <1>9, <1>12, <2>1 DEF Succ
  <2>3. ChainTypeOK' /\ PlacesInv'
    BY <1>1, <2>1 DEF ChainInv, ChainTypeOK, PlacesInv
  <2>4. CallInv'
    BY <1>1, <2>1, <2>2 DEF CallInv
  <2>5. \A g : g = top => \A k \in 1..Len(s) : Freed(g, k)' <=> k < i + 1
    <3>. SUFFICES ASSUME NEW g, g = top, NEW k \in 1..Len(s)
                  PROVE  Freed(g, k)' <=> k < i + 1
      OBVIOUS
    <3>2. ASSUME k < i + 1, NEW j \in 1..k
          PROVE  s[j] # curr'
      <4>1. j \in 1..Len(s) /\ j # i + 1
        BY <1>3, <3>2
      <4>. QED BY <1>3, <2>2, <4>1
    <3>3. ASSUME ~(k < i + 1)
          PROVE  i + 1 \in 1..k
      BY <1>3, <3>3
    <3>. QED BY <1>1, <2>1, <2>2, <3>2, <3>3 DEF Freed
  <2>6. \A g \in heads : \A k : ~Freed(g, k)'
    BY <1>1, <2>1 DEF Freed
  <2>7. \A g, k : ~Unlinked(g, k)'
    BY <1>1, <2>1 DEF Unlinked
  <2>8. ASSUME NEW n \in Allocated'
        PROVE  \E g \in Chains : \E k \in 1..Len(log[g]) : log[g][k] = n /\ ~Freed(g, k)'
    <3>1. CASE \E g \in heads : \E k \in 1..Len(log[g]) : log[g][k] = n
      BY <1>1, <2>6, <3>1
    <3>2. CASE \E k \in 1..Len(s) : i < k /\ s[k] = n
      <4>1. PICK k \in 1..Len(s) : i < k /\ s[k] = n
        BY <3>2
      <4>2. ~(k < i + 1)
        BY <1>3, <4>1
      <4>3. \A g : g = top => ~Freed(g, k)'
        BY <2>5, <4>1, <4>2
      <4>. QED BY <1>1, <4>1, <4>3
    <3>. QED BY <1>4, <1>8, <3>1, <3>2
  <2>9. ASSUME NEW k \in 1..Len(s), ~(k < i + 1)
        PROVE  s[k] \in Allocated' /\ nextBuilder'[s[k]] = Succ(s, k)
    <3>1. ~(k < i) /\ k # i
      BY <1>3, <2>9
    <3>2. s[k] # curr
      BY <1>2, <1>3, <3>1
    <3>. QED BY <1>4, <1>7, <3>1, <3>2
  <2>10. ASSUME NEW g \in Chains, NEW k \in 1..Len(log[g]), ~Freed(g, k)'
         PROVE  log[g][k] \in Allocated' /\ nextBuilder'[log[g][k]] = Succ(log[g], k)
    <3>1. CASE g = top
      BY <2>5, <2>9, <2>10, <3>1
    <3>2. CASE g \in heads
      BY <1>4, <1>5, <3>2
    <3>. QED BY <1>1, <3>1, <3>2
  <2>11. LinksInv'
    BY <2>1, <2>7, <2>8, <2>10 DEF LinksInv, Succ
  <2>. QED BY <1>1, <2>1, <2>3, <2>4, <2>11 DEF ChainInv
<1>. QED BY <1>11, <1>12

-----------------------------------------------------------------------------
(* ChainInv holds, whatever the clients call: every allocated node has one   *)
(* place in the log of one chain, and its nextBuilder is its successor there, *)
(* up to what the running call has still to do.                              *)
THEOREM ChainInvariant == ChainSpec => []ChainInv
<1>1. ChainInit => ChainInv
  <2>. SUFFICES ASSUME ChainInit
                PROVE  ChainInv
    OBVIOUS
  <2>1. heads = {} /\ op = "idle" /\ top = NULL /\ log = <<>> /\ nextBuilder = <<>> /\ Chains = {}
    BY DEF ChainInit, Chains
  <2>2. log \in [{} -> Seq(Node)] /\ Allocated = {}
    BY <2>1 DEF Allocated
  <2>. QED BY <2>1, <2>2 DEF ChainInv, ChainTypeOK, PlacesInv, LinksInv, CallInv
<1>2. ChainInv /\ [ChainNext]_chainVars => ChainInv'
  <2>. SUFFICES ASSUME ChainInv, [ChainNext]_chainVars
                PROVE  ChainInv'
    OBVIOUS
  <2>1. CASE PurgMemBuilderCreate
    BY <2>1, Creates
  <2>2. CASE \E h \in heads : PurgMemBuilderAppendFunc(h)
    BY <2>2, AppendsFunc
  <2>3. CASE \E h, new \in heads : PurgMemBuilderAppendBuilder(h, new)
    BY <2>3, AppendsBuilder
  <2>4. CASE \E h \in heads : PurgMemBuilderBuildAll(h) \/ PurgMemBuilderDestroy(h)
    BY <2>4, BuildStarts, DestroyStarts
  <2>5. CASE Walk
    BY <2>5, Links, Builds, BuildFails, Frees DEF Walk
  <2>6. CASE UNCHANGED chainVars
    <3>1. UNCHANGED <<nextBuilder, heads, log, op, top, curr, newcomer, ran>> /\ UNCHANGED ok
      BY <2>6 DEF chainVars, heapVars, callVars
    <3>2. Chains' = Chains /\ Allocated' = Allocated
      BY <3>1 DEF Chains, Allocated
    <3>3. ChainTypeOK' /\ PlacesInv' /\ CallInv'
      BY <3>1, <3>2 DEF ChainInv, ChainTypeOK, PlacesInv, CallInv
    <3>4. \A h, i : (Freed(h, i)' <=> Freed(h, i)) /\ (Unlinked(h, i)' <=> Unlinked(h, i))
      BY <3>1 DEF Freed, Unlinked, Succ
    <3>5. LinksInv'
      BY <3>1, <3>2, <3>4 DEF ChainInv, LinksInv, Succ
    <3>6. op' = "build" => ~ok'
      BY <3>1, Zenon DEF ChainInv
    <3>. QED BY <3>3, <3>5, <3>6 DEF ChainInv
  <2>. QED BY <2>1, <2>2, <2>3, <2>4, <2>5, <2>6 DEF ChainNext
<1>. QED BY <1>1, <1>2, PTL DEF ChainSpec

(* Between calls nextBuilder visits exactly what PurgMemBuilderAppendFunc    *)
(* and PurgMemBuilderAppendBuilder have appended, in order, for any number   *)
(* of chains and nodes.                                                      *)
THEOREM ChainIsLogCorrect == ChainSpec => []ChainIsLog
<1>1. ChainInv => ChainIsLog
  <2>. SUFFICES ASSUME ChainInv, NEW h \in heads \ {top}
                PROVE  /\ log[h][1] = h /\ nextBuilder[log[h][Len(log[h])]] = NULL
                       /\ \A i \in 1..Len(log[h]) - 1 : nextBuilder[log[h][i]] = log[h][i + 1]
    BY DEF ChainIsLog
  <2>1. h \in Chains /\ \A i : ~Freed(h, i) /\ ~Unlinked(h, i)
    BY DEF Chains, Freed, Unlinked
  <2>2. \A i \in 1..Len(log[h]) : nextBuilder[log[h][i]] = Succ(log[h], i)
    BY <2>1 DEF ChainInv, LinksInv
  <2>3. Len(log[h]) \in Nat /\ 1 \in 1..Len(log[h]) /\ log[h][1] = h
    BY <2>1, LogFacts DEF ChainInv
  <2>. QED BY <2>2, <2>3 DEF Succ
<1>. QED BY <1>1, ChainInvariant, PTL

(* No builder is in two chains or twice in one, none of a chain is freed,    *)
(* and between calls none is allocated that no client can reach: what        *)
(* PurgMemBuilderDestroy leaves is what the other chains hold.               *)
THEOREM OwnedOnceCorrect == ChainSpec => []OwnedOnce
<1>1. ChainInv => OwnedOnce
  <2>. SUFFICES ASSUME ChainInv
                PROVE  OwnedOnce
    OBVIOUS
  <2>. DEFINE owned == UNION {Range(log[h]) : h \in heads}
  <2>1. \A h \in heads : h \in Chains /\ DOMAIN log[h] = 1..Len(log[h])
    BY LenProperties DEF Chains, ChainInv, ChainTypeOK
  <2>2. \A h \in heads : Range(log[h]) = {log[h][i] : i \in 1..Len(log[h])}
    BY <2>1 DEF Range
  <2>3. \A h \in heads : IsInjective(log[h])
    BY <2>1 DEF ChainInv, PlacesInv, IsInjective
  <2>4. ASSUME NEW h \in heads, NEW k \in heads, h # k
        PROVE  Range(log[h]) \cap Range(log[k]) = {}
    <3>1. \A i \in 1..Len(log[h]), j \in 1..Len(log[k]) : log[h][i] # log[k][j]
      BY <2>1, <2>4 DEF ChainInv, PlacesInv
    <3>2. /\ Range(log[h]) = {log[h][i] : i \in 1..Len(log[h])}
          /\ Range(log[k]) = {log[k][i] : i \in 1..Len(log[k])}
      BY <2>2
    <3>. QED BY <3>1, <3>2
  <2>5. owned \subseteq Allocated
    <3>1. \A h \in heads : \A i : ~Freed(h, i)
      BY DEF Freed, ChainInv, ChainTypeOK
    <3>2. \A h \in heads : \A i \in 1..Len(log[h]) : log[h][i] \in Allocated
      BY <2>1, <3>1 DEF ChainInv, LinksInv
    <3>. QED BY <2>2, <3>2
  <2>6. op = "idle" => Allocated \subseteq owned
    <3>. SUFFICES ASSUME op = "idle", NEW n \in Allocated
                  PROVE  n \in owned
      OBVIOUS
    <3>1. PICK h \in heads : \E i \in 1..Len(log[h]) : log[h][i] = n
      BY WhenSettled DEF ChainInv, Settled
    <3>2. n \in Range(log[h])
      BY <2>2, <3>1
    <3>. QED BY <3>2
  <2>. QED BY <2>3, <2>4, <2>5, <2>6 DEF OwnedOnce
<1>. QED BY <1>1, ChainInvariant, PTL

Starts(r, s) == Len(r) <= Len(s) /\ r = SubSeq(s, 1, Len(r))

(* PurgMemBuilderBuildAll runs the builders in the order of appending, stops *)
(* at the first that fails, and returns true exactly when all have run.      *)
THEOREM BuildsInOrderCorrect == ChainSpec => BuildsInOrder
<1>1. ChainInv /\ [ChainNext]_chainVars =>
        [/\ op = "build" => Starts(ran', log[top])
         /\ op = "build" /\ op' = "idle" => (ok' <=> ran' = log[top])]_chainVars
  <2>. SUFFICES ASSUME ChainInv, ChainNext, op = "build"
                PROVE  /\ Starts(ran', log[top])
                       /\ op' = "idle" => (ok' <=> ran' = log[top])
    OBVIOUS
  <2>. DEFINE s == log[top]  m == Len(ran)
  <2>1. /\ s \in Seq(Node) /\ Len(s) \in Nat /\ ran \in Seq(Node) /\ m \in Nat /\ m < Len(s)
        /\ curr = s[m + 1] /\ \A i \in 1..m : ran[i] = s[i]
    <3>1. top \in Chains
      BY DEF ChainInv, ChainTypeOK, Chains
    <3>. QED BY <3>1, LogFacts DEF ChainInv, CallInv
  <2>2. BuildNode \/ BuildNodeFails
    BY DEF ChainNext, Walk, PurgMemBuilderCreate, PurgMemBuilderAppendFunc,
           PurgMemBuilderAppendBuilder, PurgMemBuilderBuildAll, PurgMemBuilderDestroy,
           AppendBuilder, FreeNode
  <2>3. ASSUME NEW r \in Seq(Node), Len(r) <= Len(s), \A i \in 1..Len(r) : r[i] = s[i]
        PROVE  Starts(r, s) /\ (r = s <=> Len(r) = Len(s))
    <3>1. Len(r) \in Nat
      OBVIOUS
    <3>2. r = SubSeq(s, 1, Len(r))
      BY <2>1, <2>3, <3>1
    <3>3. Len(r) = Len(s) => r = s
      BY <2>1, <2>3, SeqEqual
    <3>. QED BY <2>3, <3>2, <3>3 DEF Starts
  <2>4. CASE BuildNodeFails
    <3>1. ran' = ran /\ (ok' <=> ok)
      BY <2>4 DEF BuildNodeFails
    <3>2. ~ok
      BY DEF ChainInv
    <3>3. Starts(ran, s) /\ ran # s
      BY <2>1, <2>3
    <3>. QED BY <3>1, <3>2, <3>3
  <2>5. CASE BuildNode
    <3>1. ran' = Append(ran, curr) /\ (ok' <=> nextBuilder[curr] = NULL)
      BY <2>5 DEF BuildNode
    <3>2. /\ top \in heads /\ Settled /\ Chains = heads
      BY WhenSettled DEF ChainInv, ChainTypeOK
    <3>3. m + 1 \in 1..Len(s) /\ \A i \in 1..Len(s) : s[i] \in Node /\ s[i] # NULL
      BY <2>1, <3>2, LogFacts DEF ChainInv
    <3>4. nextBuilder[curr] = Succ(s, m + 1)
      BY <2>1, <3>2, <3>3 DEF Settled
    <3>5. nextBuilder[curr] = NULL <=> m + 1 = Len(s)
      BY <2>1, <3>3, <3>4 DEF Succ
    <3>6. /\ ran' \in Seq(Node) /\ Len(ran') = m + 1 /\ ran'[m + 1] = curr
          /\ \A i \in 1..m : ran'[i] = ran[i]
      BY <2>1, <3>1, <3>3, AppendProperties
    <3>7. \A i \in 1..Len(ran') : ran'[i] = s[i]
      <4>1. \A i \in 1..(m + 1) : i \in 1..m \/ i = m + 1
        BY <2>1
      <4>. QED BY <2>1, <3>6, <4>1
    <3>8. Starts(ran', s) /\ (ran' = s <=> m + 1 = Len(s))
      BY <2>1, <2>3, <3>6, <3>7
    <3>. QED BY <3>1, <3>5, <3>8, Zenon
  <2>. QED BY <2>2, <2>4, <2>5
<1>. QED BY <1>1, ChainInvariant, PTL DEF ChainSpec, BuildsInOrder, Starts
===============================================================================
