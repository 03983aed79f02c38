------------------------ MODULE StackNavigatorProofs ------------------------
(***************************************************************************)
(* Proofs about one stack navigator, for any screens, keys and depth.      *)
(* First what each operator of StackRouter makes of a well-formed stack,   *)
(* then the actions of StackNavigator.                                     *)
(***************************************************************************)
EXTENDS StackNavigator, SequenceTheorems, FiniteSetTheorems, TLAPS

-----------------------------------------------------------------------------
(* Where an element that passes a test is.                                 *)

\* A set of indices has a largest one: else adding one would be an injection of
\* the numbers up to its elements into those of them that are not 1.
LEMMA LargestOf ==
    ASSUME NEW n \in Nat, NEW I, I \subseteq 1..n, I # {}
    PROVE  Max(I) \in I
  <1>1. \E i \in I : \A j \in I : i >= j
    <2> SUFFICES ASSUME ~ \E i \in I : \A j \in I : i >= j
                 PROVE  FALSE
      OBVIOUS
    <2> DEFINE U == {k \in 1..n : \E j \in I : j >= k}
               V == U \ {1}
               f == [k \in U |-> k + 1]
    <2>1. IsFiniteSet(U)
      <3>1. IsFiniteSet(1..n)
        BY FS_Interval
      <3>2. U \in SUBSET (1..n)
        OBVIOUS
      <3> HIDE DEF U
      <3> QED BY <3>1, <3>2, FS_Subset
    <2>2. 1 \in U
      <3>1. PICK j \in I : TRUE
        OBVIOUS
      <3>2. j \in 1..n /\ j >= 1 /\ 1 \in 1..n
        OBVIOUS
      <3> QED BY <3>2
    <2>3. f \in [U -> V]
      <3> SUFFICES ASSUME NEW k \in U PROVE k + 1 \in V
        OBVIOUS
      <3>1. PICK j \in I : j >= k
        OBVIOUS
      <3>2. PICK l \in I : ~(j >= l)
        OBVIOUS
      <3>3. j \in 1..n /\ l \in 1..n /\ k \in 1..n
        OBVIOUS
      <3>4. l >= k + 1 /\ k + 1 \in 1..n /\ k + 1 # 1
        BY <3>1, <3>2, <3>3
      <3> QED BY <3>4
    <2>4. \A x, y \in U : f[x] = f[y] => x = y
      OBVIOUS
    <2> HIDE DEF U, f
    <2>5. IsFiniteSet(V) /\ Cardinality(V) = Cardinality(U) - 1
      BY <2>1, <2>2, FS_RemoveElement
    <2>6. Cardinality(V) < Cardinality(U)
      BY <2>1, <2>5, FS_CardinalityType
    <2> HIDE DEF V
    <2>7. \E x, y \in U : x # y /\ f[x] = f[y]
      BY <2>1, <2>3, <2>5, <2>6, FS_PigeonHole
    <2> QED BY <2>4, <2>7
  <1> QED BY <1>1 DEF Max

\* No two routes of the stack have the same key.
Distinct(routes) ==
    \A i, j \in DOMAIN routes : routes[i].key = routes[j].key => i = j

\* What NavOK says of a navigator's state.
StackOK(state) ==
    /\ state.routes \in Seq(Route) /\ state.routes # <<>>
    /\ state = Rehydrated(state.routes)
    /\ Distinct(state.routes)

LEMMA StackFields ==
    ASSUME NEW state, StackOK(state)
    PROVE  /\ state.routes \in Seq(Route)
           /\ DOMAIN state.routes = 1..Len(state.routes)
           /\ Len(state.routes) \in Nat \ {0}
           /\ state.index = Len(state.routes) - 1
           /\ \A i \in 1..Len(state.routes) :
                /\ state.routes[i] \in Route /\ state.routes[i].key \in Key
                /\ state.routes[i].key \in RouteKeys(state)
  <1>1. state.routes \in Seq(Route) /\ state.routes # <<>>
    BY DEF StackOK
  <1>2. /\ DOMAIN state.routes = 1..Len(state.routes)
        /\ Len(state.routes) \in Nat \ {0}
    BY <1>1, EmptySeq, LenProperties
  <1>3. state.index = Len(state.routes) - 1
    BY DEF StackOK, Rehydrated
  <1>4. ASSUME NEW i \in 1..Len(state.routes)
        PROVE  /\ state.routes[i] \in Route /\ state.routes[i].key \in Key
               /\ state.routes[i].key \in RouteKeys(state)
    <2>1. state.routes[i] \in Route
      BY <1>1, ElementOfSeq
    <2>2. state.routes[i] \in ToSet(state.routes)
      BY <1>2 DEF ToSet
    <2> QED BY <2>1, <2>2 DEF Route, RouteKeys
  <1> QED BY <1>1, <1>2, <1>3, <1>4

LEMMA RehydratedOK ==
    ASSUME NEW routes \in Seq(Route), routes # <<>>, Distinct(routes)
    PROVE  StackOK(Rehydrated(routes)) /\ Rehydrated(routes).routes = routes
  BY DEF StackOK, Rehydrated

LEMMA IndexOfKeyIs ==
    ASSUME NEW state, StackOK(state), NEW i \in 1..Len(state.routes)
    PROVE  IndexOfKey(state, state.routes[i].key) = i - 1
  <1> DEFINE key == state.routes[i].key
             I == {j \in 1..Len(state.routes) : state.routes[j].key = key}
  <1>1. I = {i}
    BY StackFields DEF StackOK, Distinct
  <1>2. Min(I) = i
    BY <1>1 DEF Min
  <1>3. SelectInSeq(state.routes, LAMBDA r : r.key = key) = i
    BY <1>1, <1>2 DEF SelectInSeq
  <1> QED BY <1>3, StackFields DEF IndexOfKey

LEMMA IndexOfNoKey ==
    ASSUME NEW state, StackOK(state), NEW key, key \notin RouteKeys(state)
    PROVE  IndexOfKey(state, key) = -1
  <1>1. {j \in 1..Len(state.routes) : state.routes[j].key = key} = {}
    BY StackFields
  <1>2. SelectInSeq(state.routes, LAMBDA r : r.key = key) = 0
    BY <1>1 DEF SelectInSeq
  <1> QED BY <1>2 DEF IndexOfKey

LEMMA IndexOfNameIs ==
    ASSUME NEW state, StackOK(state), NEW name
    PROVE  IndexOfName(state, name) \in -1..(Len(state.routes) - 1)
  <1> DEFINE I == {j \in 1..Len(state.routes) : state.routes[j].name = name}
  <1>1. Len(state.routes) \in Nat \ {0} /\ state.index = Len(state.routes) - 1
    BY StackFields
  <1>2. SelectLastInSeq(state.routes, LAMBDA r : r.name = name) \in 0..Len(state.routes)
    <2>1. CASE I = {}
      BY <1>1, <2>1 DEF SelectLastInSeq
    <2>2. CASE I # {}
      <3>1. Max(I) \in I
        BY <1>1, <2>2, LargestOf
      <3> QED BY <1>1, <2>2, <3>1 DEF SelectLastInSeq
    <2> QED BY <2>1, <2>2
  <1> QED BY <1>1, <1>2 DEF IndexOfName

-----------------------------------------------------------------------------
(* What the router makes of a well-formed stack.                           *)

\* Some of the routes in their order are a stack again.
LEMMA Selected ==
    ASSUME NEW state, StackOK(state),
           NEW routes \in Seq(Route), routes # <<>>,
           NEW from \in [1..Len(routes) -> 1..Len(state.routes)],
           \A i \in 1..Len(routes) : routes[i] = state.routes[from[i]],
           \A i, j \in 1..Len(routes) : from[i] = from[j] => i = j
    PROVE  Distinct(routes) /\ StackOK(Rehydrated(routes))
  <1>1. DOMAIN routes = 1..Len(routes)
    BY LenProperties
  <1>2. \A i, j \in 1..Len(state.routes) :
            state.routes[i].key = state.routes[j].key => i = j
    BY StackFields DEF StackOK, Distinct
  <1>3. Distinct(routes)
    BY <1>1, <1>2 DEF Distinct
  <1> QED BY <1>3, RehydratedOK

LEMMA Prefix ==
    ASSUME NEW state, StackOK(state), NEW n \in 1..Len(state.routes)
    PROVE  /\ StackOK(Rehydrated(SubSeq(state.routes, 1, n)))
           /\ Len(SubSeq(state.routes, 1, n)) = n
           /\ SubSeq(state.routes, 1, n)[1] = state.routes[1]
  <1> DEFINE routes == SubSeq(state.routes, 1, n)
             from == [i \in 1..n |-> i]
  <1>1. /\ routes \in Seq(Route) /\ Len(routes) = n
        /\ \A i \in 1..n : routes[i] = state.routes[i]
    <2>1. n \in Nat /\ 1 <= n /\ n - 1 + 1 = n /\ \A i \in 1..n : 1 + i - 1 = i
      OBVIOUS
    <2>2. \A i \in 1..n : state.routes[i] \in Route
      BY StackFields
    <2> QED BY <2>1, <2>2, SubSeqProperties
  <1>2. routes # <<>>
    BY <1>1, EmptySeq
  <1>3. from \in [1..Len(routes) -> 1..Len(state.routes)]
    BY <1>1, StackFields
  <1> HIDE DEF routes
  <1>4. StackOK(Rehydrated(routes))
    BY <1>1, <1>2, <1>3, Selected
  <1> QED BY <1>1, <1>4 DEF routes

\* A sequence without the elements between k and m.
LEMMA WithoutMiddle ==
    ASSUME NEW S, NEW s \in Seq(S), NEW k \in 1..Len(s), NEW m \in k..Len(s)
    PROVE  LET rest == SubSeq(s, 1, k) \o SubSeq(s, m + 1, Len(s)) IN
           /\ rest \in Seq(S) /\ Len(rest) = k + (Len(s) - m)
           /\ \A i \in 1..Len(rest) : rest[i] = s[IF i <= k THEN i ELSE i - k + m]
  <1> DEFINE len == Len(s)
             below == SubSeq(s, 1, k)
             above == SubSeq(s, m + 1, len)
             rest == below \o above
  <1>1. len \in Nat /\ (\A i \in 1..len : s[i] \in S)
    BY LenProperties, ElementOfSeq
  <1>2. k \in 1..len /\ m \in k..len /\ k \in Nat /\ m \in Nat /\ len - m \in Nat
    BY <1>1
  <1> HIDE DEF len
  <1>3. /\ below \in Seq(S) /\ Len(below) = k
        /\ \A i \in 1..k : below[i] = s[i]
    <2>1. /\ 1 <= k /\ k - 1 + 1 = k
          /\ \A i \in 1..k : 1 + i - 1 = i /\ i \in 1..len
      BY <1>1, <1>2
    <2>2. \A i \in 1..k : s[i] \in S
      BY <1>1, <2>1
    <2> QED BY <1>2, <2>1, <2>2, SubSeqProperties
  <1>4. /\ above \in Seq(S) /\ Len(above) = len - m
        /\ \A i \in 1..(len - m) : above[i] = s[m + i]
    <2> DEFINE a == m + 1
    <2>1. /\ a \in Int /\ len \in Int
          /\ \A i \in a..len : i \in 1..len
          /\ len - a + 1 = len - m
          /\ (~ (a <= len)) => len - m = 0
          /\ \A i \in 1..(len - m) : a + i - 1 = m + i
      BY <1>1, <1>2
    <2>2. above = SubSeq(s, a, len)
      OBVIOUS
    <2> HIDE DEF a, above
    <2>3. \A i \in a..len : s[i] \in S
      BY <1>1, <2>1
    <2>4. /\ SubSeq(s, a, len) \in Seq(S)
          /\ Len(SubSeq(s, a, len)) = IF a <= len THEN len - a + 1 ELSE 0
          /\ \A i \in 1..(len - a + 1) : SubSeq(s, a, len)[i] = s[a + i - 1]
      BY <2>1, <2>3, SubSeqProperties
    <2> QED BY <2>1, <2>2, <2>4
  <1> HIDE DEF below, above
  <1>5. /\ rest \in Seq(S) /\ Len(rest) = k + (len - m)
        /\ \A i \in 1..(k + (len - m)) :
             rest[i] = IF i <= k THEN below[i] ELSE above[i - k]
    <2>1. /\ below \o above \in Seq(S)
          /\ Len(below \o above) = Len(below) + Len(above)
          /\ \A i \in 1..(Len(below) + Len(above)) :
               (below \o above)[i] =
                  IF i <= Len(below) THEN below[i] ELSE above[i - Len(below)]
      BY <1>3, <1>4, ConcatProperties
    <2> QED BY <1>3, <1>4, <2>1
  <1> HIDE DEF rest
  <1>6. ASSUME NEW i \in 1..(k + (len - m))
        PROVE  rest[i] = s[IF i <= k THEN i ELSE i - k + m]
    <2>1. CASE i <= k
      BY <1>2, <1>3, <1>5, <2>1
    <2>2. CASE ~(i <= k)
      <3>1. i - k \in 1..(len - m) /\ m + (i - k) = i - k + m
        BY <1>2, <2>2
      <3> QED BY <1>4, <1>5, <2>2, <3>1
    <2> QED BY <2>1, <2>2
  <1> QED BY <1>5, <1>6 DEF rest, below, above, len

\* The routes of a stack but for the one with the key.
Without(state, key) == {r \in ToSet(state.routes) : r.key # key}

\* POP removes the count routes that end at index, never the bottom one.
LEMMA PopOK ==
    ASSUME NEW state, StackOK(state),
           NEW index \in 0..(Len(state.routes) - 1), NEW count \in Nat \ {0},
           index > 0
    PROVE  LET after == Pop(state, index, count) IN
           /\ StackOK(after)
           /\ after.routes[1] = state.routes[1]
           /\ count = 1 =>
                ToSet(after.routes) = Without(state, state.routes[index + 1].key)
  <1> DEFINE len == Len(state.routes)
             kept == IF index - count + 1 > 1 THEN index - count + 1 ELSE 1
             m == index + 1
             routes == SubSeq(state.routes, 1, kept) \o SubSeq(state.routes, m + 1, len)
             from == [i \in 1..Len(routes) |-> IF i <= kept THEN i ELSE i - kept + m]
  <1>1. /\ len \in Nat \ {0} /\ DOMAIN state.routes = 1..len
        /\ \A i \in 1..len : state.routes[i] \in Route
    BY StackFields
  <1>2. index > 0 /\ index \in Nat /\ index + 1 <= len
    BY <1>1
  <1>3. kept \in 1..index /\ (count = 1 => kept = index)
    BY <1>2
  <1>4. Pop(state, index, count) = Rehydrated(routes)
    <2>1. m + 1 = index + 2
      BY <1>2
    <2> QED BY <1>2, <2>1 DEF Pop
  <1>7. /\ routes \in Seq(Route) /\ Len(routes) = kept + (len - index - 1)
        /\ \A i \in 1..Len(routes) : routes[i] = state.routes[from[i]]
    <2>1. /\ state.routes \in Seq(Route)
          /\ kept \in 1..Len(state.routes) /\ m \in kept..Len(state.routes)
      BY <1>1, <1>2, <1>3, StackFields
    <2>2. len - m = len - index - 1
      BY <1>1
    <2> HIDE DEF kept, m
    <2>3. /\ routes \in Seq(Route) /\ Len(routes) = kept + (len - m)
          /\ \A i \in 1..Len(routes) :
               routes[i] = state.routes[IF i <= kept THEN i ELSE i - kept + m]
      BY <2>1, WithoutMiddle, Zenon
    <2>4. \A i \in 1..Len(routes) : from[i] = IF i <= kept THEN i ELSE i - kept + m
      OBVIOUS
    <2> HIDE DEF routes, from, len
    <2> QED BY <2>2, <2>3, <2>4
  <1> HIDE DEF kept, len
  <1> HIDE DEF routes
  <1>8. /\ from \in [1..Len(routes) -> 1..len]
        /\ \A i \in 1..Len(routes) : routes[i] = state.routes[from[i]]
        /\ \A i, j \in 1..Len(routes) : from[i] = from[j] => i = j
    <2>1. ASSUME NEW i \in 1..Len(routes) PROVE from[i] \in 1..len
      BY <1>1, <1>2, <1>3, <1>7
    <2>2. \A i, j \in 1..Len(routes) : from[i] = from[j] => i = j
      BY <1>2, <1>3
    <2> QED BY <1>7, <2>1, <2>2
  <1>9. routes # <<>> /\ 1 \in 1..Len(routes) /\ from[1] = 1
    BY <1>1, <1>2, <1>3, <1>7, EmptySeq
  <1>10. StackOK(Rehydrated(routes))
    <2>1. from \in [1..Len(routes) -> 1..Len(state.routes)]
      BY <1>8 DEF len
    <2> HIDE DEF from
    <2> QED BY <1>7, <1>8, <1>9, <2>1, Selected
  <1>11. Rehydrated(routes).routes = routes
    BY DEF Rehydrated
  <1>12. routes[1] = state.routes[1]
    BY <1>8, <1>9
  <1>13. ASSUME count = 1
         PROVE  ToSet(routes) = Without(state, state.routes[index + 1].key)
    <2>1. DOMAIN routes = 1..Len(routes)
      BY <1>7, LenProperties
    <2>2. kept = index
      BY <1>3, <1>13
    <2>3. \A i \in 1..len : (state.routes[i].key = state.routes[index + 1].key)
                                => i = index + 1
      BY <1>1, <1>2 DEF StackOK, Distinct
    <2>4. ASSUME NEW i \in 1..Len(routes) PROVE from[i] # index + 1
      BY <1>2, <2>2
    <2>5. ASSUME NEW k \in 1..len, k # index + 1
          PROVE  \E i \in 1..Len(routes) : from[i] = k
      <3>1. CASE k <= index
        <4>1. k \in 1..Len(routes) /\ from[k] = k
          BY <1>1, <1>2, <1>7, <2>2, <3>1
        <4> QED BY <4>1
      <3>2. CASE ~(k <= index)
        <4>1. k \in Int /\ k >= index + 2 /\ k <= len
          BY <1>1, <1>2, <2>5, <3>2
        <4>2. k - 1 \in 1..Len(routes) /\ ~(k - 1 <= kept) /\ k - 1 - kept + m = k
          BY <1>1, <1>2, <1>7, <2>2, <4>1
        <4> QED BY <4>2
      <3> QED BY <3>1, <3>2
    <2> HIDE DEF from
    <2>6. ASSUME NEW r \in ToSet(routes)
          PROVE  r \in ToSet(state.routes) /\ r.key # state.routes[index + 1].key
      <3>1. PICK i \in 1..Len(routes) : r = routes[i]
        BY <2>1 DEF ToSet
      <3>2. from[i] \in 1..len /\ r = state.routes[from[i]] /\ from[i] # index + 1
        BY <1>8, <2>4, <3>1
      <3> QED BY <1>1, <2>3, <3>2 DEF ToSet
    <2>7. ASSUME NEW r \in ToSet(state.routes), r.key # state.routes[index + 1].key
          PROVE  r \in ToSet(routes)
      <3>1. PICK k \in 1..len : r = state.routes[k]
        BY <1>1 DEF ToSet
      <3>2. k # index + 1
        BY <2>7, <3>1
      <3>3. PICK i \in 1..Len(routes) : from[i] = k
        BY <2>5, <3>2
      <3>4. r = routes[i]
        BY <1>8, <3>1, <3>3
      <3> QED BY <2>1, <3>4 DEF ToSet
    <2> QED BY <2>6, <2>7 DEF Without
  <1> QED BY <1>4, <1>10, <1>11, <1>12, <1>13

LEMMA PushOK ==
    ASSUME NEW state, StackOK(state), NEW name \in RouteName,
           NEW key \in Key, key \notin RouteKeys(state)
    PROVE  LET after == Push(state, RouteName, name, key) IN
           StackOK(after) /\ after.routes[1] = state.routes[1]
  <1> DEFINE route == [key |-> key, name |-> name]
             routes == Append(state.routes, route)
  <1>1. route \in Route /\ route.key = key
    BY DEF Route
  <1>2. state.routes \in Seq(Route) /\ Len(state.routes) \in Nat \ {0}
    BY StackFields
  <1> HIDE DEF route
  <1>3. /\ routes \in Seq(Route) /\ routes # <<>>
        /\ Len(routes) = Len(state.routes) + 1
        /\ \A i \in 1..Len(state.routes) : routes[i] = state.routes[i]
        /\ routes[Len(state.routes) + 1] = route
    BY <1>1, <1>2, AppendProperties
  <1>4. DOMAIN routes = 1..(Len(state.routes) + 1)
    BY <1>3, LenProperties
  <1> HIDE DEF routes
  <1>5. Distinct(routes)
    <2> SUFFICES ASSUME NEW i \in 1..(Len(state.routes) + 1),
                        NEW j \in 1..(Len(state.routes) + 1),
                        routes[i].key = routes[j].key
                 PROVE  i = j
      BY <1>4 DEF Distinct
    <2>1. \A k \in 1..(Len(state.routes) + 1) :
              k = Len(state.routes) + 1 \/ k \in 1..Len(state.routes)
      BY <1>2
    <2>2. \A k \in 1..Len(state.routes) : routes[k].key # key
      BY <1>3, StackFields
    <2>3. CASE i \in 1..Len(state.routes) /\ j \in 1..Len(state.routes)
      BY <1>3, <2>3, StackFields DEF StackOK, Distinct
    <2> QED BY <1>1, <1>3, <2>1, <2>2, <2>3
  <1>6. StackOK(Rehydrated(routes)) /\ Rehydrated(routes).routes = routes
    BY <1>3, <1>5, RehydratedOK
  <1>7. Push(state, RouteName, name, key) = Rehydrated(routes)
    BY DEF Push, routes, route
  <1>8. routes[1] = state.routes[1]
    BY <1>2, <1>3
  <1> QED BY <1>6, <1>7, <1>8

LEMMA ReplaceOK ==
    ASSUME NEW state, StackOK(state), NEW name \in RouteName,
           NEW key \in Key, key \notin RouteKeys(state)
    PROVE  LET after == Replace(state, RouteName, state.index, name, key) IN
           /\ StackOK(after)
           /\ \/ after.routes[1] = state.routes[1]
              \/ Len(after.routes) = 1 /\ after.routes[1].key = key
  <1> DEFINE route == [key |-> key, name |-> name]
             len == Len(state.routes)
             routes == [state.routes EXCEPT ![len] = route]
  <1>1. route \in Route /\ route.key = key
    BY DEF Route
  <1>2. /\ state.routes \in Seq(Route) /\ len \in Nat \ {0}
        /\ DOMAIN state.routes = 1..len /\ state.index = len - 1
    BY StackFields
  <1> HIDE DEF route
  <1>3. /\ DOMAIN routes = 1..len /\ routes[len] = route
        /\ \A i \in 1..len : i # len => routes[i] = state.routes[i]
    BY <1>2
  <1>4. routes \in Seq(Route) /\ Len(routes) = len
    BY <1>1, <1>2, ExceptSeq
  <1>5. Replace(state, RouteName, state.index, name, key) = Rehydrated(routes)
    <2>1. state = Rehydrated(state.routes)
      BY DEF StackOK
    <2>2. state.index + 1 = len /\ state.index # -1
      BY <1>2
    <2> QED BY <1>2, <1>4, <2>1, <2>2 DEF Replace, Rehydrated, route
  <1> HIDE DEF routes, len
  <1>6. Distinct(routes)
    <2> SUFFICES ASSUME NEW i \in 1..len, NEW j \in 1..len, routes[i].key = routes[j].key
                 PROVE  i = j
      BY <1>3 DEF Distinct
    <2>1. \A k \in 1..len : k # len => routes[k].key # key
      BY <1>3, StackFields DEF len
    <2>2. CASE i # len /\ j # len
      BY <1>2, <1>3, <2>2 DEF StackOK, Distinct
    <2> QED BY <1>1, <1>3, <2>1, <2>2
  <1>7. routes # <<>>
    BY <1>2, <1>4, EmptySeq
  <1>8. StackOK(Rehydrated(routes)) /\ Rehydrated(routes).routes = routes
    BY <1>4, <1>6, <1>7, RehydratedOK
  <1>9. \/ routes[1] = state.routes[1]
        \/ Len(routes) = 1 /\ routes[1].key = key
    BY <1>1, <1>2, <1>3, <1>4
  <1> QED BY <1>5, <1>8, <1>9

LEMMA NavigateOK ==
    ASSUME NEW state, StackOK(state), NEW name \in RouteName,
           NEW key \in Key, key \notin RouteKeys(state)
    PROVE  LET after == Navigate(state, RouteName, name, key) IN
           StackOK(after) /\ after.routes[1] = state.routes[1]
  <1> DEFINE index == IndexOfName(state, name)
  <1>1. index \in -1..(Len(state.routes) - 1) /\ Len(state.routes) \in Nat \ {0}
    BY IndexOfNameIs, StackFields
  <1>2. CASE index = -1
    BY <1>2, PushOK DEF Navigate
  <1>3. CASE index # -1
    <2> DEFINE n == index + 1
    <2>1. n \in 1..Len(state.routes) /\ index = n - 1
      BY <1>1, <1>3
    <2>2. Navigate(state, RouteName, name, key) =
            [index |-> n - 1, routes |-> SubSeq(state.routes, 1, n)]
      BY <1>3, <2>1 DEF Navigate
    <2> HIDE DEF n, index
    <2>3. Navigate(state, RouteName, name, key) = Rehydrated(SubSeq(state.routes, 1, n))
      BY <2>1, <2>2, Prefix DEF Rehydrated
    <2> QED BY <2>1, <2>3, Prefix DEF Rehydrated
  <1> QED BY <1>2, <1>3

LEMMA RouteFocusOK ==
    ASSUME NEW state, StackOK(state), NEW key \in RouteKeys(state)
    PROVE  LET after == RouteFocus(state, key) IN
           StackOK(after) /\ after.routes[1] = state.routes[1]
  <1>1. PICK i \in 1..Len(state.routes) : state.routes[i].key = key
    BY StackFields DEF RouteKeys, ToSet
  <1>2. IndexOfKey(state, key) = i - 1
    BY <1>1, IndexOfKeyIs
  <1>3. CASE i - 1 = state.index
    BY <1>2, <1>3 DEF RouteFocus
  <1>4. CASE i - 1 # state.index
    <2>1. i - 1 # -1 /\ i - 1 + 1 = i
      BY <1>1
    <2>2. RouteFocus(state, key) = [index |-> i - 1, routes |-> SubSeq(state.routes, 1, i)]
      BY <1>2, <1>4, <2>1 DEF RouteFocus
    <2>3. RouteFocus(state, key) = Rehydrated(SubSeq(state.routes, 1, i))
      BY <1>1, <2>2, Prefix DEF Rehydrated
    <2> QED BY <1>1, <2>3, Prefix DEF Rehydrated
  <1> QED BY <1>3, <1>4

LEMMA OneRouteOK ==
    ASSUME NEW key \in Key, NEW name \in RouteName
    PROVE  LET routes == <<[key |-> key, name |-> name]>> IN
           /\ StackOK(Rehydrated(routes)) /\ Rehydrated(routes).routes = routes
           /\ InitialState(name, key) = Rehydrated(routes)
           /\ Reset(nav, RouteName, routes) = Rehydrated(routes)
           /\ Len(routes) = 1 /\ routes[1].key = key
  <1> DEFINE route == [key |-> key, name |-> name]
             routes == <<route>>
  <1>1. route \in Route /\ route.key = key /\ route.name \in RouteName
    BY DEF Route
  <1>2. InitialState(name, key) = Rehydrated(routes)
    BY DEF InitialState, Rehydrated
  <1> HIDE DEF route
  <1>3. /\ routes \in Seq(Route) /\ routes # <<>> /\ Len(routes) = 1
        /\ routes[1] = route /\ DOMAIN routes = {1}
    BY <1>1
  <1> HIDE DEF routes
  <1>4. Distinct(routes)
    BY <1>3 DEF Distinct
  <1>5. Reset(nav, RouteName, routes) = Rehydrated(routes)
    BY <1>1, <1>3 DEF Reset, ToSet
  <1> QED BY <1>1, <1>2, <1>3, <1>4, <1>5, RehydratedOK DEF route, routes

-----------------------------------------------------------------------------
(* The navigator.                                                          *)

\* Inductive: a swiped route is not the bottom one, which every action but
\* replace and reset keeps, and those two put one there that nobody has swiped.
IInv == NavOK /\ SwipedHasAScreenBeneath

LEMMA Parts ==
    /\ NavOK <=> StackOK(nav) /\ dismissals \in Seq(Key)
    /\ NavOK' <=> StackOK(nav') /\ dismissals' \in Seq(Key)
  BY DEF NavOK, StackOK, Distinct

BottomKept == nav'.routes[1] = nav.routes[1]

BottomReplaced ==
    /\ Len(nav'.routes) = 1
    /\ nav'.routes[1].key \notin RouteKeys(nav) \cup ToSet(dismissals)

RouterStep ==
    \/ \E name \in RouteName, key \in FreshKey :
          \/ ReplaceRoute(name, key)
          \/ PushRoute(name, key)
          \/ NavigateTo(name, key)
          \/ ResetTo(name, key)
    \/ \E count \in 1..MaxDepth : PopRoutes(count)
    \/ PopAll
    \/ GoBackAny
    \/ \E key \in RouteKeys(nav) : FocusRoute(key)

\* Whatever the router returns is a stack, on the old bottom or on a new one.
LEMMA RouterStepOK ==
    ASSUME IInv, RouterStep
    PROVE  /\ StackOK(nav') /\ dismissals' = dismissals
           /\ BottomKept \/ BottomReplaced
  <1>1. /\ StackOK(nav) /\ Len(nav.routes) \in Nat \ {0}
        /\ nav.index = Len(nav.routes) - 1
        /\ nav.index \in 0..(Len(nav.routes) - 1)
    BY Parts, StackFields DEF IInv
  <1>2. ASSUME NEW name \in RouteName, NEW key \in FreshKey,
               \/ ReplaceRoute(name, key) \/ PushRoute(name, key)
               \/ NavigateTo(name, key) \/ ResetTo(name, key)
        PROVE  /\ StackOK(nav') /\ dismissals' = dismissals
               /\ BottomKept \/ BottomReplaced
    <2>1. key \in Key /\ key \notin RouteKeys(nav) \cup ToSet(dismissals)
      BY DEF FreshKey
    <2>2. CASE ReplaceRoute(name, key)
      <3>1. nav' = Replace(nav, RouteName, nav.index, name, key) /\ dismissals' = dismissals
        BY <2>2 DEF ReplaceRoute, Apply, ActionIndex
      <3> QED BY <1>1, <2>1, <3>1, ReplaceOK DEF BottomKept, BottomReplaced
    <2>3. CASE PushRoute(name, key)
      BY <1>1, <2>1, <2>3, PushOK DEF PushRoute, Apply, BottomKept
    <2>4. CASE NavigateTo(name, key)
      BY <1>1, <2>1, <2>4, NavigateOK DEF NavigateTo, Apply, BottomKept
    <2>5. CASE ResetTo(name, key)
      BY <2>1, <2>5, OneRouteOK DEF ResetTo, Apply, BottomReplaced
    <2> QED BY <1>2, <2>2, <2>3, <2>4, <2>5
  <1>3. ASSUME NEW index \in 0..(Len(nav.routes) - 1), NEW count \in Int,
               index > 0 => count \in Nat \ {0}, Apply(Pop(nav, index, count))
        PROVE  StackOK(nav') /\ dismissals' = dismissals /\ BottomKept
    <2>1. nav' = Pop(nav, index, count) /\ dismissals' = dismissals
      BY <1>3 DEF Apply
    <2>2. index > 0
      BY <1>3 DEF Apply, Pop
    <2> QED BY <1>1, <1>3, <2>1, <2>2, PopOK DEF BottomKept
  <1>4. ASSUME NEW count \in 1..MaxDepth, PopRoutes(count)
        PROVE  StackOK(nav') /\ dismissals' = dismissals /\ BottomKept
    BY <1>1, <1>3, <1>4, NavigatorAssumption DEF PopRoutes
  <1>5. CASE PopAll
    <2>1. Len(nav.routes) - 1 \in Int /\ (nav.index > 0 => Len(nav.routes) - 1 \in Nat \ {0})
      <3>1. \A n \in Nat \ {0} : n - 1 \in Int /\ (n - 1 > 0 => n - 1 \in Nat \ {0})
        OBVIOUS
      <3> QED BY <1>1, <3>1
    <2> QED BY <1>1, <1>3, <1>5, <2>1 DEF PopAll, PopToTop
  <1>6. CASE GoBackAny
    <2>1. Apply(Pop(nav, nav.index, 1))
      BY <1>6 DEF GoBackAny, GoBack, ActionIndex, Apply
    <2> QED BY <1>1, <1>3, <2>1
  <1>7. ASSUME NEW key \in RouteKeys(nav), FocusRoute(key)
        PROVE  StackOK(nav') /\ dismissals' = dismissals /\ BottomKept
    BY <1>1, <1>7, RouteFocusOK DEF FocusRoute, Apply, BottomKept
  <1> QED BY <1>2, <1>4, <1>5, <1>6, <1>7 DEF RouterStep

\* The event of a swipe removes the swiped route, if it is still there.
LEMMA HandleDismissalOK ==
    ASSUME IInv, HandleDismissal
    PROVE  /\ StackOK(nav') /\ BottomKept
           /\ ToSet(nav'.routes) =
                {r \in ToSet(nav.routes) : r.key # Head(dismissals)}
  <1> DEFINE key == Head(dismissals)
             index == IndexOfKey(nav, key)
  <1>1. /\ StackOK(nav) /\ Len(nav.routes) \in Nat \ {0}
        /\ dismissals \in Seq(Key) /\ dismissals # <<>>
    BY Parts, StackFields DEF IInv, HandleDismissal
  <1>2. nav' = Handled(nav, TRUE, Pop(nav, index, 1))
    BY DEF HandleDismissal, ActionIndex
  <1>3. key # nav.routes[1].key
    <2>1. 1 \in DOMAIN dismissals /\ key = dismissals[1]
      BY <1>1, EmptySeq, LenProperties
    <2> QED BY <2>1 DEF IInv, SwipedHasAScreenBeneath
  <1>4. CASE key \in RouteKeys(nav)
    <2>1. PICK i \in 1..Len(nav.routes) : nav.routes[i].key = key
      BY <1>1, <1>4, StackFields DEF RouteKeys, ToSet
    <2>2. index = i - 1
      BY <1>1, <2>1, IndexOfKeyIs
    <2>3. /\ i - 1 \in 0..(Len(nav.routes) - 1) /\ i - 1 > 0 /\ i - 1 + 1 = i
      BY <1>1, <1>3, <2>1
    <2>4. LET after == Pop(nav, i - 1, 1) IN
          /\ StackOK(after)
          /\ after.routes[1] = nav.routes[1]
          /\ ToSet(after.routes) = {r \in ToSet(nav.routes) : r.key # key}
      <3> DEFINE n == i - 1
      <3>1. n \in 0..(Len(nav.routes) - 1) /\ n > 0 /\ nav.routes[n + 1].key = key
        BY <2>1, <2>3
      <3>2. 1 \in Nat \ {0}
        OBVIOUS
      <3> HIDE DEF n, key
      <3>3. LET after == Pop(nav, n, 1) IN
            /\ StackOK(after)
            /\ after.routes[1] = nav.routes[1]
            /\ ToSet(after.routes) = Without(nav, nav.routes[n + 1].key)
        BY <1>1, <3>1, <3>2, PopOK
      <3> QED BY <3>1, <3>3 DEF n, Without
    <2>5. Pop(nav, i - 1, 1) # NoState
      BY <2>4 DEF StackOK, NoState
    <2>6. nav' = Pop(nav, i - 1, 1)
      BY <1>2, <2>2, <2>5 DEF Handled
    <2> QED BY <2>4, <2>6 DEF BottomKept
  <1>5. CASE key \notin RouteKeys(nav)
    <2>1. index = -1
      BY <1>1, <1>5, IndexOfNoKey
    <2>2. Pop(nav, -1, 1) = NoState
      BY DEF Pop
    <2>3. nav' = nav
      BY <1>2, <2>1, <2>2 DEF Handled
    <2>4. ToSet(nav.routes) = {r \in ToSet(nav.routes) : r.key # key}
      BY <1>5 DEF RouteKeys
    <2> QED BY <1>1, <2>3, <2>4 DEF BottomKept
  <1> QED BY <1>4, <1>5

LEMMA InitInv == Init => IInv
  <1> SUFFICES ASSUME NEW name \in RouteName, NEW key \in Key,
                      nav = InitialState(name, key), dismissals = <<>>
               PROVE  IInv
    BY DEF Init
  <1>1. StackOK(nav)
    BY OneRouteOK
  <1>2. dismissals \in Seq(Key) /\ DOMAIN dismissals = {}
    BY EmptySeq, LenProperties
  <1> QED BY <1>1, <1>2, Parts DEF IInv, SwipedHasAScreenBeneath

LEMMA NextInv == IInv /\ [Next]_vars => IInv'
  <1> SUFFICES ASSUME IInv, [Next]_vars PROVE IInv'
    OBVIOUS
  <1>1. /\ StackOK(nav) /\ dismissals \in Seq(Key)
        /\ DOMAIN dismissals = 1..Len(dismissals) /\ Len(dismissals) \in Nat
        /\ \A i \in DOMAIN dismissals : dismissals[i] # nav.routes[1].key
    BY Parts, LenProperties DEF IInv, SwipedHasAScreenBeneath
  <1>2. CASE RouterStep
    <2>1. /\ StackOK(nav') /\ dismissals' = dismissals
          /\ BottomKept \/ BottomReplaced
      BY <1>2, RouterStepOK
    <2>2. ASSUME NEW i \in DOMAIN dismissals PROVE dismissals[i] # nav'.routes[1].key
      BY <1>1, <2>1 DEF BottomKept, BottomReplaced, ToSet
    <2> QED BY <1>1, <2>1, <2>2, Parts DEF IInv, SwipedHasAScreenBeneath
  <1>3. ASSUME NEW i \in DOMAIN nav.routes, Swipe(i) PROVE IInv'
    <2> DEFINE key == nav.routes[i].key
    <2>1. nav' = nav /\ dismissals' = Append(dismissals, key) /\ i # 1
      BY <1>3 DEF Swipe
    <2>2. key \in Key /\ key # nav.routes[1].key
      BY <1>1, <2>1, StackFields DEF StackOK, Distinct
    <2>3. /\ Append(dismissals, key) \in Seq(Key)
          /\ DOMAIN Append(dismissals, key) = 1..(Len(dismissals) + 1)
          /\ \A j \in 1..Len(dismissals) : Append(dismissals, key)[j] = dismissals[j]
          /\ Append(dismissals, key)[Len(dismissals) + 1] = key
      BY <1>1, <2>2, AppendProperties, LenProperties
    <2>4. \A j \in DOMAIN dismissals' : dismissals'[j] # nav'.routes[1].key
      BY <1>1, <2>1, <2>2, <2>3
    <2> QED BY <1>1, <2>1, <2>3, <2>4, Parts DEF IInv, SwipedHasAScreenBeneath
  <1>4. CASE HandleDismissal
    <2>1. StackOK(nav') /\ BottomKept
      BY <1>4, HandleDismissalOK
    <2>2. dismissals # <<>> /\ dismissals' = Tail(dismissals)
      BY <1>4 DEF HandleDismissal
    <2>3. /\ Tail(dismissals) \in Seq(Key)
          /\ DOMAIN Tail(dismissals) = 1..(Len(dismissals) - 1)
          /\ \A j \in 1..(Len(dismissals) - 1) : Tail(dismissals)[j] = dismissals[j + 1]
      BY <1>1, <2>2, HeadTailProperties, LenProperties
    <2>4. \A j \in DOMAIN dismissals' : dismissals'[j] # nav'.routes[1].key
      BY <1>1, <2>1, <2>2, <2>3 DEF BottomKept
    <2> QED BY <2>1, <2>2, <2>3, <2>4, Parts DEF IInv, SwipedHasAScreenBeneath
  <1>5. CASE UNCHANGED vars
    BY <1>5 DEF vars, IInv, NavOK, SwipedHasAScreenBeneath
  <1> QED BY <1>2, <1>3, <1>4, <1>5 DEF Next, RouterStep

LEMMA Inductive == Spec => []IInv
  BY InitInv, NextInv, PTL DEF Spec

\* Every action leaves the native stack a state it can render (StackRouter.tsx,
\* useNavigationBuilder).
THEOREM StacksStayWellFormed == Spec => []NavOK
  BY Inductive, PTL DEF IInv

\* A screen the user swiped away is never the bottom one of the stack, whatever
\* JavaScript did to it since (NativeStackView's onDismissed).
THEOREM SwipesNeverReachTheBottom == Spec => []SwipedHasAScreenBeneath
  BY Inductive, PTL DEF IInv

\* A late onDismissed removes the route it names and no other.
THEOREM DismissalsAreExact == Spec => DismissalRemovesOnlyItsRoute
  <1> DEFINE A == dismissals # <<>> /\ dismissals' = Tail(dismissals) =>
                    ToSet(nav'.routes) =
                       {r \in ToSet(nav.routes) : r.key # Head(dismissals)}
  <1>1. IInv /\ [Next]_vars => [A]_vars
    <2> SUFFICES ASSUME IInv, Next, dismissals # <<>>, dismissals' = Tail(dismissals)
                 PROVE  ToSet(nav'.routes) =
                          {r \in ToSet(nav.routes) : r.key # Head(dismissals)}
      OBVIOUS
    <2>1. dismissals \in Seq(Key) /\ Len(dismissals) \in Nat
      BY Parts, LenProperties DEF IInv
    <2>2. Len(dismissals') = Len(dismissals) - 1
      BY <2>1, HeadTailProperties
    <2>3. ASSUME RouterStep PROVE FALSE
      <3>1. dismissals' = dismissals
        BY <2>3, RouterStepOK
      <3> QED BY <2>1, <2>2, <3>1
    <2>4. ASSUME NEW i \in DOMAIN nav.routes, Swipe(i) PROVE FALSE
      <3>1. nav.routes[i].key \in Key
        BY Parts, StackFields DEF IInv
      <3>2. Len(dismissals') = Len(dismissals) + 1
        BY <2>1, <2>4, <3>1, AppendProperties DEF Swipe
      <3> QED BY <2>1, <2>2, <3>2
    <2> QED BY <2>3, <2>4, HandleDismissalOK DEF Next, RouterStep
  <1> QED BY <1>1, Inductive, PTL DEF Spec, DismissalRemovesOnlyItsRoute

\* Going back never changes the bottom screen; only replace and reset do, and
\* leave no other screen.
THEOREM BottomStays == Spec => GoingBackKeepsTheBottom
  <1> DEFINE A == \/ nav'.routes[1] = nav.routes[1]
                  \/ Len(nav'.routes) = 1 /\ nav'.routes[1].key \notin RouteKeys(nav)
  <1>1. IInv /\ [Next]_vars => [A]_vars
    <2> SUFFICES ASSUME IInv, Next PROVE A
      OBVIOUS
    <2>1. CASE RouterStep
      BY <2>1, RouterStepOK DEF BottomKept, BottomReplaced
    <2>2. CASE \E i \in DOMAIN nav.routes : Swipe(i)
      BY <2>2 DEF Swipe
    <2>3. CASE HandleDismissal
      BY <2>3, HandleDismissalOK DEF BottomKept
    <2> QED BY <2>1, <2>2, <2>3 DEF Next, RouterStep
  <1> QED BY <1>1, Inductive, PTL DEF Spec, GoingBackKeepsTheBottom

=============================================================================
