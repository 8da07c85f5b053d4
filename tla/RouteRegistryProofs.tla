------------------------- MODULE RouteRegistryProofs -------------------------
(***************************************************************************)
(* Proofs about the table of handlers, for any threads that register, any  *)
(* registrations and any routes that are looked up.                        *)
(***************************************************************************)
EXTENDS RouteRegistry, FiniteSetTheorems, TLAPS

\* Every step is tried with SMT and Zenon and, where a loaded machine needs it, with
\* SMT for longer.
USE SMT, Zenon, SMTT(30)

\* The registrations of M that are in one half and in its map or in its list.
OwnRoutes(M, half) == {r \in M : Half(r) = half /\ ~ForPrefix(r)}
PrefixRoutes(M, half) == {r \in M : Half(r) = half /\ ForPrefix(r)}

Sorted(q) == \A i, j \in DOMAIN q : i < j => Len(q[i].handler.route) >= Len(q[j].handler.route)

\* A list of the entries of the registrations in R, each once, the longest first.
Lists(q, R) ==
    /\ \E n \in Nat : DOMAIN q = 1..n
    /\ ToSet(q) = {MakeEntry(r) : r \in R}
    /\ \A i, j \in DOMAIN q : q[i] = q[j] => i = j
    /\ Sorted(q)

\* The table serves the registrations that returned, and no route is in it twice.
Serves(table, M) ==
    /\ table = [h \in Halves |-> [exact |-> table[h].exact, prefixes |-> table[h].prefixes]]
    /\ \A half \in Halves : /\ table[half].exact = {MakeEntry(r) : r \in OwnRoutes(M, half)}
                            /\ Lists(table[half].prefixes, PrefixRoutes(M, half))
    /\ \A r, s \in M : Half(r) = Half(s) /\ (ForPrefix(r) <=> ForPrefix(s)) /\ r.route = s.route
                       => r = s

\* A thread that prepares a table holds the mutex, so its copy is not outdated.
Preparing ==
    /\ tpc \in [Threads -> {"idle", "lock", "copy", "publish"}]
    /\ copy = [t \in Threads |-> copy[t]]
    /\ item \in [Threads -> Registrations \cup {<<>>}]
    /\ \A t \in Threads : /\ tpc[t] # "idle" => item[t] \in Registrations
                          /\ tpc[t] \in {"copy", "publish"} => mutex = t
                          /\ tpc[t] = "publish" => copy[t] = registry

RegistryInv == Preparing /\ made \subseteq Registrations /\ Serves(registry, made)

LEMMA EntryOf ==
    ASSUME NEW r PROVE MakeEntry(r).handler = r /\ RouteScheduling(MakeEntry(r)) = Asked(r)
<1>1. MakeEntry(r).handler = r
  BY DEF MakeEntry
<1>2. RouteScheduling(MakeEntry(r)) = Asked(r)
  BY DEF MakeEntry, RouteScheduling, Asked, WithOptions
<1> QED
  BY <1>1, <1>2, Zenon

\* What the sort may leave holds the same entries, each once.
LEMMA SortedSeqs ==
    ASSUME NEW S, IsFiniteSet(S), NEW q \in SetToSeqs(S)
    PROVE  /\ DOMAIN q = 1..Cardinality(S) /\ Cardinality(S) \in Nat /\ ToSet(q) = S
           /\ \A i, j \in DOMAIN q : q[i] = q[j] => i = j
<1> DEFINE D == 1..Cardinality(S)
<1>1. q \in [D -> S] /\ \A i, j \in D : i # j => q[i] # q[j]
  BY Zenon DEF SetToSeqs
<1>2. Cardinality(S) \in Nat
  BY FS_CardinalityType, Zenon
<1>3. Cardinality(D) = Cardinality(S)
  BY <1>2, FS_Interval
<1> HIDE DEF D
<1>4. q \in Injection(D, S)
  BY <1>1, Zenon DEF Injection, IsInjective
<1>5. q \in Surjection(D, S)
  BY <1>3, <1>4, FS_Injection, Zenon
<1>6. ToSet(q) = S
  <2>1. \A x \in S : \E i \in D : q[i] = x
    BY <1>5, Zenon DEF Surjection
  <2>2. DOMAIN q = D /\ \A i \in D : q[i] \in S
    BY <1>1, Zenon
  <2>3. S \subseteq ToSet(q) /\ ToSet(q) \subseteq S
    BY <2>1, <2>2, Zenon DEF ToSet
  <2> QED
    BY <2>3, Zenon
<1> QED
  BY <1>1, <1>2, <1>6, Zenon DEF D

LEMMA ListFinite ==
    ASSUME NEW q, NEW n \in Nat, DOMAIN q = 1..n PROVE IsFiniteSet(ToSet(q))
<1> DEFINE f == [i \in 1..n |-> q[i]]
<1>1. f \in Surjection(1..n, ToSet(q))
  BY Zenon DEF Surjection, ToSet
<1>2. IsFiniteSet(1..n)
  BY FS_Interval
<1> QED
  BY <1>1, <1>2, FS_Surjection, Zenon

\* Two prefixes of one route that are of the same length are the same.
LEMMA SamePrefix ==
    ASSUME NEW p \in Seq(Nat), NEW q \in Seq(Nat), NEW route \in Seq(Nat),
           IsPrefix(p, route), IsPrefix(q, route), Len(p) = Len(q)
    PROVE  p = q
<1>1. SubSeq(p, 1, Len(p)) = p /\ SubSeq(q, 1, Len(q)) = q
  OBVIOUS
<1> QED
  BY <1>1, Zenon DEF IsPrefix

LEMMA RegistryStarts == RegistryInit => RegistryInv
<1> SUFFICES ASSUME RegistryInit PROVE RegistryInv
  BY Zenon
<1>1. Preparing
  BY Zenon DEF RegistryInit, Preparing
<1>2. made = {} /\ registry = [half \in Halves |-> Empty]
  BY Zenon DEF RegistryInit
<1>3. \A half \in Halves : registry[half].exact = {} /\ registry[half].prefixes = <<>>
  BY <1>2 DEF Empty
<1>4. \A half : OwnRoutes(made, half) = {} /\ PrefixRoutes(made, half) = {}
  BY <1>2, Zenon DEF OwnRoutes, PrefixRoutes
<1>5. Lists(<<>>, {})
  <2>1. DOMAIN <<>> = 1..0 /\ 0 \in Nat
    OBVIOUS
  <2>2. DOMAIN <<>> = {}
    OBVIOUS
  <2> QED
    BY <2>1, <2>2, Zenon DEF Lists, ToSet, Sorted
<1>6. registry = [h \in Halves |-> [exact |-> registry[h].exact, prefixes |-> registry[h].prefixes]]
  BY <1>2, <1>3, Zenon DEF Empty
<1> QED
  BY <1>1, <1>2, <1>3, <1>4, <1>5, <1>6, Zenon DEF RegistryInv, Serves

\* Replacing one field of one half leaves the rest of a table as it is.
LEMMA HalfReplaced ==
    ASSUME NEW table, NEW h \in Halves, NEW x,
           table = [k \in Halves |-> [exact |-> table[k].exact, prefixes |-> table[k].prefixes]]
    PROVE  /\ [table EXCEPT ![h].exact = x]
                = [k \in Halves |-> [exact |-> IF k = h THEN x ELSE table[k].exact,
                                     prefixes |-> table[k].prefixes]]
           /\ [table EXCEPT ![h].prefixes = x]
                = [k \in Halves |-> [exact |-> table[k].exact,
                                     prefixes |-> IF k = h THEN x ELSE table[k].prefixes]]
<1>1. table[h] = [exact |-> table[h].exact, prefixes |-> table[h].prefixes]
  BY Zenon
<1>2. [table[h] EXCEPT !.exact = x] = [exact |-> x, prefixes |-> table[h].prefixes]
  BY <1>1
<1>3. [table[h] EXCEPT !.prefixes = x] = [exact |-> table[h].exact, prefixes |-> x]
  BY <1>1
<1>4. [table EXCEPT ![h].exact = x] = [table EXCEPT ![h] = [exact |-> x, prefixes |-> table[h].prefixes]]
  BY <1>2
<1>5. [table EXCEPT ![h].prefixes = x] = [table EXCEPT ![h] = [exact |-> table[h].exact, prefixes |-> x]]
  BY <1>3
<1> QED
  BY <1>4, <1>5, Zenon

\* A registration whose route is not taken adds its entry to its half, and nothing else.
LEMMA AddServes ==
    ASSUME NEW table, NEW M \in SUBSET Registrations, Serves(table, M), NEW r \in Registrations,
           ~Taken(table, r), NEW new \in Add(table, r)
    PROVE  Serves(new, M \cup {r})
<1> DEFINE h == Half(r)
           N == M \cup {r}
           e == MakeEntry(r)
<1>1. h \in Halves
  BY Zenon DEF Half, Halves
<1>2. \A k : /\ OwnRoutes(N, k) = IF k = h /\ ~ForPrefix(r) THEN OwnRoutes(M, k) \cup {r} ELSE OwnRoutes(M, k)
             /\ PrefixRoutes(N, k) = IF k = h /\ ForPrefix(r) THEN PrefixRoutes(M, k) \cup {r}
                                 ELSE PrefixRoutes(M, k)
  BY Zenon DEF OwnRoutes, PrefixRoutes
<1>3. /\ table = [k \in Halves |-> [exact |-> table[k].exact, prefixes |-> table[k].prefixes]]
      /\ \A k \in Halves : /\ table[k].exact = {MakeEntry(s) : s \in OwnRoutes(M, k)}
                           /\ Lists(table[k].prefixes, PrefixRoutes(M, k))
  BY Zenon DEF Serves
<1>4. \A s \in M : Half(s) = h /\ (ForPrefix(s) <=> ForPrefix(r)) => s.route # r.route
  <2> SUFFICES ASSUME NEW s \in M, Half(s) = h, ForPrefix(s) <=> ForPrefix(r), s.route = r.route
               PROVE  FALSE
    BY Zenon
  <2>1. MakeEntry(s).handler = s
    BY EntryOf, Zenon
  <2>2. CASE ForPrefix(r)
    <3>1. s \in PrefixRoutes(M, h)
      BY <2>2, Zenon DEF PrefixRoutes
    <3>2. MakeEntry(s) \in ToSet(table[h].prefixes)
      BY <1>1, <1>3, <3>1, Zenon DEF Lists
    <3>3. PICK i \in DOMAIN table[h].prefixes : table[h].prefixes[i] = MakeEntry(s)
      BY <3>2, Zenon DEF ToSet
    <3> QED
      BY <2>1, <2>2, <3>3, Zenon DEF Taken
  <2>3. CASE ~ForPrefix(r)
    <3>1. s \in OwnRoutes(M, h)
      BY <2>3, Zenon DEF OwnRoutes
    <3>2. MakeEntry(s) \in table[h].exact
      BY <1>1, <1>3, <3>1, Zenon
    <3> QED
      BY <2>1, <2>3, <3>2, Zenon DEF Taken
  <2> QED
    BY <2>2, <2>3, Zenon
<1>5. \A s, u \in N : Half(s) = Half(u) /\ (ForPrefix(s) <=> ForPrefix(u)) /\ s.route = u.route
                      => s = u
  BY <1>4, Zenon DEF Serves
<1>6. CASE ~ForPrefix(r)
  <2>1. new = [table EXCEPT ![h].exact = @ \cup {e}]
    BY <1>6, Zenon DEF Add
  <2>2. /\ new[h].exact = table[h].exact \cup {e} /\ new[h].prefixes = table[h].prefixes
        /\ \A k \in Halves \ {h} : new[k] = table[k]
        /\ new = [k \in Halves |-> [exact |-> new[k].exact, prefixes |-> new[k].prefixes]]
    <3>1. new = [k \in Halves |-> [exact |-> IF k = h THEN table[h].exact \cup {e} ELSE table[k].exact,
                                   prefixes |-> table[k].prefixes]]
      <4> HIDE DEF h, e
      <4>1. table = [k \in Halves |-> [exact |-> table[k].exact, prefixes |-> table[k].prefixes]]
        BY <1>3, Zenon
      <4>2. PICK x : x = table[h].exact \cup {e}
        BY Zenon
      <4>3. new = [table EXCEPT ![h].exact = x]
        BY <2>1, <4>2
      <4>4. new = [k \in Halves |-> [exact |-> IF k = h THEN x ELSE table[k].exact,
                                     prefixes |-> table[k].prefixes]]
        BY <1>1, <4>1, <4>3, HalfReplaced
      <4> QED
        BY <4>2, <4>4, Zenon
    <3>2. \A k \in Halves : new[k] = [exact |-> new[k].exact, prefixes |-> new[k].prefixes]
      BY <3>1, Zenon
    <3>3. /\ new[h].exact = table[h].exact \cup {e} /\ new[h].prefixes = table[h].prefixes
          /\ \A k \in Halves \ {h} : new[k] = table[k]
      BY <1>1, <1>3, <3>1, Zenon
    <3> QED
      BY <3>1, <3>2, <3>3, Zenon
  <2>3. \A k \in Halves : /\ new[k].exact = {MakeEntry(s) : s \in OwnRoutes(N, k)}
                          /\ Lists(new[k].prefixes, PrefixRoutes(N, k))
    <3>1. OwnRoutes(N, h) = OwnRoutes(M, h) \cup {r} /\ \A k : PrefixRoutes(N, k) = PrefixRoutes(M, k)
      BY <1>2, <1>6, Zenon
    <3>2. \A k \in Halves \ {h} : OwnRoutes(N, k) = OwnRoutes(M, k)
      BY <1>2, Zenon
    <3>3. new[h].exact = {MakeEntry(s) : s \in OwnRoutes(M, h) \cup {r}}
      <4>1. new[h].exact = {MakeEntry(s) : s \in OwnRoutes(M, h)} \cup {e}
        BY <1>1, <1>3, <2>2, Zenon
      <4> QED
        BY <4>1, Zenon
    <3> QED
      <4>1. \A k \in Halves : new[k].prefixes = table[k].prefixes
        BY <2>2, Zenon
      <4>2. \A k \in Halves \ {h} : new[k].exact = {MakeEntry(s) : s \in OwnRoutes(N, k)}
        BY <1>3, <2>2, <3>2, Zenon
      <4>3. \A k \in Halves : Lists(new[k].prefixes, PrefixRoutes(N, k))
        BY <1>3, <3>1, <4>1, Zenon
      <4> QED
        BY <3>1, <3>3, <4>2, <4>3, Zenon
  <2> QED
    BY <1>5, <2>2, <2>3, Zenon DEF Serves
<1>7. CASE ForPrefix(r)
  <2>1. PICK q \in AddPrefix(table[h].prefixes, e) : new = [table EXCEPT ![h].prefixes = q]
    BY <1>7, Zenon DEF Add
  <2>2. /\ new[h].prefixes = q /\ new[h].exact = table[h].exact
        /\ \A k \in Halves \ {h} : new[k] = table[k]
        /\ new = [k \in Halves |-> [exact |-> new[k].exact, prefixes |-> new[k].prefixes]]
    <3>1. new = [k \in Halves |-> [exact |-> table[k].exact,
                                   prefixes |-> IF k = h THEN q ELSE table[k].prefixes]]
      <4> HIDE DEF h, e
      <4>1. table = [k \in Halves |-> [exact |-> table[k].exact, prefixes |-> table[k].prefixes]]
        BY <1>3, Zenon
      <4> QED
        BY <1>1, <2>1, <4>1, HalfReplaced
    <3>2. \A k \in Halves : new[k] = [exact |-> new[k].exact, prefixes |-> new[k].prefixes]
      BY <3>1, Zenon
    <3>3. /\ new[h].prefixes = q /\ new[h].exact = table[h].exact
          /\ \A k \in Halves \ {h} : new[k] = table[k]
      BY <1>1, <1>3, <3>1, Zenon
    <3> QED
      BY <3>1, <3>2, <3>3, Zenon
  <2>3. Lists(q, PrefixRoutes(M, h) \cup {r})
    <3> DEFINE S == ToSet(table[h].prefixes) \cup {e}
    <3>1. q \in SetToSeqs(S) /\ Sorted(q)
      BY Zenon DEF AddPrefix, Sorted
    <3>2. IsFiniteSet(S)
      <4>1. IsFiniteSet(ToSet(table[h].prefixes))
        BY <1>1, <1>3, ListFinite, Zenon DEF Lists
      <4> QED
        BY <4>1, FS_AddElement, Zenon
    <3>3. S = {MakeEntry(s) : s \in PrefixRoutes(M, h) \cup {r}}
      <4>1. ToSet(table[h].prefixes) = {MakeEntry(s) : s \in PrefixRoutes(M, h)}
        BY <1>1, <1>3, Zenon DEF Lists
      <4> QED
        BY <4>1, Zenon
    <3> HIDE DEF S
    <3> QED
      BY <3>1, <3>2, <3>3, SortedSeqs, Zenon DEF Lists
  <2>4. \A k \in Halves : /\ new[k].exact = {MakeEntry(s) : s \in OwnRoutes(N, k)}
                          /\ Lists(new[k].prefixes, PrefixRoutes(N, k))
    <3>1. PrefixRoutes(N, h) = PrefixRoutes(M, h) \cup {r} /\ \A k : OwnRoutes(N, k) = OwnRoutes(M, k)
      BY <1>2, <1>7, Zenon
    <3>2. \A k \in Halves \ {h} : PrefixRoutes(N, k) = PrefixRoutes(M, k)
      BY <1>2, Zenon
    <3> QED
      BY <1>3, <2>2, <2>3, <3>1, <3>2, Zenon
  <2> QED
    BY <1>5, <2>2, <2>4, Zenon DEF Serves
<1> QED
  BY <1>6, <1>7, Zenon

LEMMA RegistryStep == RegistryInv /\ [RegistryNext]_registryVars => RegistryInv'
<1> SUFFICES ASSUME RegistryInv, [RegistryNext]_registryVars PROVE RegistryInv'
  BY Zenon
<1>1. CASE UNCHANGED registryVars
  BY <1>1, Zenon DEF registryVars, RegistryInv, Preparing, Serves, Lists
<1>2. /\ tpc \in [Threads -> {"idle", "lock", "copy", "publish"}]
      /\ copy = [t \in Threads |-> copy[t]]
      /\ item \in [Threads -> Registrations \cup {<<>>}]
      /\ \A t \in Threads : /\ tpc[t] # "idle" => item[t] \in Registrations
                            /\ tpc[t] \in {"copy", "publish"} => mutex = t
                            /\ tpc[t] = "publish" => copy[t] = registry
  BY Zenon DEF RegistryInv, Preparing
<1> SUFFICES ASSUME NEW t \in Threads,
                    (\E r \in Registrations : Call(t, r)) \/ Lock(t) \/ Copy(t) \/ Publish(t)
             PROVE  RegistryInv'
  BY <1>1, Zenon DEF RegistryNext
<1>3. ASSUME UNCHANGED <<registry, made>>, Preparing' PROVE RegistryInv'
  BY <1>3, Zenon DEF RegistryInv, Serves, Lists
<1>4. ASSUME NEW r \in Registrations, Call(t, r) PROVE RegistryInv'
  <2>1. /\ tpc' = [tpc EXCEPT ![t] = "lock"] /\ item' = [item EXCEPT ![t] = r]
        /\ UNCHANGED <<registry, mutex, copy, made>>
    BY <1>4, Zenon DEF Call
  <2>2. Preparing'
    BY <1>2, <2>1, Zenon DEF Preparing
  <2> QED
    BY <1>3, <2>1, <2>2, Zenon
<1>5. CASE Lock(t)
  <2>1. /\ tpc[t] = "lock" /\ mutex = "free" /\ mutex' = t /\ tpc' = [tpc EXCEPT ![t] = "copy"]
        /\ UNCHANGED <<registry, item, copy, made>>
    BY <1>5, Zenon DEF Lock
  <2>2. \A v \in Threads : tpc[v] \notin {"copy", "publish"}
    BY <1>2, <2>1, RegistrationAssumption, Zenon
  <2>3. Preparing'
    BY <1>2, <2>1, <2>2, Zenon DEF Preparing
  <2> QED
    BY <1>3, <2>1, <2>3, Zenon
<1>6. CASE Copy(t)
  <2>1. /\ tpc[t] = "copy" /\ copy' = [copy EXCEPT ![t] = registry]
        /\ tpc' = [tpc EXCEPT ![t] = "publish"] /\ UNCHANGED <<registry, mutex, item, made>>
    BY <1>6, Zenon DEF Copy
  <2>2. Preparing'
    BY <1>2, <2>1, Zenon DEF Preparing
  <2> QED
    BY <1>3, <2>1, <2>2, Zenon
<1>7. CASE Publish(t)
  <2>1. /\ tpc[t] = "publish" /\ tpc' = [tpc EXCEPT ![t] = "idle"] /\ mutex' = "free"
        /\ item' = [item EXCEPT ![t] = <<>>] /\ copy' = [copy EXCEPT ![t] = <<>>]
    BY <1>7, Zenon DEF Publish
  <2>2. mutex = t /\ copy[t] = registry /\ item[t] \in Registrations
    BY <1>2, <2>1, Zenon
  <2>3. \A v \in Threads \ {t} : tpc[v] \notin {"copy", "publish"}
    BY <1>2, <2>2, Zenon
  <2>4. Preparing'
    BY <1>2, <2>1, <2>3, Zenon DEF Preparing
  <2>5. CASE Taken(copy[t], item[t])
    BY <1>3, <1>7, <2>4, <2>5, Zenon DEF Publish
  <2>6. CASE ~Taken(copy[t], item[t])
    <3>1. registry' \in Add(registry, item[t]) /\ made' = made \cup {item[t]}
      BY <1>7, <2>2, <2>6, Zenon DEF Publish
    <3>2. Serves(registry', made')
      BY <2>2, <2>6, <3>1, AddServes, Zenon DEF RegistryInv
    <3>3. made' \subseteq Registrations
      BY <2>2, <3>1, Zenon DEF RegistryInv
    <3> QED
      BY <2>4, <3>2, <3>3, Zenon DEF RegistryInv, Serves, Lists
  <2> QED
    BY <2>5, <2>6, Zenon
<1> QED
  BY <1>4, <1>5, <1>6, <1>7, Zenon

\* The first prefix of the sorted list that matches is the longest one.
LEMMA FirstIsLongest ==
    ASSUME NEW half \in Halves, NEW route \in Routes, RegistryInv
    PROVE  LET list == registry[half].prefixes
               matching == {i \in DOMAIN list : IsPrefix(list[i].handler.route, route)}
               prefixes == {r \in made : Half(r) = half /\ ForPrefix(r) /\ IsPrefix(r.route, route)}
           IN  {list[i] : i \in {j \in matching : \A k \in matching : j <= k}}
                 = {MakeEntry(r) : r \in {r \in prefixes :
                                            \A s \in prefixes : Len(s.route) <= Len(r.route)}}
<1> DEFINE list == registry[half].prefixes
           matching == {i \in DOMAIN list : IsPrefix(list[i].handler.route, route)}
           prefixes == {r \in made : Half(r) = half /\ ForPrefix(r) /\ IsPrefix(r.route, route)}
           first == {j \in matching : \A k \in matching : j <= k}
           longest == {r \in prefixes : \A s \in prefixes : Len(s.route) <= Len(r.route)}
<1>1. Lists(list, PrefixRoutes(made, half)) /\ made \subseteq Registrations
  BY Zenon DEF RegistryInv, Serves
<1>2. \A r, s \in prefixes : r.route = s.route => r = s
  BY Zenon DEF RegistryInv, Serves
<1>3. \A r \in prefixes : r.route \in Seq(Nat) /\ Len(r.route) \in Nat
  <2>1. \A r \in prefixes : r.route \in Seq(Nat)
    BY <1>1, RegistrationAssumption, Zenon
  <2> QED
    <3> HIDE DEF prefixes
    <3> QED
      BY <2>1
<1>4. DOMAIN list \subseteq Int
  BY <1>1 DEF Lists
<1> HIDE DEF list
<1>5. \A i \in matching : \E r \in prefixes : list[i] = MakeEntry(r)
  <2> SUFFICES ASSUME NEW i \in matching PROVE \E r \in prefixes : list[i] = MakeEntry(r)
    BY Zenon
  <2>1. list[i] \in {MakeEntry(r) : r \in PrefixRoutes(made, half)}
    BY <1>1, Zenon DEF Lists, ToSet
  <2>2. PICK r \in PrefixRoutes(made, half) : list[i] = MakeEntry(r)
    BY <2>1, Zenon
  <2>3. IsPrefix(r.route, route)
    BY <2>2, EntryOf, Zenon
  <2> QED
    BY <2>2, <2>3, Zenon DEF PrefixRoutes
<1>6. \A r \in prefixes : \E i \in matching : list[i] = MakeEntry(r)
  <2> SUFFICES ASSUME NEW r \in prefixes PROVE \E i \in matching : list[i] = MakeEntry(r)
    BY Zenon
  <2>1. MakeEntry(r) \in ToSet(list)
    BY <1>1, Zenon DEF Lists, PrefixRoutes
  <2>2. PICK i \in DOMAIN list : list[i] = MakeEntry(r)
    BY <2>1, Zenon DEF ToSet
  <2> QED
    BY <2>2, EntryOf, Zenon
<1>7. ASSUME NEW i \in first, NEW r \in prefixes, list[i] = MakeEntry(r) PROVE r \in longest
  <2> SUFFICES ASSUME NEW s \in prefixes PROVE Len(s.route) <= Len(r.route)
    BY <1>7, Zenon
  <2>1. PICK k \in matching : list[k] = MakeEntry(s)
    BY <1>6, Zenon
  <2>2. i \in DOMAIN list /\ k \in DOMAIN list /\ i <= k
    BY Zenon
  <2>3. list[i].handler = r /\ list[k].handler = s
    BY <1>7, <2>1, EntryOf, Zenon
  <2>4. CASE i = k
    BY <1>3, <2>3, <2>4
  <2>5. CASE i < k
    <3>1. Len(list[i].handler.route) >= Len(list[k].handler.route)
      BY <1>1, <2>2, <2>5, Zenon DEF Lists, Sorted
    <3> QED
      BY <1>3, <2>3, <3>1
  <2> QED
    BY <1>4, <2>2, <2>4, <2>5
<1>8. ASSUME NEW r \in longest, NEW i \in matching, list[i] = MakeEntry(r) PROVE i \in first
  <2> SUFFICES ASSUME NEW k \in matching, k < i PROVE FALSE
    BY <1>4, <1>8
  <2>1. PICK s \in prefixes : list[k] = MakeEntry(s)
    BY <1>5, Zenon
  <2>2. list[i].handler = r /\ list[k].handler = s
    BY <1>8, <2>1, EntryOf, Zenon
  <2>3. Len(list[k].handler.route) >= Len(list[i].handler.route)
    BY <1>1, Zenon DEF Lists, Sorted
  <2>4. Len(s.route) = Len(r.route)
    BY <1>3, <2>2, <2>3
  <2>5. s.route = r.route
    BY <1>3, <2>4, SamePrefix, RegistrationAssumption, Zenon
  <2>6. s = r
    BY <1>2, <2>5, Zenon
  <2>7. k = i
    BY <1>1, <1>8, <2>1, <2>6, Zenon DEF Lists
  <2> QED
    BY <1>4, <2>7
<1>9. \A e : (\E i \in first : e = list[i]) <=> (\E r \in longest : e = MakeEntry(r))
  <2>1. ASSUME NEW i \in first PROVE \E r \in longest : list[i] = MakeEntry(r)
    <3>1. PICK r \in prefixes : list[i] = MakeEntry(r)
      BY <1>5, Zenon
    <3> QED
      BY <1>7, <3>1, Zenon
  <2>2. ASSUME NEW r \in longest PROVE \E i \in first : list[i] = MakeEntry(r)
    <3>1. PICK i \in matching : list[i] = MakeEntry(r)
      BY <1>6, Zenon
    <3> QED
      BY <1>8, <3>1, Zenon
  <2> HIDE DEF first, longest
  <2> QED
    BY <2>1, <2>2, Zenon
<1>10. {list[i] : i \in first} = {MakeEntry(r) : r \in longest}
  <2> HIDE DEF first, longest
  <2> QED
    BY <1>9, Zenon
<1> QED
  BY <1>10, Zenon DEF list

\* A route is served by its own handler, or else by the longest prefix of it that is
\* registered, under the scheduling that the registration asked for, for any threads that
\* register at once, any registrations and any routes: no registration that returned is lost.
THEOREM LongestPrefixServes == RegistrySpec => []LongestPrefixWins
<1>1. RegistryInv => LongestPrefixWins
  <2> SUFFICES ASSUME RegistryInv, NEW half \in Halves, NEW route \in Routes
               PROVE  LET own == {r \in made : Half(r) = half /\ ~ForPrefix(r) /\ r.route = route}
                          prefixes == {r \in made : /\ Half(r) = half /\ ForPrefix(r)
                                                    /\ IsPrefix(r.route, route)}
                          longest == {r \in prefixes : \A s \in prefixes : Len(s.route) <= Len(r.route)}
                      IN  {<<e.handler, RouteScheduling(e)>> : e \in Find(registry, half, route)} =
                              {<<r, Asked(r)>> : r \in IF own # {} THEN own ELSE longest}
    BY Zenon DEF LongestPrefixWins
  <2> DEFINE own == {r \in made : Half(r) = half /\ ~ForPrefix(r) /\ r.route = route}
             prefixes == {r \in made : Half(r) = half /\ ForPrefix(r) /\ IsPrefix(r.route, route)}
             longest == {r \in prefixes : \A s \in prefixes : Len(s.route) <= Len(r.route)}
             exact == {e \in registry[half].exact : e.handler.route = route}
             served == IF own # {} THEN own ELSE longest
  <2>1. exact = {MakeEntry(r) : r \in own}
    <3>1. registry[half].exact = {MakeEntry(r) : r \in OwnRoutes(made, half)}
      BY Zenon DEF RegistryInv, Serves
    <3>2. \A e : e \in exact <=> \E r \in own : e = MakeEntry(r)
      BY <3>1, EntryOf, Zenon DEF OwnRoutes
    <3> HIDE DEF exact, own
    <3> QED
      BY <3>2, Zenon
  <2>2. Find(registry, half, route) = {MakeEntry(r) : r \in served}
    <3>1. CASE own # {}
      <4>1. exact # {} /\ served = own
        BY <2>1, <3>1, Zenon
      <4>2. Find(registry, half, route) = exact
        BY <4>1, Zenon DEF Find
      <4> QED
        BY <2>1, <4>1, <4>2, Zenon
    <3>2. CASE own = {}
      <4>1. exact = {} /\ served = longest
        BY <2>1, <3>2, Zenon
      <4>2. Find(registry, half, route) = {MakeEntry(r) : r \in longest}
        BY <4>1, FirstIsLongest, Zenon DEF Find
      <4> QED
        BY <4>1, <4>2, Zenon
    <3> QED
      BY <3>1, <3>2, Zenon
  <2>3. \A r : MakeEntry(r).handler = r /\ RouteScheduling(MakeEntry(r)) = Asked(r)
    BY EntryOf, Zenon
  <2>4. {<<e.handler, RouteScheduling(e)>> : e \in Find(registry, half, route)}
          = {<<r, Asked(r)>> : r \in served}
    <3> HIDE DEF served
    <3> QED
      BY <2>2, <2>3, Zenon
  <2> QED
    BY <2>4, Zenon
<1> QED
  BY RegistryStarts, RegistryStep, <1>1, PTL DEF RegistrySpec
=============================================================================
