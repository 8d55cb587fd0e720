-------------------------------- MODULE Lemmas --------------------------------
(***************************************************************************)
(* What the proofs share: facts about the operators the components are     *)
(* built from, each stated once.                                           *)
(*                                                                         *)
(*   - access-control lists (AccessControl);                               *)
(*   - induction over the naturals and over finite sets.  The library's    *)
(*     induction theorems take an operator, which cannot be instantiated   *)
(*     here, so a property is given by the set that has it;                *)
(*   - sums over finite sets;                                              *)
(*   - event logs and RTMR3 (Attestation).                                 *)
(***************************************************************************)
EXTENDS AccessControl, Attestation, Integers, FiniteSetTheorems, TLAPS

-----------------------------------------------------------------------------
(* Access-control lists *)

\* A call leaves an access-control list one, whoever calls: no acl_* method of
\* the AccessControllable plugin adds an account or a role that is not there.
LEMMA AclCallsType ==
    ASSUME NEW R, NEW a \in Acl(R), NEW caller \in Accounts, NEW b \in AclCalls(a, caller)
    PROVE  b \in Acl(R)
<1>0. /\ DOMAIN a.admins = R /\ DOMAIN a.grantees = R
      /\ a.super_admins \subseteq Accounts
      /\ \A r \in R : a.admins[r] \subseteq Accounts /\ a.grantees[r] \subseteq Accounts
      /\ Administers(a, caller) \subseteq R
  BY DEF Acl, Administers
<1>1. CASE b \in acl_add_super_admin(a, caller) \cup acl_revoke_super_admin(a, caller)
  BY <1>0, <1>1 DEF Acl, acl_add_super_admin, acl_revoke_super_admin
<1>2. CASE b \in acl_add_admin(a, caller) \cup acl_revoke_admin(a, caller)
  BY <1>0, <1>2 DEF Acl, acl_add_admin, acl_revoke_admin
<1>3. CASE b \in acl_renounce_admin(a, caller)
  BY <1>0, <1>3 DEF Acl, acl_renounce_admin
<1>4. CASE b \in acl_grant_role(a, caller) \cup acl_revoke_role(a, caller)
  BY <1>0, <1>4 DEF Acl, acl_grant_role, acl_revoke_role
<1>5. CASE b \in acl_renounce_role(a, caller)
  BY <1>0, <1>5 DEF Acl, acl_renounce_role
<1>6. QED
  BY <1>1, <1>2, <1>3, <1>4, <1>5 DEF AclCalls

\* The constructor's list names only the owner, who is an account (lib.rs:142-145).
LEMMA InitialAclType ==
    ASSUME NEW R, NEW owner \in Accounts
    PROVE  InitialAcl(owner, R) \in Acl(R)
  BY DEF InitialAcl, Acl

\* On a list with no admin and no super admin, roles can only be renounced: whoever
\* calls, nobody is appointed and no role gains a grantee.
LEMMA NobodyAppoints ==
    ASSUME NEW R, NEW a \in Acl(R), Unadministered(a),
           NEW caller \in Accounts, NEW b \in AclCalls(a, caller)
    PROVE  Unadministered(b) /\ \A r \in R : b.grantees[r] \subseteq a.grantees[r]
<1>0. /\ DOMAIN a.admins = R /\ DOMAIN a.grantees = R /\ a.super_admins = {}
      /\ \A r \in R : a.admins[r] = {}
      /\ a.admins \in [R -> SUBSET Accounts] /\ a.grantees \in [R -> SUBSET Accounts]
  BY DEF Acl, Unadministered
<1>1. Administers(a, caller) = {}
  BY <1>0 DEF Administers
<1>2. \/ b \in acl_renounce_admin(a, caller) \/ b \in acl_renounce_role(a, caller)
  BY <1>0, <1>1 DEF AclCalls, acl_add_super_admin, acl_revoke_super_admin, acl_add_admin,
                    acl_revoke_admin, acl_grant_role, acl_revoke_role
<1>3. CASE b \in acl_renounce_admin(a, caller)
  BY <1>0, <1>3 DEF acl_renounce_admin, Unadministered, Acl
<1>4. CASE b \in acl_renounce_role(a, caller)
  BY <1>0, <1>4 DEF acl_renounce_role, Unadministered, Acl
<1>5. QED
  BY <1>2, <1>3, <1>4

\* A list with no admin, no super admin and no grantee stays as it is: what
\* anybody can still call, renouncing, takes away nothing.
LEMMA EmptyAclStays ==
    ASSUME NEW R, NEW a \in Acl(R), Unadministered(a), \A r \in R : a.grantees[r] = {},
           NEW caller \in Accounts, NEW b \in AclCalls(a, caller)
    PROVE  b = a
<1>0. /\ DOMAIN a.admins = R /\ DOMAIN a.grantees = R /\ a.super_admins = {}
      /\ \A r \in R : a.admins[r] = {} /\ a.grantees[r] = {}
      /\ a.admins \in [R -> SUBSET Accounts] /\ a.grantees \in [R -> SUBSET Accounts]
  BY DEF Acl, Unadministered
<1>1. Administers(a, caller) = {}
  BY <1>0 DEF Administers
<1>2. \/ b \in acl_renounce_admin(a, caller) \/ b \in acl_renounce_role(a, caller)
  BY <1>0, <1>1 DEF AclCalls, acl_add_super_admin, acl_revoke_super_admin, acl_add_admin,
        acl_revoke_admin, acl_grant_role, acl_revoke_role
<1>3. CASE b \in acl_renounce_admin(a, caller)
  <2>1. PICK r \in R : b = [a EXCEPT !.admins = [a.admins EXCEPT ![r] = @ \ {caller}]]
    BY <1>0, <1>3 DEF acl_renounce_admin, Acl
  <2>2. [a.admins EXCEPT ![r] = @ \ {caller}] = a.admins
    BY <1>0
  <2>3. QED
    BY <2>1, <2>2 DEF Acl
<1>4. CASE b \in acl_renounce_role(a, caller)
  <2>1. PICK r \in R : b = [a EXCEPT !.grantees = [a.grantees EXCEPT ![r] = @ \ {caller}]]
    BY <1>0, <1>4 DEF acl_renounce_role, Acl
  <2>2. [a.grantees EXCEPT ![r] = @ \ {caller}] = a.grantees
    BY <1>0
  <2>3. QED
    BY <2>1, <2>2 DEF Acl
<1>5. QED
  BY <1>2, <1>3, <1>4

-----------------------------------------------------------------------------
(* Induction *)

\* A family of subsets of a finite set has a smallest one.
LEMMA MinimalSubset ==
    ASSUME NEW S, IsFiniteSet(S), NEW T, T \subseteq SUBSET S, T # {}
    PROVE  \E x \in T : \A y \in T : y \subseteq x => y = x
<1> DEFINE R == StrictSubsetOrdering(S)
<1>1. IsWellFoundedOn(R, SUBSET S)
  BY FS_StrictSubsetOrderingWellFounded, FS_FiniteSubsetsOfFinite
<1>2. PICK x \in T : \A y \in T : ~ (<<y, x>> \in R)
  <2> HIDE DEF R
  <2>1. QED
    BY <1>1, WFMin
<1>3. QED
  BY <1>2 DEF StrictSubsetOrdering

\* A set of naturals has a least one.
LEMMA NatLeast ==
    ASSUME NEW T, T \subseteq Nat, T # {}
    PROVE  \E x \in T : \A y \in T : x <= y
<1>1. PICK m \in T : TRUE
  OBVIOUS
<1> DEFINE U == {0..k : k \in {j \in T : j <= m}}
<1>2. IsFiniteSet(0..m) /\ U \subseteq SUBSET (0..m) /\ U # {}
  <2>1. m \in Int /\ 0 \in Int
    BY <1>1
  <2>2. IsFiniteSet(0..m)
    BY <2>1, FS_Interval
  <2>3. QED
    BY <2>2, <2>1
<1>3. \E u \in U : \A v \in U : v \subseteq u => v = u
  <2> DEFINE D == 0..m
  <2>1. IsFiniteSet(D) /\ U \subseteq SUBSET D /\ U # {}
    BY <1>2
  <2> HIDE DEF U, D
  <2>2. QED
    BY <2>1, MinimalSubset, SMTT(20)
<1>4. PICK x \in {j \in T : j <= m} : \A v \in U : v \subseteq 0..x => v = 0..x
  BY <1>3
<1>5. ASSUME NEW y \in T, y < x PROVE FALSE
  <2>1. x \in Nat /\ y \in Nat /\ y <= m
    BY <1>1, <1>4, <1>5
  <2>2. 0..y \in U
    BY <2>1
  <2>3. 0..y \subseteq 0..x
    BY <2>1, <1>5
  <2>4. 0..y = 0..x
    BY <2>2, <2>3, <1>4
  <2>5. x \in 0..x /\ x \notin 0..y
    BY <2>1, <1>5
  <2>6. QED
    BY <2>4, <2>5
<1>6. QED
  BY <1>4, <1>5

\* Induction: P is the set of the naturals that have a property.
LEMMA NatInductionSet ==
    ASSUME NEW P, 0 \in P, \A n \in Nat : n \in P => n + 1 \in P
    PROVE  Nat \subseteq P
<1> DEFINE T == Nat \ P
<1> SUFFICES ASSUME T # {} PROVE FALSE
  OBVIOUS
<1>1. PICK x \in T : \A y \in T : x <= y
  BY NatLeast
<1>2. x \in Nat /\ x # 0
  BY <1>1
<1>3. x - 1 \in Nat /\ ~(x <= x - 1) /\ x - 1 + 1 = x
  BY <1>2
<1>4. QED
  BY <1>1, <1>2, <1>3

-----------------------------------------------------------------------------
(* Sums over finite sets *)

\* How SumFunctionOnSet adds up: it takes out one element after the other, g being
\* the sums of the smaller sets.
Pick(s) == CHOOSE x \in s : TRUE
SumFrom(f, g, s) == IF s = {} THEN 0 ELSE f[Pick(s)] + g[s \ {Pick(s)}]
IsSumming(g, f, U) == g = [s \in U |-> SumFrom(f, g, s)]

\* What is picked from a set that has an element is one.
LEMMA PickIn == ASSUME NEW s, s # {} PROVE Pick(s) \in s
  BY DEF Pick

\* A sum depends on the sums of the set without what is picked, and no others.
LEMMA SumFromLocal ==
    ASSUME NEW f, NEW g, NEW h, NEW s, s # {} => g[s \ {Pick(s)}] = h[s \ {Pick(s)}]
    PROVE  SumFrom(f, g, s) = SumFrom(f, h, s)
  BY DEF SumFrom

\* The sums over the subsets of a finite set exist: the recursion is well founded.
LEMMA SummingExists ==
    ASSUME NEW S, IsFiniteSet(S), NEW f
    PROVE  \E g : IsSumming(g, f, SUBSET S)
<1> DEFINE Upto(n) == {s \in SUBSET S : Cardinality(s) <= n}
           P == {n \in Nat : \E g : IsSumming(g, f, Upto(n))}
<1>0. \A s \in SUBSET S : IsFiniteSet(s) /\ Cardinality(s) \in Nat /\ Cardinality(s) <= Cardinality(S)
  BY FS_Subset, FS_CardinalityType
<1>1. 0 \in P
  <2> DEFINE g == [s \in Upto(0) |-> 0]
  <2>1. \A s \in Upto(0) : s = {}
    BY <1>0, FS_EmptySet
  <2>2. \A s \in Upto(0) : SumFrom(f, g, s) = 0
    BY <2>1 DEF SumFrom
  <2>3. IsSumming(g, f, Upto(0))
    BY <2>2 DEF IsSumming
  <2>4. QED
    BY <2>3
<1>2. ASSUME NEW n \in Nat, n \in P PROVE n + 1 \in P
  <2>1. PICK g : IsSumming(g, f, Upto(n))
    BY <1>2
  <2> DEFINE h == [s \in Upto(n + 1) |-> SumFrom(f, g, s)]
  <2>2. Upto(n) \subseteq Upto(n + 1)
    BY <1>0
  <2>3. \A s \in Upto(n) : h[s] = g[s]
    BY <2>1, <2>2 DEF IsSumming
  <2>4. \A s \in Upto(n + 1) : s # {} => s \ {Pick(s)} \in Upto(n)
    BY <1>0, PickIn, FS_RemoveElement
  <2>5. \A s \in Upto(n + 1) : SumFrom(f, g, s) = SumFrom(f, h, s)
    <3> HIDE DEF h, Upto
    <3>1. QED
      BY <2>3, <2>4, SumFromLocal
  <2>6. IsSumming(h, f, Upto(n + 1))
    <3>1. h = [s \in Upto(n + 1) |-> SumFrom(f, g, s)]
      OBVIOUS
    <3> HIDE DEF h, Upto
    <3>2. QED
      BY <2>5, <3>1 DEF IsSumming
  <2>7. QED
    <3> HIDE DEF h, Upto
    <3>1. QED
      BY <2>6
<1>3. Nat \subseteq P
  <2> HIDE DEF P
  <2>1. QED
    BY <1>1, <1>2, NatInductionSet
<1>4. Upto(Cardinality(S)) = SUBSET S /\ Cardinality(S) \in Nat
  BY <1>0
<1>5. QED
  BY <1>3, <1>4

\* A sum is one summand, picked, and the sum of the others.
LEMMA SumUnfold ==
    ASSUME NEW S, IsFiniteSet(S), NEW f
    PROVE  SumFunctionOnSet(f, S) = IF S = {} THEN 0
                                    ELSE f[Pick(S)] + SumFunctionOnSet(f, S \ {Pick(S)})
<1> DEFINE T == S \ {Pick(S)}
           G(U) == CHOOSE g : IsSumming(g, f, SUBSET U)
           B == {s \in SUBSET T : G(S)[s] # G(T)[s]}
<1>1. \A U \in {S, T} : SumFunctionOnSet(f, U) = G(U)[U]
  BY Zenon DEF MapThenFoldSet, SumFunctionOnSet, FoldFunctionOnSet, IsSumming, SumFrom, Pick
<1>2. IsFiniteSet(T) /\ T \subseteq S
  BY FS_RemoveElement
<1>3. \A U \in {S, T} : IsSumming(G(U), f, SUBSET U)
  <2> HIDE DEF T
  <2>1. QED
    BY <1>2, SummingExists
<1>4. /\ \A s \in SUBSET S : G(S)[s] = SumFrom(f, G(S), s)
      /\ \A s \in SUBSET T : G(T)[s] = SumFrom(f, G(T), s)
  <2> HIDE DEF G, T
  <2>1. QED
    BY <1>3 DEF IsSumming
<1>5. B = {}
  <2> HIDE DEF G, T
  <2> SUFFICES ASSUME B # {} PROVE FALSE
    OBVIOUS
  <2>1. B \subseteq SUBSET T
    OBVIOUS
  <2>2. PICK s \in B : \A t \in B : t \subseteq s => t = s
    <3> HIDE DEF B
    <3>1. QED
      BY <1>2, <2>1, MinimalSubset, SMTT(20)
  <2>3. s # {}
    BY <1>2, <1>4, <2>2 DEF SumFrom
  <2>4. Pick(s) \in s /\ s \ {Pick(s)} \in SUBSET T
    BY <2>2, <2>3, PickIn
  <2>5. G(S)[s \ {Pick(s)}] = G(T)[s \ {Pick(s)}]
    BY <2>2, <2>4
  <2>6. QED
    BY <1>2, <1>4, <2>2, <2>3, <2>5 DEF SumFrom
<1>6. S # {} => G(S)[T] = G(T)[T]
  BY <1>5
<1>7. G(S)[S] = SumFrom(f, G(S), S)
  BY <1>4
<1>8. QED
  BY <1>1, <1>6, <1>7 DEF SumFrom

\* A sum of naturals is one, and it does not matter which summand is taken first.
LEMMA SumTakes ==
    ASSUME NEW S, IsFiniteSet(S), NEW f, \A x \in S : f[x] \in Nat
    PROVE  /\ SumFunctionOnSet(f, S) \in Nat
           /\ \A x \in S : SumFunctionOnSet(f, S) = f[x] + SumFunctionOnSet(f, S \ {x})
<1> DEFINE Sum(s) == SumFunctionOnSet(f, s)
           Good(s) == Sum(s) \in Nat /\ \A x \in s : Sum(s) = f[x] + Sum(s \ {x})
           B == {s \in SUBSET S : ~Good(s)}
<1>0. \A s \in SUBSET S : IsFiniteSet(s)
  BY FS_Subset
<1>a. \A s \in SUBSET S : Sum(s) = IF s = {} THEN 0 ELSE f[Pick(s)] + Sum(s \ {Pick(s)})
  BY <1>0, SumUnfold
<1> HIDE DEF Sum
<1>b. B = {}
  <2> SUFFICES ASSUME B # {} PROVE FALSE
    OBVIOUS
  <2>1. PICK s \in B : \A t \in B : t \subseteq s => t = s
    <3>1. B \subseteq SUBSET S
      OBVIOUS
    <3> HIDE DEF B
    <3>2. QED
      BY <3>1, MinimalSubset, SMTT(20)
  <2>2. s \in SUBSET S /\ ~Good(s) /\ \A t \in SUBSET S : t \subseteq s /\ t # s => Good(t)
    BY <2>1
  <2>3. CASE s = {}
    <3>1. Sum(s) = 0
      BY <1>a, <2>2, <2>3
    <3>2. QED
      BY <2>2, <2>3, <3>1
  <2>4. CASE s # {}
    <3> DEFINE c == Pick(s)
    <3>1. c \in s
      BY <2>4, PickIn
    <3>2. Sum(s) = f[c] + Sum(s \ {c})
      BY <1>a, <2>2, <2>4
    <3> HIDE DEF c, Good
    <3>3. \A x \in s : Good(s \ {x}) /\ f[x] \in Nat
      BY <2>2
    <3>4. \A x \in s : Sum(s \ {x}) \in Nat
      BY <3>3 DEF Good
    <3>5. ASSUME NEW x \in s, x # c PROVE Sum(s) = f[x] + Sum(s \ {x})
      <4> DEFINE r == s \ {x, c}
      <4>1. (s \ {c}) \ {x} = r /\ (s \ {x}) \ {c} = r /\ x \in s \ {c} /\ c \in s \ {x}
        BY <3>1, <3>5
      <4>2. r \in SUBSET S /\ r \subseteq s /\ r # s
        BY <2>2, <3>1, <3>5
      <4>3. Sum(r) \in Nat
        BY <2>2, <4>2 DEF Good
      <4>4. Good(s \ {c}) /\ Good(s \ {x})
        BY <3>1, <3>3
      <4>5. /\ Sum(s \ {c}) = f[x] + Sum((s \ {c}) \ {x})
            /\ Sum(s \ {x}) = f[c] + Sum((s \ {x}) \ {c})
        BY <4>1, <4>4 DEF Good
      <4>6. Sum(s \ {c}) = f[x] + Sum(r) /\ Sum(s \ {x}) = f[c] + Sum(r)
        BY <4>1, <4>5
      <4>7. f[x] \in Nat /\ f[c] \in Nat
        BY <3>1, <3>3
      <4> HIDE DEF r
      <4>8. QED
        BY <3>2, <4>3, <4>6, <4>7
    <3>6. Sum(s) \in Nat
      BY <3>1, <3>2, <3>3, <3>4
    <3>7. Good(s)
      BY <3>2, <3>5, <3>6 DEF Good
    <3>8. QED
      BY <2>2, <3>7
  <2>5. QED
    BY <2>3, <2>4
<1>c. Good(S)
  BY <1>b
<1>d. QED
  BY <1>c DEF Sum

\* Functions that agree on a set have the same sum over it.
LEMMA SumSame ==
    ASSUME NEW S, IsFiniteSet(S), NEW f, NEW e, \A x \in S : f[x] = e[x]
    PROVE  SumFunctionOnSet(f, S) = SumFunctionOnSet(e, S)
<1> DEFINE B == {s \in SUBSET S : SumFunctionOnSet(f, s) # SumFunctionOnSet(e, s)}
<1> SUFFICES ASSUME B # {} PROVE FALSE
  OBVIOUS
<1>1. PICK s \in B : \A t \in B : t \subseteq s => t = s
  <2>1. B \subseteq SUBSET S
    OBVIOUS
  <2> HIDE DEF B
  <2>2. QED
    BY <2>1, MinimalSubset, SMTT(20)
<1>2. IsFiniteSet(s) /\ s \in SUBSET S
  BY <1>1, FS_Subset
<1>3. s # {}
  BY <1>1, <1>2, SumUnfold
<1>4. Pick(s) \in s /\ s \ {Pick(s)} \in SUBSET S
  BY <1>2, <1>3, PickIn
<1>5. SumFunctionOnSet(f, s \ {Pick(s)}) = SumFunctionOnSet(e, s \ {Pick(s)})
  BY <1>1, <1>4
<1>6. /\ SumFunctionOnSet(f, s) = f[Pick(s)] + SumFunctionOnSet(f, s \ {Pick(s)})
      /\ SumFunctionOnSet(e, s) = e[Pick(s)] + SumFunctionOnSet(e, s \ {Pick(s)})
  BY <1>2, <1>3, SumUnfold
<1>7. f[Pick(s)] = e[Pick(s)]
  BY <1>2, <1>4
<1>8. QED
  BY <1>1, <1>5, <1>6, <1>7

\* A summand more is its value more.
LEMMA SumWith ==
    ASSUME NEW S, IsFiniteSet(S), NEW a, a \notin S, NEW f, \A x \in S \cup {a} : f[x] \in Nat
    PROVE  SumFunctionOnSet(f, S \cup {a}) = f[a] + SumFunctionOnSet(f, S)
<1> DEFINE T == S \cup {a}
<1>1. IsFiniteSet(T) /\ a \in T /\ T \ {a} = S /\ \A x \in T : f[x] \in Nat
  BY FS_AddElement
<1> HIDE DEF T
<1>2. \A x \in T : SumFunctionOnSet(f, T) = f[x] + SumFunctionOnSet(f, T \ {x})
  BY <1>1, SumTakes
<1>3. QED
  BY <1>1, <1>2 DEF T

\* Adding to one value adds to the sum.
LEMMA SumAdd ==
    ASSUME NEW S, IsFiniteSet(S), NEW f \in [S -> Nat], NEW a \in S, NEW d \in Nat
    PROVE  SumFunction([f EXCEPT ![a] = @ + d]) = SumFunction(f) + d
<1> DEFINE e == [f EXCEPT ![a] = @ + d]
           T == S \ {a}
<1>0. IsFiniteSet(T) /\ T \cup {a} = S /\ a \notin T
  BY FS_RemoveElement
<1>1. e \in [S -> Nat] /\ e[a] = f[a] + d /\ \A x \in T : e[x] = f[x]
  OBVIOUS
<1> HIDE DEF e, T
<1>2. SumFunctionOnSet(e, S) = e[a] + SumFunctionOnSet(e, T)
  BY <1>0, <1>1, SumWith
<1>3. SumFunctionOnSet(f, S) = f[a] + SumFunctionOnSet(f, T)
  BY <1>0, SumWith
<1>4. SumFunctionOnSet(e, T) = SumFunctionOnSet(f, T)
  BY <1>0, <1>1, SumSame
<1>5. SumFunctionOnSet(f, T) \in Nat /\ f[a] \in Nat
  BY <1>0, SumTakes
<1>6. SumFunctionOnSet(e, S) = SumFunctionOnSet(f, S) + d
  BY <1>1, <1>2, <1>3, <1>4, <1>5
<1>7. QED
  BY <1>1, <1>6 DEF SumFunction, e

\* Zeros sum up to zero.
LEMMA SumZero ==
    ASSUME NEW S, IsFiniteSet(S), NEW f, \A x \in S : f[x] = 0
    PROVE  SumFunctionOnSet(f, S) = 0
<1> DEFINE B == {s \in SUBSET S : SumFunctionOnSet(f, s) # 0}
<1> SUFFICES ASSUME B # {} PROVE FALSE
  OBVIOUS
<1>1. PICK s \in B : \A t \in B : t \subseteq s => t = s
  <2>1. B \subseteq SUBSET S
    OBVIOUS
  <2> HIDE DEF B
  <2>2. QED
    BY <2>1, MinimalSubset, SMTT(20)
<1>2. IsFiniteSet(s) /\ s \in SUBSET S
  BY <1>1, FS_Subset
<1>3. s # {}
  BY <1>1, <1>2, SumUnfold
<1>4. Pick(s) \in s /\ s \ {Pick(s)} \in SUBSET S
  BY <1>2, <1>3, PickIn
<1>5. SumFunctionOnSet(f, s \ {Pick(s)}) = 0
  BY <1>1, <1>4
<1>6. SumFunctionOnSet(f, s) = f[Pick(s)] + SumFunctionOnSet(f, s \ {Pick(s)})
  BY <1>2, <1>3, SumUnfold
<1>7. QED
  BY <1>1, <1>2, <1>4, <1>5, <1>6

-----------------------------------------------------------------------------
(* Filtering a sequence *)

\* Step by step: what has been kept of the first i members, and from where.
KeptStep(g, s, W, i) == IF i = 0 THEN <<>> ELSE IF s[i] \in W THEN Append(g[i - 1], s[i]) ELSE g[i - 1]
IsKeeping(g, s, W, n) == g = [i \in 0..n |-> KeptStep(g, s, W, i)]

\* The recursion over the members is well founded.
LEMMA KeepingExists ==
    ASSUME NEW s, NEW W, NEW m \in Nat
    PROVE  \E g : IsKeeping(g, s, W, m)
<1> DEFINE P == {n \in Nat : \E g : IsKeeping(g, s, W, n)}
<1>1. 0 \in P
  <2> DEFINE g == [i \in 0..0 |-> <<>>]
  <2>1. \A i \in 0..0 : KeptStep(g, s, W, i) = <<>>
    BY DEF KeptStep
  <2>2. IsKeeping(g, s, W, 0)
    BY <2>1 DEF IsKeeping
  <2>3. QED
    BY <2>2
<1>2. ASSUME NEW n \in Nat, n \in P PROVE n + 1 \in P
  <2>1. PICK g : IsKeeping(g, s, W, n)
    BY <1>2
  <2> DEFINE h == [i \in 0..(n + 1) |-> KeptStep(g, s, W, i)]
  <2>2. \A i \in 0..n : h[i] = g[i]
    BY <2>1 DEF IsKeeping
  <2>3. \A i \in 0..(n + 1) : KeptStep(g, s, W, i) = KeptStep(h, s, W, i)
    <3> SUFFICES ASSUME NEW i \in 0..(n + 1), i # 0 PROVE KeptStep(g, s, W, i) = KeptStep(h, s, W, i)
      BY DEF KeptStep
    <3>1. i - 1 \in 0..n
      OBVIOUS
    <3> HIDE DEF h
    <3>2. QED
      BY <2>2, <3>1 DEF KeptStep
  <2>4. IsKeeping(h, s, W, n + 1)
    <3>1. h = [i \in 0..(n + 1) |-> KeptStep(g, s, W, i)]
      OBVIOUS
    <3> HIDE DEF h
    <3>2. QED
      BY <2>3, <3>1 DEF IsKeeping
  <2>5. QED
    <3> HIDE DEF h
    <3>1. QED
      BY <2>4
<1>3. QED
  <2> HIDE DEF P
  <2>1. Nat \subseteq P
    BY <1>1, <1>2, NatInductionSet
  <2>2. QED
    BY <2>1 DEF P

\* Kept is what has been kept after the last member.
LEMMA KeptIsKeeping ==
    ASSUME NEW S, NEW s \in Seq(S), NEW W
    PROVE  \E g : IsKeeping(g, s, W, Len(s)) /\ Kept(s, W) = g[Len(s)]
<1> DEFINE G == CHOOSE g : IsKeeping(g, s, W, Len(s))
<1>1. IsKeeping(G, s, W, Len(s))
  <2>1. Len(s) \in Nat
    OBVIOUS
  <2>2. QED
    BY <2>1, KeepingExists
<1>2. Kept(s, W) = G[Len(s)]
  BY DEF Kept, IsKeeping, KeptStep
<1>3. QED
  BY <1>1, <1>2

\* Where the members of t stand in s: every place of s with a member of W once.
Places(t, s, W, n) ==
    {p \in [1..Len(t) -> 1..n] :
        /\ \A k \in 1..Len(t) : t[k] = s[p[k]] /\ s[p[k]] \in W
        /\ \A j, k \in 1..Len(t) : p[j] = p[k] => j = k
        /\ \A i \in 1..n : s[i] \in W => \E k \in 1..Len(t) : p[k] = i}

\* What is kept are members of s, each from a place of its own, and all that are in W.
LEMMA KeptPlaces ==
    ASSUME NEW S, NEW s \in Seq(S), NEW W
    PROVE  Kept(s, W) \in Seq(S) /\ Places(Kept(s, W), s, W, Len(s)) # {}
<1>1. PICK g : IsKeeping(g, s, W, Len(s)) /\ Kept(s, W) = g[Len(s)]
  BY KeptIsKeeping
<1> DEFINE P == {n \in Nat : n <= Len(s) => g[n] \in Seq(S) /\ Places(g[n], s, W, n) # {}}
<1>2. Len(s) \in Nat /\ \A n \in 0..Len(s) : g[n] = KeptStep(g, s, W, n)
  BY <1>1 DEF IsKeeping
<1>3. 0 \in P
  <2>1. g[0] = <<>>
    BY <1>2 DEF KeptStep
  <2>2. <<>> \in Places(<<>>, s, W, 0) /\ <<>> \in Seq(S)
    BY DEF Places
  <2>3. g[0] \in Seq(S) /\ Places(g[0], s, W, 0) # {}
    BY <2>1, <2>2
  <2>4. QED
    BY <2>3
<1>4. ASSUME NEW n \in Nat, n \in P PROVE n + 1 \in P
  <2> SUFFICES ASSUME n + 1 <= Len(s)
               PROVE  g[n + 1] \in Seq(S) /\ Places(g[n + 1], s, W, n + 1) # {}
    OBVIOUS
  <2>0. g[n + 1] = IF s[n + 1] \in W THEN Append(g[n], s[n + 1]) ELSE g[n]
    <3>1. n + 1 \in 0..Len(s) /\ n + 1 # 0 /\ n + 1 - 1 = n
      BY <1>2
    <3>2. g[n + 1] = KeptStep(g, s, W, n + 1)
      BY <1>2, <3>1
    <3> HIDE DEF P
    <3>3. QED
      BY <3>1, <3>2 DEF KeptStep
  <2>1. g[n] \in Seq(S) /\ Places(g[n], s, W, n) # {}
    BY <1>2, <1>4
  <2>2. PICK p \in [1..Len(g[n]) -> 1..n] :
          /\ \A k \in 1..Len(g[n]) : g[n][k] = s[p[k]] /\ s[p[k]] \in W
          /\ \A j, k \in 1..Len(g[n]) : p[j] = p[k] => j = k
          /\ \A i \in 1..n : s[i] \in W => \E k \in 1..Len(g[n]) : p[k] = i
    BY <2>1 DEF Places
  <2>3. s[n + 1] \in S /\ Len(g[n]) \in Nat
    BY <1>2, <2>1
  <2>4. CASE s[n + 1] \in W
    <3> DEFINE t == g[n]
               m == Len(t) + 1
               q == [k \in 1..m |-> IF k = m THEN n + 1 ELSE p[k]]
    <3>1. g[n + 1] = Append(t, s[n + 1])
      BY <2>0, <2>4
    <3>2. /\ g[n + 1] \in Seq(S) /\ Len(g[n + 1]) = m /\ g[n + 1][m] = s[n + 1]
          /\ \A k \in 1..Len(t) : g[n + 1][k] = t[k]
      BY <2>1, <2>3, <3>1
    <3>a. \A k \in 1..m : k # m => k \in 1..Len(t)
      BY <2>3
    <3>b. \A k \in 1..Len(t) : p[k] \in 1..n
      BY <2>2
    <3>3. q \in [1..m -> 1..(n + 1)]
      <4>1. \A k \in 1..m : (IF k = m THEN n + 1 ELSE p[k]) \in 1..(n + 1)
        BY <3>a, <3>b
      <4>2. QED
        BY <4>1
    <3>4. \A k \in 1..m : k # m => k \in 1..Len(t) /\ q[k] = p[k] /\ p[k] \in 1..n
      BY <3>a, <3>b
    <3>5. q[m] = n + 1 /\ n + 1 \notin 1..n /\ m \in 1..m
      BY <2>3
    <3> HIDE DEF t, q
    <3>6. \A k \in 1..m : g[n + 1][k] = s[q[k]] /\ s[q[k]] \in W
      BY <2>2, <2>4, <3>2, <3>4, <3>5 DEF t
    <3>7. \A j, k \in 1..m : q[j] = q[k] => j = k
      BY <2>2, <3>4, <3>5 DEF t
    <3>8. \A i \in 1..(n + 1) : s[i] \in W => \E k \in 1..m : q[k] = i
      <4> SUFFICES ASSUME NEW i \in 1..(n + 1), s[i] \in W PROVE \E k \in 1..m : q[k] = i
        OBVIOUS
      <4>1. CASE i = n + 1
        BY <3>5, <4>1
      <4>2. CASE i # n + 1
        <5>1. PICK k \in 1..Len(t) : p[k] = i
          BY <2>2, <4>2 DEF t
        <5>2. k \in 1..m /\ k # m
          BY <2>3 DEF t
        <5>3. QED
          BY <3>4, <5>1, <5>2
      <4>3. QED
        BY <4>1, <4>2
    <3>9. q \in Places(g[n + 1], s, W, n + 1)
      BY <3>2, <3>3, <3>6, <3>7, <3>8 DEF Places
    <3>10. QED
      BY <3>2, <3>9
  <2>5. CASE s[n + 1] \notin W
    <3>1. g[n + 1] = g[n]
      BY <2>0, <2>5
    <3>2. p \in Places(g[n], s, W, n + 1)
      BY <2>2, <2>5 DEF Places
    <3>3. QED
      BY <2>1, <3>1, <3>2
  <2>6. QED
    BY <2>4, <2>5
<1>5. Nat \subseteq P
  <2> HIDE DEF P
  <2>1. QED
    BY <1>3, <1>4, NatInductionSet
<1>6. QED
  BY <1>1, <1>2, <1>5

\* If all are in W, all are kept as they are.
LEMMA KeptAll ==
    ASSUME NEW S, NEW s \in Seq(S), NEW W, \A i \in 1..Len(s) : s[i] \in W
    PROVE  Kept(s, W) = s
<1>1. PICK g : IsKeeping(g, s, W, Len(s)) /\ Kept(s, W) = g[Len(s)]
  BY KeptIsKeeping
<1>2. Len(s) \in Nat /\ \A n \in 0..Len(s) : g[n] = KeptStep(g, s, W, n)
  BY <1>1 DEF IsKeeping
<1> DEFINE First(n) == g[n] \in Seq(S) /\ Len(g[n]) = n /\ \A k \in 1..n : g[n][k] = s[k]
           P == {n \in Nat : n <= Len(s) => First(n)}
<1>3. 0 \in P
  <2>1. g[0] = <<>>
    BY <1>2 DEF KeptStep
  <2>2. First(0)
    BY <2>1
  <2>3. QED
    BY <2>2
<1>4. ASSUME NEW n \in Nat, n \in P PROVE n + 1 \in P
  <2> SUFFICES ASSUME n + 1 <= Len(s) PROVE First(n + 1)
    OBVIOUS
  <2>1. n + 1 \in 0..Len(s) /\ n + 1 # 0 /\ n + 1 - 1 = n /\ n + 1 \in 1..Len(s)
    BY <1>2
  <2>2. First(n)
    BY <1>2, <1>4
  <2> HIDE DEF P
  <2>3. g[n + 1] = KeptStep(g, s, W, n + 1) /\ s[n + 1] \in W /\ s[n + 1] \in S
    BY <1>2, <2>1
  <2>4. g[n + 1] = Append(g[n], s[n + 1])
    BY <2>1, <2>3 DEF KeptStep
  <2>5. /\ g[n + 1] \in Seq(S) /\ Len(g[n + 1]) = n + 1 /\ g[n + 1][n + 1] = s[n + 1]
        /\ \A k \in 1..n : g[n + 1][k] = g[n][k]
    <3> DEFINE t == g[n]
               e == s[n + 1]
    <3>1. t \in Seq(S) /\ Len(t) = n /\ e \in S /\ g[n + 1] = Append(t, e)
      BY <2>2, <2>3, <2>4
    <3> HIDE DEF t, e
    <3>2. /\ Append(t, e) \in Seq(S) /\ Len(Append(t, e)) = Len(t) + 1 /\ Append(t, e)[Len(t) + 1] = e
          /\ \A k \in 1..Len(t) : Append(t, e)[k] = t[k]
      BY <3>1
    <3>3. QED
      BY <3>1, <3>2 DEF t, e
  <2>6. \A k \in 1..(n + 1) : k = n + 1 \/ k \in 1..n
    OBVIOUS
  <2>7. QED
    BY <2>2, <2>5, <2>6
<1>5. Nat \subseteq P
  <2> HIDE DEF P
  <2>1. QED
    BY <1>3, <1>4, NatInductionSet
<1>6. First(Len(s))
  BY <1>2, <1>5
<1>7. QED
  BY <1>1, <1>2, <1>6

\* One member is kept if and only if there is only one, and it is that one.
LEMMA OneKept ==
    ASSUME NEW S, NEW s \in Seq(S), NEW W
    PROVE  /\ Len(Kept(s, W)) = 1
                => \E i \in 1..Len(s) : /\ Kept(s, W)[1] = s[i] /\ s[i] \in W
                                        /\ \A j \in 1..Len(s) : s[j] \in W => j = i
           /\ \A i \in 1..Len(s) :
                s[i] \in W /\ (\A j \in 1..Len(s) : s[j] \in W => j = i)
                  => Len(Kept(s, W)) = 1 /\ Kept(s, W)[1] = s[i]
<1> DEFINE t == Kept(s, W)
<1>1. t \in Seq(S) /\ Places(t, s, W, Len(s)) # {}
  BY KeptPlaces
<1> HIDE DEF t
<1>2. PICK p \in [1..Len(t) -> 1..Len(s)] :
        /\ \A k \in 1..Len(t) : t[k] = s[p[k]] /\ s[p[k]] \in W
        /\ \A j, k \in 1..Len(t) : p[j] = p[k] => j = k
        /\ \A i \in 1..Len(s) : s[i] \in W => \E k \in 1..Len(t) : p[k] = i
  BY <1>1 DEF Places
<1>3. Len(t) \in Nat
  BY <1>1
<1>4. ASSUME Len(t) = 1
      PROVE  \E i \in 1..Len(s) : /\ t[1] = s[i] /\ s[i] \in W
                                  /\ \A j \in 1..Len(s) : s[j] \in W => j = i
  <2>1. 1 \in 1..Len(t) /\ \A k \in 1..Len(t) : k = 1
    BY <1>4
  <2>2. p[1] \in 1..Len(s) /\ t[1] = s[p[1]] /\ s[p[1]] \in W
    BY <1>2, <2>1
  <2>3. \A j \in 1..Len(s) : s[j] \in W => j = p[1]
    BY <1>2, <2>1
  <2>4. QED
    BY <2>2, <2>3
<1>5. ASSUME NEW i \in 1..Len(s), s[i] \in W, \A j \in 1..Len(s) : s[j] \in W => j = i
      PROVE  Len(t) = 1 /\ t[1] = s[i]
  <2>1. PICK k \in 1..Len(t) : p[k] = i
    BY <1>2, <1>5
  <2>2. \A j \in 1..Len(t) : p[j] = i
    BY <1>2, <1>5
  <2>3. \A j \in 1..Len(t) : j = k
    BY <1>2, <2>1, <2>2
  <2>4. 1 \in 1..Len(t) /\ Len(t) \in 1..Len(t)
    BY <1>3, <2>1
  <2>5. k = 1 /\ Len(t) = 1
    BY <2>3, <2>4
  <2>6. QED
    BY <1>2, <2>1, <2>5
<1>6. QED
  BY <1>4, <1>5 DEF t

-----------------------------------------------------------------------------
(* Replaying an event log *)

\* The register after the first i digests.
ReplayStep(g, d, i) == IF i = 0 THEN Zero48 ELSE extend(g[i - 1], d[i])
IsReplaying(g, d, n) == g = [i \in 0..n |-> ReplayStep(g, d, i)]

\* The recursion over the digests is well founded.
LEMMA ReplayingExists ==
    ASSUME NEW d, NEW m \in Nat
    PROVE  \E g : IsReplaying(g, d, m)
<1> DEFINE P == {n \in Nat : \E g : IsReplaying(g, d, n)}
<1>1. 0 \in P
  <2> DEFINE g == [i \in 0..0 |-> Zero48]
  <2>1. \A i \in 0..0 : ReplayStep(g, d, i) = Zero48
    BY DEF ReplayStep
  <2>2. IsReplaying(g, d, 0)
    BY <2>1 DEF IsReplaying
  <2>3. QED
    BY <2>2
<1>2. ASSUME NEW n \in Nat, n \in P PROVE n + 1 \in P
  <2>1. PICK g : IsReplaying(g, d, n)
    BY <1>2
  <2> DEFINE h == [i \in 0..(n + 1) |-> ReplayStep(g, d, i)]
  <2>2. \A i \in 0..n : h[i] = g[i]
    BY <2>1 DEF IsReplaying
  <2>3. \A i \in 0..(n + 1) : ReplayStep(g, d, i) = ReplayStep(h, d, i)
    <3> SUFFICES ASSUME NEW i \in 0..(n + 1), i # 0 PROVE ReplayStep(g, d, i) = ReplayStep(h, d, i)
      BY DEF ReplayStep
    <3>1. i - 1 \in 0..n
      OBVIOUS
    <3> HIDE DEF h
    <3>2. QED
      BY <2>2, <3>1 DEF ReplayStep
  <2>4. IsReplaying(h, d, n + 1)
    <3>1. h = [i \in 0..(n + 1) |-> ReplayStep(g, d, i)]
      OBVIOUS
    <3> HIDE DEF h
    <3>2. QED
      BY <2>3, <3>1 DEF IsReplaying
  <2>5. QED
    <3> HIDE DEF h
    <3>1. QED
      BY <2>4
<1>3. QED
  <2> HIDE DEF P
  <2>1. Nat \subseteq P
    BY <1>1, <1>2, NatInductionSet
  <2>2. QED
    BY <2>1 DEF P

\* Replay is the register after the last digest, extended one by one from zero.
LEMMA ReplayRegisters ==
    ASSUME NEW d, Len(d) \in Nat
    PROVE  \E g : /\ Replay(d) = g[Len(d)] /\ g[0] = Zero48
                  /\ \A i \in 0..Len(d) : i # 0 => g[i] = extend(g[i - 1], d[i])
<1> DEFINE G == CHOOSE g : IsReplaying(g, d, Len(d))
<1>1. IsReplaying(G, d, Len(d))
  BY ReplayingExists
<1>2. Replay(d) = G[Len(d)]
  BY DEF Replay, IsReplaying, ReplayStep
<1> HIDE DEF G
<1>3. \A i \in 0..Len(d) : G[i] = ReplayStep(G, d, i)
  BY <1>1 DEF IsReplaying
<1>4. G[0] = Zero48
  BY <1>3 DEF ReplayStep
<1>5. \A i \in 0..Len(d) : i # 0 => G[i] = extend(G[i - 1], d[i])
  BY <1>3 DEF ReplayStep
<1>6. QED
  BY <1>2, <1>4, <1>5

\* A register tells its digests, in number and in order: no two lists give the same.
LEMMA ReplayInjective ==
    ASSUME NEW a, NEW b, Len(a) \in Nat, Len(b) \in Nat, Replay(a) = Replay(b)
    PROVE  Len(a) = Len(b) /\ \A i \in 1..Len(a) : a[i] = b[i]
<1>1. PICK g : /\ Replay(a) = g[Len(a)] /\ g[0] = Zero48
               /\ \A i \in 0..Len(a) : i # 0 => g[i] = extend(g[i - 1], a[i])
  BY ReplayRegisters
<1>2. PICK h : /\ Replay(b) = h[Len(b)] /\ h[0] = Zero48
               /\ \A i \in 0..Len(b) : i # 0 => h[i] = extend(h[i - 1], b[i])
  BY ReplayRegisters
<1> DEFINE Alike(n, m) == g[n] = h[m] => n = m /\ \A i \in 1..n : a[i] = b[i]
           P == {n \in Nat : \A m \in 0..Len(b) : n <= Len(a) => Alike(n, m)}
<1>3. \A x, d : extend(x, d) # Zero48
  BY DEF extend, Zero48
<1>4. 0 \in P
  BY <1>1, <1>2, <1>3
<1>5. ASSUME NEW n \in Nat, n \in P PROVE n + 1 \in P
  <2> SUFFICES ASSUME NEW m \in 0..Len(b), n + 1 <= Len(a), g[n + 1] = h[m]
               PROVE  n + 1 = m /\ \A i \in 1..(n + 1) : a[i] = b[i]
    OBVIOUS
  <2>1. g[n + 1] = extend(g[n], a[n + 1])
    <3>1. n + 1 \in 0..Len(a) /\ n + 1 # 0 /\ n + 1 - 1 = n
      OBVIOUS
    <3>2. QED
      BY <1>1, <3>1
  <2>2. m # 0
    BY <1>2, <1>3, <2>1
  <2>3. h[m] = extend(h[m - 1], b[m])
    BY <1>2, <2>2
  <2>4. g[n] = h[m - 1] /\ a[n + 1] = b[m]
    <3>1. extend(g[n], a[n + 1]) = extend(h[m - 1], b[m])
      BY <2>1, <2>3
    <3> HIDE DEF P, Alike
    <3>2. QED
      BY <3>1 DEF extend
  <2>5. Alike(n, m - 1)
    BY <1>5, <2>2
  <2>6. n = m - 1 /\ \A i \in 1..n : a[i] = b[i]
    BY <2>4, <2>5
  <2>7. QED
    BY <2>4, <2>6
<1>6. Nat \subseteq P
  <2> HIDE DEF P
  <2>1. QED
    BY <1>4, <1>5, NatInductionSet
<1>7. Alike(Len(a), Len(b))
  BY <1>6
<1>8. QED
  BY <1>1, <1>2, <1>7

\* q tells where in a log the entries r that are replayed stand: they are those of
\* RTMR3 whose digest decodes, each from a place of its own.
ReplayedAt(q, r, log) ==
    /\ q \in [1..Len(r) -> 1..Len(log)]
    /\ \A k \in 1..Len(r) : /\ r[k] = log[q[k]]
                             /\ log[q[k]].imr = RTMR3_INDEX /\ Decodes(log[q[k]].digest)
    /\ \A j, k \in 1..Len(r) : q[j] = q[k] => j = k
    /\ \A i \in 1..Len(log) : log[i].imr = RTMR3_INDEX /\ Decodes(log[i].digest)
                              => \E k \in 1..Len(r) : q[k] = i

\* The entries that are replayed have such places (attestation.rs:221-251), and are
\* among those whose event type is checked.
LEMMA ReplayedPlaces ==
    ASSUME NEW S, NEW log \in Seq(S)
    PROVE  LET t == Rtmr3Events(log)
               r == WithDigest(t)
           IN  /\ r \in Seq(S) /\ \E q : ReplayedAt(q, r, log)
               /\ \A k \in 1..Len(r) : \E m \in 1..Len(t) : t[m] = r[k]
               /\ \A m \in 1..Len(t) : \E i \in 1..Len(log) : log[i] = t[m] /\ log[i].imr = RTMR3_INDEX
               /\ \A i \in 1..Len(log) : log[i].imr = RTMR3_INDEX => \E m \in 1..Len(t) : t[m] = log[i]
<1> DEFINE V == {e \in Range(log) : e.imr = RTMR3_INDEX}
           t == Rtmr3Events(log)
           r == WithDigest(t)
           W == {e \in Range(t) : Decodes(e.digest)}
<1>0. t = Kept(log, V) /\ \A i \in 1..Len(log) : log[i] \in V <=> log[i].imr = RTMR3_INDEX
  BY DEF Rtmr3Events, Range
<1> HIDE DEF t, V
<1>1. t \in Seq(S) /\ Places(t, log, V, Len(log)) # {}
  BY <1>0, KeptPlaces
<1>2. PICK p \in [1..Len(t) -> 1..Len(log)] :
        /\ \A k \in 1..Len(t) : t[k] = log[p[k]] /\ log[p[k]] \in V
        /\ \A j, k \in 1..Len(t) : p[j] = p[k] => j = k
        /\ \A i \in 1..Len(log) : log[i] \in V => \E k \in 1..Len(t) : p[k] = i
  BY <1>1 DEF Places
<1>3. r = Kept(t, W)
  BY DEF WithDigest
<1>4. \A i \in 1..Len(t) : t[i] \in W <=> Decodes(t[i].digest)
  BY <1>1 DEF Range
<1> HIDE DEF r, W
<1>5. r \in Seq(S) /\ Places(r, t, W, Len(t)) # {}
  BY <1>1, <1>3, KeptPlaces
<1>6. PICK o \in [1..Len(r) -> 1..Len(t)] :
        /\ \A k \in 1..Len(r) : r[k] = t[o[k]] /\ t[o[k]] \in W
        /\ \A j, k \in 1..Len(r) : o[j] = o[k] => j = k
        /\ \A i \in 1..Len(t) : t[i] \in W => \E k \in 1..Len(r) : o[k] = i
  BY <1>5 DEF Places
<1> DEFINE q == [k \in 1..Len(r) |-> p[o[k]]]
<1>7. \A k \in 1..Len(r) : o[k] \in 1..Len(t) /\ q[k] = p[o[k]] /\ p[o[k]] \in 1..Len(log)
  BY <1>2, <1>6
<1>8. q \in [1..Len(r) -> 1..Len(log)]
  BY <1>7
<1> HIDE DEF q
<1>9. ASSUME NEW k \in 1..Len(r)
      PROVE  /\ r[k] = log[q[k]]
             /\ log[q[k]].imr = RTMR3_INDEX /\ Decodes(log[q[k]].digest)
             /\ \E m \in 1..Len(t) : t[m] = log[q[k]]
  <2>1. o[k] \in 1..Len(t) /\ q[k] = p[o[k]] /\ r[k] = t[o[k]] /\ t[o[k]] \in W
    BY <1>6, <1>7
  <2>2. t[o[k]] = log[q[k]] /\ log[q[k]] \in V /\ q[k] \in 1..Len(log)
    BY <1>2, <1>7, <2>1
  <2>3. log[q[k]].imr = RTMR3_INDEX /\ Decodes(log[q[k]].digest)
    BY <1>0, <1>4, <2>1, <2>2
  <2>4. QED
    BY <2>1, <2>2, <2>3
<1>10. \A j, k \in 1..Len(r) : q[j] = q[k] => j = k
  BY <1>2, <1>6, <1>7
<1>11. ASSUME NEW i \in 1..Len(log), log[i].imr = RTMR3_INDEX, Decodes(log[i].digest)
       PROVE  \E k \in 1..Len(r) : q[k] = i
  <2>1. PICK m \in 1..Len(t) : p[m] = i
    BY <1>0, <1>2, <1>11
  <2>2. t[m] \in W
    BY <1>2, <1>4, <1>11, <2>1
  <2>3. PICK k \in 1..Len(r) : o[k] = m
    BY <1>6, <2>2
  <2>4. QED
    BY <1>7, <2>1, <2>3
<1>12. ReplayedAt(q, r, log)
  BY <1>8, <1>9, <1>10, <1>11 DEF ReplayedAt
<1>13. \A m \in 1..Len(t) : \E i \in 1..Len(log) : log[i] = t[m] /\ log[i].imr = RTMR3_INDEX
  BY <1>0, <1>2
<1>14. \A i \in 1..Len(log) : log[i].imr = RTMR3_INDEX => \E m \in 1..Len(t) : t[m] = log[i]
  BY <1>0, <1>2
<1>15. \A k \in 1..Len(r) : \E m \in 1..Len(t) : t[m] = r[k]
  BY <1>9
<1>16. QED
  BY <1>5, <1>12, <1>13, <1>14, <1>15 DEF r, t

\* The bytes of an event, one by one.
LEMMA BytesAt ==
    ASSUME NEW a, NEW p, IsBytes(a), IsBytes(p)
    PROVE  LET t == EventBytes(a, p)
           IN  /\ Len(t) = Len(a) + 1 + Len(p)
               /\ \A i \in 1..Len(a) : t[i] = a[i]
               /\ t[Len(a) + 1] = Separator
               /\ \A i \in 1..Len(p) : t[Len(a) + 1 + i] = p[i]
<1> DEFINE S == {a[i] : i \in 1..Len(a)} \cup {p[i] : i \in 1..Len(p)} \cup {Separator}
<1>1. a \in Seq(S) /\ p \in Seq(S) /\ <<Separator>> \in Seq(S)
  BY DEF IsBytes
<1> HIDE DEF S
<1>2. EventBytes(a, p) = (a \o <<Separator>>) \o p
  BY DEF EventBytes
<1> DEFINE h == a \o <<Separator>>
<1>3. h \in Seq(S) /\ Len(h) = Len(a) + 1 /\ h[Len(a) + 1] = Separator /\ \A i \in 1..Len(a) : h[i] = a[i]
  BY <1>1
<1> HIDE DEF h
<1>4. Len(h \o p) = Len(h) + Len(p) /\ \A i \in 1..Len(h) : (h \o p)[i] = h[i]
  BY <1>1, <1>3
<1>5. \A i \in 1..Len(p) : (h \o p)[Len(h) + i] = p[i]
  BY <1>1, <1>3
<1>6. QED
  BY <1>1, <1>2, <1>3, <1>4, <1>5 DEF h

\* Two events with the same bytes and names of the same length are the same.
LEMMA SplitAlike ==
    ASSUME NEW a, NEW p, NEW b, NEW q, IsBytes(a), IsBytes(p), IsBytes(b), IsBytes(q),
           EventBytes(a, p) = EventBytes(b, q), Len(a) = Len(b)
    PROVE  a = b /\ p = q
<1>1. Len(a) \in Nat /\ Len(p) \in Nat /\ Len(q) \in Nat /\ Len(p) = Len(q)
  <2>1. Len(EventBytes(a, p)) = Len(a) + 1 + Len(p)
    BY BytesAt
  <2>2. Len(EventBytes(b, q)) = Len(b) + 1 + Len(q)
    BY BytesAt
  <2>3. Len(a) \in Nat /\ Len(p) \in Nat /\ Len(q) \in Nat
    BY DEF IsBytes
  <2>4. QED
    BY <2>1, <2>2, <2>3
<1>2. \A i \in 1..Len(a) : a[i] = b[i]
  BY BytesAt
<1>3. \A i \in 1..Len(p) : p[i] = q[i]
  BY BytesAt, <1>1
<1>4. /\ a = [i \in 1..Len(a) |-> a[i]] /\ b = [i \in 1..Len(b) |-> b[i]]
      /\ p = [i \in 1..Len(p) |-> p[i]] /\ q = [i \in 1..Len(q) |-> q[i]]
  BY DEF IsBytes
<1>5. QED
  BY <1>1, <1>2, <1>3, <1>4

\* Bytes that hold the separator once split in one way.
LEMMA SplitOnce ==
    ASSUME NEW a, NEW p, NEW b, NEW q, IsBytes(a), IsBytes(p), IsBytes(b), IsBytes(q),
           EventBytes(a, p) = EventBytes(b, q), Unsplit(a), Unsplit(b) \/ Unsplit(p)
    PROVE  a = b /\ p = q
<1>1. Len(a) \in Nat /\ Len(b) \in Nat /\ Len(p) \in Nat /\ Len(q) \in Nat
  BY DEF IsBytes
<1>2. Len(a) + 1 + Len(p) = Len(b) + 1 + Len(q)
  <2>1. Len(EventBytes(a, p)) = Len(a) + 1 + Len(p)
    BY BytesAt
  <2>2. Len(EventBytes(b, q)) = Len(b) + 1 + Len(q)
    BY BytesAt
  <2>3. QED
    BY <2>1, <2>2
<1>3. ~(Len(b) < Len(a))
  <2> SUFFICES ASSUME Len(b) < Len(a) PROVE FALSE
    OBVIOUS
  <2>1. Len(b) + 1 \in 1..Len(a)
    BY <1>1
  <2>2. a[Len(b) + 1] = Separator
    BY <2>1, BytesAt
  <2>3. QED
    BY <2>1, <2>2 DEF Unsplit
<1>4. ~(Len(a) < Len(b))
  <2> SUFFICES ASSUME Len(a) < Len(b) PROVE FALSE
    OBVIOUS
  <2>1. CASE Unsplit(b)
    <3>1. Len(a) + 1 \in 1..Len(b)
      BY <1>1
    <3>2. b[Len(a) + 1] = Separator
      BY <3>1, BytesAt
    <3>3. QED
      BY <2>1, <3>1, <3>2 DEF Unsplit
  <2>2. CASE Unsplit(p)
    <3> DEFINE i == Len(b) - Len(a)
    <3>1. i \in 1..Len(p) /\ Len(a) + 1 + i = Len(b) + 1
      BY <1>1, <1>2
    <3> HIDE DEF i
    <3>2. p[i] = Separator
      BY <3>1, BytesAt
    <3>3. QED
      BY <2>2, <3>1, <3>2 DEF Unsplit
  <2>3. QED
    BY <2>1, <2>2
<1>5. QED
  BY <1>1, <1>3, <1>4, SplitAlike

\* The entries of an accepted log that are replayed stand one by one for the events
\* that were measured (attestation.rs:218-259).
LEMMA AcceptedReplay ==
    ASSUME NEW S, NEW log \in Seq(S), NEW T, NEW boot \in Seq(T),
           verify_event_log_rtmr3(log, Register(boot))
    PROVE  LET r == WithDigest(Rtmr3Events(log))
           IN  Len(r) = Len(boot) /\ \A k \in 1..Len(boot) : Replays(r[k], boot[k])
<1> DEFINE t == Rtmr3Events(log)
           r == WithDigest(t)
           a == [i \in 1..Len(r) |-> r[i].digest.bytes]
           b == [i \in 1..Len(boot) |-> DigestOf(boot[i])]
<1>1. /\ \A i \in 1..Len(t) : t[i].event_type = DSTACK_EVENT_TYPE
      /\ \A i \in 1..Len(r) :
            /\ Decodes(r[i].event_payload)
            /\ r[i].digest.bytes = event_digest(r[i].event_type, r[i].event, r[i].event_payload.bytes)
      /\ Replay(a) = Replay(b)
  BY DEF verify_event_log_rtmr3, Register
<1>2. /\ r \in Seq(S) /\ \E q : ReplayedAt(q, r, log)
      /\ \A k \in 1..Len(r) : \E m \in 1..Len(t) : t[m] = r[k]
  BY ReplayedPlaces
<1> HIDE DEF t, r
<1>3. Len(r) \in Nat /\ Len(boot) \in Nat
  BY <1>2
<1>4. Len(a) = Len(r) /\ Len(b) = Len(boot)
  BY <1>3
<1>5. Len(r) = Len(boot) /\ \A i \in 1..Len(r) : a[i] = b[i]
  <2> HIDE DEF a, b
  <2>1. QED
    BY <1>1, <1>3, <1>4, ReplayInjective
<1>6. ASSUME NEW k \in 1..Len(boot) PROVE Replays(r[k], boot[k])
  <2>1. r[k].digest.bytes = DigestOf(boot[k])
    BY <1>5
  <2>2. /\ r[k].event_type = DSTACK_EVENT_TYPE /\ Decodes(r[k].event_payload)
        /\ r[k].digest.bytes = event_digest(r[k].event_type, r[k].event, r[k].event_payload.bytes)
    BY <1>1, <1>2, <1>5
  <2>3. EventBytes(r[k].event, r[k].event_payload.bytes) = EventBytes(boot[k].event, boot[k].payload)
    BY <2>1, <2>2 DEF DigestOf, event_digest
  <2>4. Decodes(r[k].digest)
    BY <1>2, <1>5 DEF ReplayedAt
  <2>5. QED
    BY <2>1, <2>2, <2>3, <2>4 DEF Replays
<1>7. QED
  BY <1>5, <1>6 DEF r, t

\* A log whose entries stand for the events in order, in any spelling, is accepted
\* (attestation.rs:218-259).
LEMMA RecordedReplay ==
    ASSUME NEW S, NEW log \in Seq(S), NEW T, NEW boot \in Seq(T),
           \A i \in 1..Len(Rtmr3Events(log)) : Rtmr3Events(log)[i].event_type = DSTACK_EVENT_TYPE,
           Len(WithDigest(Rtmr3Events(log))) = Len(boot),
           \A k \in 1..Len(boot) : Replays(WithDigest(Rtmr3Events(log))[k], boot[k])
    PROVE  verify_event_log_rtmr3(log, Register(boot))
<1> DEFINE t == Rtmr3Events(log)
           r == WithDigest(t)
           a == [i \in 1..Len(r) |-> r[i].digest.bytes]
           b == [i \in 1..Len(boot) |-> DigestOf(boot[i])]
<1>1. \A i \in 1..Len(r) :
         /\ Decodes(r[i].event_payload)
         /\ r[i].digest.bytes = event_digest(r[i].event_type, r[i].event, r[i].event_payload.bytes)
  <2> HIDE DEF r
  <2>1. QED
    BY DEF Replays, DigestOf, event_digest, r
<1>2. a = b
  <2> HIDE DEF r
  <2>1. \A i \in 1..Len(boot) : r[i].digest.bytes = DigestOf(boot[i])
    BY DEF Replays, r
  <2>2. Len(r) = Len(boot)
    BY DEF r
  <2>3. QED
    BY <2>1, <2>2
<1>3. QED
  BY <1>1, <1>2 DEF verify_event_log_rtmr3, Register

\* The one compose entry of an accepted log.
OneCompose(log, place, app_compose) ==
    /\ place \in 1..Len(log)
    /\ \A j \in 1..Len(log) : log[j].event = COMPOSE_HASH_EVENT /\ log[j].imr = RTMR3_INDEX <=> j = place
    /\ Decodes(log[place].event_payload) /\ log[place].event_payload.bytes = sha256(app_compose)

\* A compose file is accepted with a log that has one compose entry, for it
\* (attestation.rs:345-356).
LEMMA ComposeEntry ==
    ASSUME NEW S, NEW log \in Seq(S), NEW tcb_info, tcb_info.event_log = log, verify_app_compose(tcb_info)
    PROVE  \E place : OneCompose(log, place, tcb_info.app_compose)
<1> DEFINE V == {e \in Range(log) : e.event = COMPOSE_HASH_EVENT /\ e.imr = RTMR3_INDEX}
           c == ComposeEvents(log)
<1>1. /\ Len(c) = 1
      /\ Decodes(c[1].event_payload) /\ c[1].event_payload.bytes = sha256(tcb_info.app_compose)
  BY DEF verify_app_compose, validate_app_compose_payload
<1>2. c = Kept(log, V)
  BY DEF ComposeEvents
<1>3. \A i \in 1..Len(log) :
         log[i] \in V <=> log[i].event = COMPOSE_HASH_EVENT /\ log[i].imr = RTMR3_INDEX
  BY DEF Range
<1> HIDE DEF V, c
<1>4. PICK place \in 1..Len(log) : /\ c[1] = log[place] /\ log[place] \in V
                                   /\ \A j \in 1..Len(log) : log[j] \in V => j = place
  BY <1>1, <1>2, OneKept
<1>5. OneCompose(log, place, tcb_info.app_compose)
  BY <1>1, <1>3, <1>4 DEF OneCompose
<1>6. QED
  BY <1>5

\* The entries and the events are byte strings.
Typed(log, boot) ==
    /\ \A i \in 1..Len(log) : IsEntry(log[i])
    /\ \A k \in 1..Len(boot) : IsEvent(boot[k])

LEMMA ComposeNameUnsplit == IsBytes(COMPOSE_HASH_EVENT) /\ Unsplit(COMPOSE_HASH_EVENT)
<1>1. COMPOSE_HASH_EVENT = <<"compose-hash">> /\ Len(COMPOSE_HASH_EVENT) = 1
  BY DEF COMPOSE_HASH_EVENT
<1>2. QED
  BY <1>1, SeparatorAssumption DEF IsBytes, Unsplit

\* A compose file accepted with a log whose digests decode was measured, if the names
\* of what was measured hold no separator (attestation.rs:328-357).
LEMMA ComposeMeasured ==
    ASSUME NEW S, NEW log \in Seq(S), NEW T, NEW boot \in Seq(T), Typed(log, boot),
           NEW tcb_info, tcb_info.event_log = log,
           verify_event_log_rtmr3(log, Register(boot)), verify_app_compose(tcb_info),
           \A i \in 1..Len(log) : log[i].imr = RTMR3_INDEX => Decodes(log[i].digest),
           NamesUnsplit(boot)
    PROVE  \E i \in 1..Len(MeasuredComposes(boot)) :
              MeasuredComposes(boot)[i].payload = sha256(tcb_info.app_compose)
<1> DEFINE r == WithDigest(Rtmr3Events(log))
           W == {e \in Range(boot) : e.event = COMPOSE_HASH_EVENT}
           m == MeasuredComposes(boot)
<1>1. Len(r) = Len(boot) /\ \A k \in 1..Len(boot) : Replays(r[k], boot[k])
  BY AcceptedReplay
<1>2. PICK q : ReplayedAt(q, r, log)
  BY ReplayedPlaces
<1>3. PICK place : OneCompose(log, place, tcb_info.app_compose)
  BY ComposeEntry
<1>4. m = Kept(boot, W) /\ \A i \in 1..Len(boot) : boot[i] \in W <=> boot[i].event = COMPOSE_HASH_EVENT
  BY DEF MeasuredComposes, Range
<1> HIDE DEF r, W, m
<1>5. place \in 1..Len(log) /\ log[place].event = COMPOSE_HASH_EVENT /\ log[place].imr = RTMR3_INDEX
  BY <1>3 DEF OneCompose
<1>6. PICK k \in 1..Len(boot) : q[k] = place /\ Replays(log[place], boot[k])
  <2>1. Decodes(log[place].digest)
    BY <1>5
  <2>2. PICK k \in 1..Len(r) : q[k] = place /\ r[k] = log[place]
    BY <1>2, <1>5, <2>1 DEF ReplayedAt
  <2>3. QED
    BY <1>1, <2>2
<1>7. /\ IsBytes(log[place].event) /\ IsBytes(log[place].event_payload.bytes)
      /\ IsBytes(boot[k].event) /\ IsBytes(boot[k].payload)
      /\ Unsplit(log[place].event) /\ Unsplit(boot[k].event)
  BY <1>3, <1>5, <1>6, ComposeNameUnsplit DEF Typed, IsEntry, IsEvent, OneCompose, NamesUnsplit
<1>8. EventBytes(log[place].event, log[place].event_payload.bytes) = EventBytes(boot[k].event, boot[k].payload)
  BY <1>6 DEF Replays
<1>9. log[place].event = boot[k].event /\ log[place].event_payload.bytes = boot[k].payload
  BY <1>7, <1>8, SplitOnce
<1>10. boot[k] \in W /\ boot[k].payload = sha256(tcb_info.app_compose)
  BY <1>3, <1>4, <1>5, <1>9 DEF OneCompose
<1>11. Places(m, boot, W, Len(boot)) # {}
  BY <1>4, KeptPlaces
<1>12. \E i \in 1..Len(m) : m[i] = boot[k]
  BY <1>10, <1>11 DEF Places
<1>13. QED
  BY <1>10, <1>12 DEF m

\* If a compose file was measured, the one accepted with an accepted log is the one
\* and only one measured, as long as its bytes split in one way
\* (attestation.rs:328-357).
LEMMA ComposeOnly ==
    ASSUME NEW S, NEW log \in Seq(S), NEW T, NEW boot \in Seq(T), Typed(log, boot),
           NEW tcb_info, tcb_info.event_log = log,
           verify_event_log_rtmr3(log, Register(boot)), verify_app_compose(tcb_info),
           MeasuredComposes(boot) # <<>>, Unambiguous(Rtmr3Events(log), boot)
    PROVE  /\ Len(MeasuredComposes(boot)) = 1
           /\ MeasuredComposes(boot)[1].payload = sha256(tcb_info.app_compose)
<1> DEFINE t == Rtmr3Events(log)
           r == WithDigest(t)
           W == {e \in Range(boot) : e.event = COMPOSE_HASH_EVENT}
           m == MeasuredComposes(boot)
<1>1. Len(r) = Len(boot) /\ \A k \in 1..Len(boot) : Replays(r[k], boot[k])
  BY AcceptedReplay
<1>2. /\ \E q : ReplayedAt(q, r, log)
      /\ \A i \in 1..Len(log) : log[i].imr = RTMR3_INDEX => \E j \in 1..Len(t) : t[j] = log[i]
  BY ReplayedPlaces
<1>3. PICK place : OneCompose(log, place, tcb_info.app_compose)
  BY ComposeEntry
<1>4. m = Kept(boot, W) /\ \A i \in 1..Len(boot) : boot[i] \in W <=> boot[i].event = COMPOSE_HASH_EVENT
  BY DEF MeasuredComposes, Range
<1> HIDE DEF t, r, W, m
<1>5. PICK q : ReplayedAt(q, r, log)
  BY <1>2
<1>6. \A k \in 1..Len(boot) : /\ q[k] \in 1..Len(log) /\ Replays(log[q[k]], boot[k])
                              /\ log[q[k]].imr = RTMR3_INDEX
  BY <1>1, <1>5 DEF ReplayedAt
<1>7. ASSUME NEW k \in 1..Len(boot), boot[k] \in W
      PROVE  q[k] = place /\ boot[k].payload = sha256(tcb_info.app_compose)
  <2> DEFINE entry == log[q[k]]
             e == boot[k]
  <2>1. e.event = COMPOSE_HASH_EVENT /\ Unsplit(e.event)
    BY <1>4, <1>7, ComposeNameUnsplit
  <2>2. Replays(entry, e) /\ entry.imr = RTMR3_INDEX /\ q[k] \in 1..Len(log)
    BY <1>6
  <2>3. IsBytes(e.event) /\ IsBytes(e.payload) /\ IsBytes(entry.event) /\ IsBytes(entry.event_payload.bytes)
    BY <2>2 DEF Typed, IsEntry, IsEvent, Replays
  <2>4. Unsplit(entry.event) \/ Unsplit(e.payload)
    <3>1. CASE NamesUnsplit(t)
      BY <1>2, <2>2, <3>1 DEF NamesUnsplit
    <3>2. CASE ComposesUnsplit(boot)
      BY <2>1, <3>2 DEF ComposesUnsplit
    <3>3. QED
      BY <3>1, <3>2 DEF Unambiguous, t
  <2>5. EventBytes(e.event, e.payload) = EventBytes(entry.event, entry.event_payload.bytes)
    BY <2>2 DEF Replays
  <2> HIDE DEF entry, e
  <2>6. e.event = entry.event /\ e.payload = entry.event_payload.bytes
    BY <2>1, <2>3, <2>4, <2>5, SplitOnce
  <2>7. QED
    BY <1>3, <2>1, <2>2, <2>6 DEF OneCompose, entry, e
<1>8. m \in Seq(T) /\ Places(m, boot, W, Len(boot)) # {}
  BY <1>4, KeptPlaces
<1>9. PICK k \in 1..Len(boot) : boot[k] \in W
  <2>1. 1 \in 1..Len(m)
    BY <1>8 DEF m
  <2>2. QED
    BY <1>8, <2>1 DEF Places
<1>10. \A j \in 1..Len(boot) : boot[j] \in W => j = k
  BY <1>1, <1>5, <1>7, <1>9 DEF ReplayedAt
<1>11. Len(m) = 1 /\ m[1] = boot[k]
  BY <1>4, <1>9, <1>10, OneKept
<1>12. QED
  BY <1>7, <1>9, <1>11 DEF m
=============================================================================
