------------------------ MODULE AtomicExchangeProofs ------------------------
(* Proofs about AtomicExchange, for every value of its constants. *)
EXTENDS AtomicExchange, FiniteSetTheorems, TLAPS

Holdings == [Accounts -> Holding \cup {None}]
Books == [Exchanges -> Book \cup {None}]

TypeOK ==
  /\ held \in Holdings
  /\ books \in Books
  /\ committed \in {None} \cup [held : Holdings, books : Books]

\* Two states of the accounts hold as much of every token.
SameSupply(h, r) == \A mint \in Mints : Supply(r, mint) = Supply(h, mint)

IInv ==
  /\ TypeOK
  /\ Solvent
  /\ committed # None => SameSupply(committed.held, held)

(***************************************************************************)
(* What a sum over a finite set of accounts is.                            *)
(***************************************************************************)
\* The least-number principle, for a set.
LEMMA NatLeast ==
  ASSUME NEW T \in SUBSET Nat, T # {}
  PROVE  \E n \in T : \A k \in T : n <= k
<1>1. PICK n \in T : \A k \in T : ~ (<<k, n>> \in OpToRel(<, Nat))
  BY NatLessThanWellFounded, WFMin
<1>2. \A k \in T : ~ (k < n)
  BY <1>1 DEF OpToRel
<1> QED BY <1>2

\* Induction, for a set of numbers.
LEMMA NatSetInduction ==
  ASSUME NEW Q, 0 \in Q, \A n \in Nat : n \in Q => n + 1 \in Q
  PROVE  \A n \in Nat : n \in Q
<1>1. SUFFICES ASSUME Nat \ Q # {} PROVE FALSE
  OBVIOUS
<1>2. PICK n \in Nat \ Q : \A k \in Nat \ Q : n <= k
  BY <1>1, NatLeast
<1>3. n - 1 \in Nat /\ n - 1 \in Q /\ n = (n - 1) + 1
  BY <1>2
<1> QED BY <1>2, <1>3

Total(g, S) == MapThenSumSet(LAMBDA a : g[a].amount, S)

Pick(s) == CHOOSE x \in s : TRUE
SumStep(f, g, s) == IF s = {} THEN 0 ELSE g[Pick(s)].amount + f[s \ {Pick(s)}]
IsSum(f, g, S) == f = [s \in SUBSET S |-> SumStep(f, g, s)]

LEMMA Picked == ASSUME NEW s, s # {} PROVE Pick(s) \in s
BY DEF Pick

\* The size of a part of a finite set.
LEMMA SubsetSize ==
  ASSUME NEW S, IsFiniteSet(S), NEW s \in SUBSET S
  PROVE  /\ IsFiniteSet(s)
         /\ Cardinality(s) \in Nat
         /\ s = {} <=> Cardinality(s) = 0
         /\ \A x \in s : Cardinality(s \ {x}) = Cardinality(s) - 1
<1>1. IsFiniteSet(s)
  BY FS_Subset
<1>2. Cardinality(s) \in Nat
  BY <1>1, FS_CardinalityType
<1>3. s = {} <=> Cardinality(s) = 0
  BY <1>1, FS_EmptySet
<1>4. \A x \in s : Cardinality(s \ {x}) = Cardinality(s) - 1
  BY <1>1, FS_RemoveElement
<1> QED BY <1>1, <1>2, <1>3, <1>4

\* The sum's recursion has a solution.
LEMMA SumExists ==
  ASSUME NEW g, NEW S, IsFiniteSet(S)
  PROVE  \E f : IsSum(f, g, S)
<1> DEFINE Small(n) == {s \in SUBSET S : Cardinality(s) <= n}
           N == {n \in Nat : \E f : f = [s \in Small(n) |-> SumStep(f, g, s)]}
<1>0. ASSUME NEW s \in SUBSET S
      PROVE  /\ Cardinality(s) \in Nat
             /\ s = {} <=> Cardinality(s) = 0
             /\ s # {} => Cardinality(s \ {Pick(s)}) = Cardinality(s) - 1
  BY SubsetSize, Picked
<1>1. 0 \in N
  <2>1. ASSUME NEW s \in Small(0)
        PROVE  s = {}
    <3>1. s \in SUBSET S /\ Cardinality(s) <= 0
      OBVIOUS
    <3>2. Cardinality(s) \in Nat /\ (s = {} <=> Cardinality(s) = 0)
      BY <1>0, <3>1
    <3> QED BY <3>1, <3>2
  <2> DEFINE f == [s \in Small(0) |-> 0]
  <2>2. f = [s \in Small(0) |-> SumStep(f, g, s)]
    BY <2>1 DEF SumStep
  <2> HIDE DEF f
  <2> QED BY <2>2
<1>2. ASSUME NEW n \in Nat, n \in N
      PROVE  n + 1 \in N
  <2>1. PICK f : f = [s \in Small(n) |-> SumStep(f, g, s)]
    BY <1>2
  <2> DEFINE h == [s \in Small(n + 1) |-> SumStep(f, g, s)]
  <2>2. ASSUME NEW s \in Small(n)
        PROVE  s \in Small(n + 1)
    <3>1. s \in SUBSET S /\ Cardinality(s) <= n
      OBVIOUS
    <3>2. Cardinality(s) \in Nat
      BY <1>0, <3>1
    <3> QED BY <3>1, <3>2
  <2>3. \A s \in Small(n) : h[s] = f[s]
    BY <2>1, <2>2
  <2>4. ASSUME NEW s \in Small(n + 1), s # {}
        PROVE  s \ {Pick(s)} \in Small(n)
    BY <1>0, <2>4
  <2>5. \A s \in Small(n + 1) : SumStep(f, g, s) = SumStep(h, g, s)
    <3> HIDE DEF h, Small
    <3> QED BY <2>3, <2>4 DEF SumStep
  <2>6. h = [s \in Small(n + 1) |-> SumStep(h, g, s)]
    BY <2>5
  <2> HIDE DEF h, Small
  <2> QED BY <2>6
<1> HIDE DEF N
<1>3. Cardinality(S) \in N
  BY <1>1, <1>2, NatSetInduction, FS_CardinalityType
<1>4. Small(Cardinality(S)) = SUBSET S
  BY FS_Subset
<1> QED BY <1>3, <1>4 DEF N, IsSum

LEMMA TotalIsSum ==
  ASSUME NEW g, NEW S, IsFiniteSet(S)
  PROVE  \E f : IsSum(f, g, S) /\ Total(g, S) = f[S]
<1> DEFINE f == CHOOSE f : IsSum(f, g, S)
<1>1. IsSum(f, g, S)
  BY SumExists
<1>2. Total(g,S) = f[S]
  BY DEF Total, MapThenSumSet, MapThenFoldSet, IsSum, SumStep, Pick
<1> HIDE DEF f
<1> QED BY <1>1, <1>2

\* Any two solutions agree, and only the amounts in the set matter.
LEMMA SumUnique ==
  ASSUME NEW g, NEW S, IsFiniteSet(S), NEW f, IsSum(f, g, S),
         NEW g2, NEW S2, \A x \in S2 : x \in S, \A x \in S2 : g2[x].amount = g[x].amount,
         NEW f2, IsSum(f2, g2, S2)
  PROVE  f2[S2] = f[S2]
<1> DEFINE N == {n \in Nat : \A s \in SUBSET S2 : Cardinality(s) = n => f2[s] = f[s]}
<1>0. ASSUME NEW s \in SUBSET S2
      PROVE  /\ Cardinality(s) \in Nat /\ s \in SUBSET S
             /\ s = {} <=> Cardinality(s) = 0
             /\ s # {} => Cardinality(s \ {Pick(s)}) = Cardinality(s) - 1 /\ Pick(s) \in s
             /\ f[s] = SumStep(f, g, s) /\ f2[s] = SumStep(f2, g2, s)
  <2>1. s \in SUBSET S /\ S2 \in SUBSET S
    OBVIOUS
  <2>2. f[s] = SumStep(f, g, s) /\ f2[s] = SumStep(f2, g2, s)
    BY <2>1 DEF IsSum
  <2> QED BY <2>1, <2>2, SubsetSize, Picked
<1>1. 0 \in N
  BY <1>0 DEF SumStep
<1>2. ASSUME NEW n \in Nat, n \in N
      PROVE  n + 1 \in N
  <2>1. SUFFICES ASSUME NEW s \in SUBSET S2, Cardinality(s) = n + 1
                 PROVE  f2[s] = f[s]
    OBVIOUS
  <2>2. s # {} /\ Pick(s) \in s /\ Cardinality(s \ {Pick(s)}) = n
    BY <1>0, <2>1
  <2>3. f2[s \ {Pick(s)}] = f[s \ {Pick(s)}]
    BY <1>2, <2>2
  <2> HIDE DEF N
  <2> QED BY <1>0, <2>2, <2>3 DEF SumStep
<1> HIDE DEF N
<1>3. \A n \in Nat : n \in N
  BY <1>1, <1>2, NatSetInduction
<1> QED BY <1>0, <1>3 DEF N

\* The total of a set that is the part of one where a sum is known.
LEMMA TotalOfPart ==
  ASSUME NEW g, NEW S, IsFiniteSet(S), NEW f, IsSum(f, g, S), NEW T \in SUBSET S
  PROVE  Total(g, T) = f[T]
<1>1. PICK f2 : IsSum(f2, g, T) /\ Total(g, T) = f2[T]
  BY TotalIsSum, FS_Subset
<1>2. \A x \in T : x \in S
  OBVIOUS
<1>3. f2[T] = f[T]
  BY <1>1, <1>2, SumUnique
<1> QED BY <1>1, <1>3

\* Totals only depend on the amounts in the set.
LEMMA TotalSame ==
  ASSUME NEW g, NEW g2, NEW S, IsFiniteSet(S), \A x \in S : g2[x].amount = g[x].amount
  PROVE  Total(g2, S) = Total(g, S)
<1>1. PICK f : IsSum(f, g, S) /\ Total(g, S) = f[S]
  BY TotalIsSum
<1>2. PICK f2 : IsSum(f2, g2, S) /\ Total(g2, S) = f2[S]
  BY TotalIsSum
<1> QED BY <1>1, <1>2, SumUnique

\* The total of one account more, whatever the order in which the sum takes them.
LEMMA TotalAdds ==
  ASSUME NEW g, NEW S, IsFiniteSet(S), \A x \in S : g[x].amount \in Nat
  PROVE  /\ \A T \in SUBSET S : Total(g, T) \in Nat
         /\ \A T \in SUBSET S : \A x \in S \ T : Total(g, T \cup {x}) = g[x].amount + Total(g, T)
<1>1. PICK f : IsSum(f, g, S) /\ Total(g, S) = f[S]
  BY TotalIsSum
<1> DEFINE N == {n \in Nat : \A s \in SUBSET S : Cardinality(s) <= n =>
                   /\ f[s] \in Nat
                   /\ \A x \in s : f[s] = g[x].amount + f[s \ {x}]}
<1>0. ASSUME NEW s \in SUBSET S
      PROVE  /\ Cardinality(s) \in Nat
             /\ s = {} <=> Cardinality(s) = 0
             /\ s # {} => Pick(s) \in s
             /\ \A x \in s : Cardinality(s \ {x}) = Cardinality(s) - 1
             /\ f[s] = SumStep(f, g, s)
  <2>1. f[s] = SumStep(f, g, s)
    BY <1>1 DEF IsSum
  <2> QED BY <2>1, SubsetSize, Picked
<1>2. 0 \in N
  <2>1. ASSUME NEW s \in SUBSET S, Cardinality(s) <= 0
        PROVE  f[s] = 0 /\ s = {}
    <3>1. Cardinality(s) \in Nat /\ (s = {} <=> Cardinality(s) = 0) /\ f[s] = SumStep(f, g, s)
      BY <1>0
    <3>2. s = {}
      BY <2>1, <3>1
    <3> QED BY <3>1, <3>2 DEF SumStep
  <2> QED BY <2>1
<1>3. ASSUME NEW n \in Nat, n \in N
      PROVE  n + 1 \in N
  <2>1. SUFFICES ASSUME NEW s \in SUBSET S, Cardinality(s) = n + 1
                 PROVE  f[s] \in Nat /\ \A x \in s : f[s] = g[x].amount + f[s \ {x}]
    BY <1>0, <1>3
  <2>0. s # {} /\ Pick(s) \in s /\ f[s] = SumStep(f, g, s)
    BY <1>0, <2>1
  <2>2. PICK c \in s : f[s] = g[c].amount + f[s \ {c}]
    BY <2>0 DEF SumStep
  <2>3. ASSUME NEW x \in s
        PROVE  f[s \ {x}] \in Nat /\ g[x].amount \in Nat
    <3>1. s \ {x} \in SUBSET S /\ Cardinality(s \ {x}) = n
      BY <1>0, <2>1
    <3>2. n <= n
      OBVIOUS
    <3> QED BY <1>3, <3>1, <3>2
  <2>4. f[s] \in Nat
    <3>1. f[s \ {c}] \in Nat /\ g[c].amount \in Nat
      BY <2>3
    <3> HIDE DEF N
    <3> QED BY <2>2, <3>1
  <2>5. ASSUME NEW x \in s, x # c
        PROVE  f[s] = g[x].amount + f[s \ {x}]
    <3>1. s \ {c} \in SUBSET S /\ s \ {x} \in SUBSET S /\ x \in s \ {c} /\ c \in s \ {x}
      BY <2>5
    <3>2. Cardinality(s \ {c}) = n /\ Cardinality(s \ {x}) = n
      BY <1>0, <2>1
    <3> DEFINE rest == (s \ {c}) \ {x}
    <3>3. f[s \ {c}] = g[x].amount + f[rest]
      BY <1>3, <3>1, <3>2
    <3>4. f[s \ {x}] = g[c].amount + f[rest]
      <4>1. (s \ {x}) \ {c} = rest
        OBVIOUS
      <4>2. f[s \ {x}] = g[c].amount + f[(s \ {x}) \ {c}]
        BY <1>3, <3>1, <3>2
      <4> QED BY <4>1, <4>2
    <3>5. f[rest] \in Int
      <4>1. rest \in SUBSET S /\ Cardinality(rest) <= n
        BY <1>0, <3>1, <3>2
      <4> QED BY <1>3, <4>1
    <3> HIDE DEF rest
    <3>6. g[x].amount \in Nat /\ g[c].amount \in Nat
      BY <2>3
    <3> QED BY <2>2, <3>3, <3>4, <3>5, <3>6
  <2> QED BY <2>2, <2>4, <2>5
<1> HIDE DEF N
<1>4. \A n \in Nat : n \in N
  BY <1>2, <1>3, NatSetInduction
<1>5. \A T \in SUBSET S : Total(g, T) = f[T]
  BY <1>1, TotalOfPart
<1>6. ASSUME NEW T \in SUBSET S PROVE f[T] \in Nat /\ \A x \in T : f[T] = g[x].amount + f[T \ {x}]
  BY <1>0, <1>4 DEF N
<1>7. ASSUME NEW T \in SUBSET S, NEW x \in S \ T
      PROVE  Total(g, T \cup {x}) = g[x].amount + Total(g, T)
  <2>1. T \cup {x} \in SUBSET S /\ (T \cup {x}) \ {x} = T /\ x \in T \cup {x}
    OBVIOUS
  <2> QED BY <1>5, <1>6, <2>1
<1> QED BY <1>5, <1>6, <1>7

\* An amount that is part of a word is a natural number.
LEMMA Words == U64 \subseteq Nat /\ \A x \in U64 : x <= U64Max
BY MathAssumption DEF U64

\* Paying moves the amount, and no account appears, disappears or changes its token.
LEMMA PaymentEffect ==
  ASSUME NEW h \in Holdings, NEW from \in Accounts, NEW to \in Accounts, from # to,
         NEW n \in Nat, h[from] # None, h[to] # None, h[from].amount >= n,
         AddFits(h[to].amount, n)
  PROVE  LET r == Moved(h, from, to, n)
         IN  /\ r \in Holdings
             /\ r[from].amount = h[from].amount - n
             /\ r[to].amount = h[to].amount + n
             /\ \A a \in Accounts : a \notin {from, to} => r[a] = h[a]
             /\ \A a \in Accounts : (r[a] = None) <=> (h[a] = None)
             /\ \A a \in Accounts : h[a] # None => r[a].mint = h[a].mint
<1> DEFINE r == Moved(h, from, to, n)
           debited == [h[from] EXCEPT !.amount = @ + (-n)]
           credited == [h[to] EXCEPT !.amount = @ + n]
<1>1. h[from] \in Holding /\ h[to] \in Holding
  BY DEF Holdings
<1>2. h[from].amount \in Nat /\ h[to].amount \in Nat /\ h[from].amount <= U64Max
  BY <1>1, Words DEF Holding
<1>3. /\ debited \in Holding /\ debited.amount = h[from].amount - n
      /\ debited.mint = h[from].mint
  <2>1. h[from].amount + (-n) \in U64 /\ h[from].amount + (-n) = h[from].amount - n
    BY <1>2, MathAssumption DEF U64
  <2> QED BY <1>1, <2>1 DEF Holding
<1>4. /\ credited \in Holding /\ credited.amount = h[to].amount + n
      /\ credited.mint = h[to].mint
  <2>1. h[to].amount + n \in U64
    BY <1>2, MathAssumption DEF U64, AddFits
  <2> QED BY <1>1, <2>1 DEF Holding
<1>5. /\ r[from] = debited /\ r[to] = credited
      /\ \A a \in Accounts : a \notin {from, to} => r[a] = h[a]
      /\ r = [a \in Accounts |-> r[a]]
  BY DEF Moved, Add
<1> HIDE DEF r, debited, credited
<1>6. debited # None /\ credited # None
  BY <1>3, <1>4, ExchangeAssumption
<1>7. r \in Holdings
  <2>1. \A a \in Accounts : r[a] \in Holding \cup {None}
    BY <1>3, <1>4, <1>5 DEF Holdings
  <2> QED BY <1>5, <2>1 DEF Holdings
<1>8. \A a \in Accounts : (r[a] = None) <=> (h[a] = None)
  BY <1>5, <1>6
<1>9. \A a \in Accounts : h[a] # None => r[a].mint = h[a].mint
  BY <1>3, <1>4, <1>5
<1> QED BY <1>3, <1>4, <1>5, <1>7, <1>8, <1>9 DEF r

\* A sum over some of the accounts.
LEMMA SupplyOf ==
  ASSUME NEW h, NEW mint
  PROVE  Supply(h, mint) = Total(h, Owners(h, mint))
BY DEF Supply, Total

LEMMA OwnersFinite ==
  ASSUME NEW h \in Holdings, NEW mint
  PROVE  /\ IsFiniteSet(Owners(h, mint))
         /\ \A a \in Owners(h, mint) : a \in Accounts /\ h[a] \in Holding /\ h[a].amount \in Nat
<1>1. IsFiniteSet(Owners(h, mint))
  <2>1. Owners(h, mint) \in SUBSET Accounts
    BY DEF Owners
  <2> QED BY <2>1, FiniteAssumption, FS_Subset
<1>2. \A a \in Owners(h, mint) : a \in Accounts /\ h[a] \in Holding
  BY DEF Owners, Holdings
<1> QED BY <1>1, <1>2, Words DEF Holding

\* The total with two of its accounts set apart.
LEMMA TotalOfTwo ==
  ASSUME NEW g, NEW S, IsFiniteSet(S), \A a \in S : g[a].amount \in Nat,
         NEW x \in S, NEW y \in S, x # y
  PROVE  /\ Total(g, S) = g[x].amount + (g[y].amount + Total(g, (S \ {x}) \ {y}))
         /\ Total(g, (S \ {x}) \ {y}) \in Nat
<1>1. PICK R, W : R = (S \ {x}) \ {y} /\ W = S \ {x}
  OBVIOUS
<1>2. /\ R \in SUBSET S /\ y \in S \ R /\ W = R \cup {y}
      /\ W \in SUBSET S /\ x \in S \ W /\ S = W \cup {x}
  BY <1>1
<1>3. Total(g, R) \in Nat /\ Total(g, W) = g[y].amount + Total(g, R)
  BY <1>2, TotalAdds
<1>4. Total(g, S) = g[x].amount + Total(g, W)
  <2>1. \A a \in S \ W : Total(g, W \cup {a}) = g[a].amount + Total(g, W)
    BY <1>2, TotalAdds
  <2> QED BY <1>2, <2>1
<1> QED BY <1>1, <1>3, <1>4

\* A payment between two accounts of one token moves the amount and adds nothing.
LEMMA PaymentConserves ==
  ASSUME NEW h \in Holdings, NEW from \in Accounts, NEW to \in Accounts, from # to,
         NEW n \in Nat, h[from] # None, h[to] # None, h[from].amount >= n,
         AddFits(h[to].amount, n), h[to].mint = h[from].mint
  PROVE  SameSupply(h, Moved(h, from, to, n))
<1>1. PICK r : r = Moved(h, from, to, n)
  OBVIOUS
<1>2. /\ r \in Holdings
      /\ r[from].amount = h[from].amount - n
      /\ r[to].amount = h[to].amount + n
      /\ \A a \in Accounts : a \notin {from, to} => r[a] = h[a]
      /\ \A a \in Accounts : (r[a] = None) <=> (h[a] = None)
      /\ \A a \in Accounts : h[a] # None => r[a].mint = h[a].mint
  <2> HIDE DEF Moved
  <2> QED BY <1>1, PaymentEffect
<1>3. ASSUME NEW mint \in Mints
      PROVE  Supply(r, mint) = Supply(h, mint)
  <2>1. PICK S : S = Owners(h, mint)
    OBVIOUS
  <2>2. S = Owners(r, mint)
    BY <1>2, <2>1 DEF Owners
  <2>3. /\ IsFiniteSet(S)
        /\ \A a \in S : a \in Accounts /\ h[a].amount \in Nat /\ r[a].amount \in Nat
    BY <1>2, <2>1, <2>2, OwnersFinite
  <2>4. (from \in S) <=> (to \in S)
    BY <2>1 DEF Owners
  <2>5. CASE from \notin S
    <3>1. \A a \in S : r[a].amount = h[a].amount
      BY <1>2, <2>3, <2>4, <2>5
    <3>2. Total(r, S) = Total(h, S)
      BY <2>3, <3>1, TotalSame
    <3> QED BY <2>1, <2>2, <3>2, SupplyOf
  <2>6. CASE from \in S
    <3> DEFINE R == (S \ {from}) \ {to}
    <3>1. IsFiniteSet(R) /\ \A a \in R : r[a].amount = h[a].amount
      BY <1>2, <2>3, FS_Subset
    <3>2. /\ Total(h, S) = h[from].amount + (h[to].amount + Total(h, R))
          /\ Total(h, R) \in Nat
      BY <2>3, <2>4, <2>6, TotalOfTwo
    <3>3. Total(r, S) = r[from].amount + (r[to].amount + Total(r, R))
      BY <2>3, <2>4, <2>6, TotalOfTwo
    <3> HIDE DEF R
    <3>4. Total(r, R) = Total(h, R)
      BY <3>1, TotalSame
    <3>5. h[from].amount \in Nat /\ h[to].amount \in Nat
      BY <2>3, <2>4, <2>6
    <3>6. Total(r, S) = Total(h, S)
      BY <1>2, <3>2, <3>3, <3>4, <3>5
    <3> QED BY <2>1, <2>2, <3>6, SupplyOf
  <2> QED BY <2>5, <2>6
<1> QED BY <1>1, <1>3 DEF SameSupply

\* A new account holds nothing.
LEMMA NewAccountConserves ==
  ASSUME NEW h \in Holdings, NEW x \in Accounts, h[x] = None,
         NEW new \in Holding, new.amount = 0
  PROVE  SameSupply(h, [h EXCEPT ![x] = new]) /\ [h EXCEPT ![x] = new] \in Holdings
<1>1. PICK r : r = [h EXCEPT ![x] = new]
  OBVIOUS
<1>2. r \in Holdings /\ r[x] = new /\ \A a \in Accounts : a # x => r[a] = h[a]
  BY <1>1 DEF Holdings
<1>3. ASSUME NEW mint \in Mints
      PROVE  Supply(r, mint) = Supply(h, mint)
  <2>1. PICK S : S = Owners(h, mint)
    OBVIOUS
  <2>2. /\ IsFiniteSet(S) /\ x \notin S
        /\ \A a \in S : a \in Accounts /\ r[a].amount = h[a].amount
    BY <1>2, <2>1, OwnersFinite DEF Owners
  <2>3. Total(r, S) = Total(h, S)
    BY <2>2, TotalSame
  <2>4. CASE new.mint # mint
    <3>1. Owners(r, mint) = S
      BY <1>2, <2>1, <2>4 DEF Owners
    <3> QED BY <2>1, <2>3, <3>1, SupplyOf
  <2>5. CASE new.mint = mint
    <3>1. Owners(r, mint) = S \cup {x}
      BY <1>2, <2>1, <2>5, ExchangeAssumption DEF Owners
    <3>2. IsFiniteSet(S \cup {x}) /\ \A a \in S \cup {x} : r[a].amount \in Nat
      BY <1>2, <3>1, OwnersFinite
    <3>3. S \in SUBSET (S \cup {x}) /\ x \in (S \cup {x}) \ S
      BY <2>2
    <3>4. Total(r, S) \in Nat /\ Total(r, S \cup {x}) = r[x].amount + Total(r, S)
      BY <3>2, <3>3, TotalAdds
    <3>5. Total(r, S \cup {x}) = Total(r, S)
      BY <1>2, <3>4
    <3> QED BY <2>1, <2>3, <3>1, <3>5, SupplyOf
  <2> QED BY <2>4, <2>5
<1> QED BY <1>1, <1>2, <1>3 DEF SameSupply

\* The parts of Covered for one exchange.
OwnCovered(h, book) ==
  /\ \A v \in VaultsOf(book) : h[v] # None
  /\ h[book.vault_a].amount >= book.a
  /\ h[book.vault_b].amount >= book.b
  /\ h[book.fee_vault].amount >= book.fee
  /\ book.vault_a # book.vault_b
  /\ book.fee_vault \notin {book.vault_a, book.vault_b}

LEMMA CoveredParts ==
  ASSUME NEW h, NEW bk
  PROVE  Covered(h, bk) <=>
           /\ \A m \in Open(bk) : OwnCovered(h, bk[m])
           /\ \A m1, m2 \in Open(bk) :
                m1 # m2 => VaultsOf(bk[m1]) \cap VaultsOf(bk[m2]) = {}
BY DEF Covered, OwnCovered

\* Amounts and vaults of an open exchange have their types.
LEMMA BookTyped ==
  ASSUME NEW h \in Holdings, NEW bk \in Books, Covered(h, bk), NEW m \in Exchanges, bk[m] # None
  PROVE  /\ bk[m] \in Book
         /\ VaultsOf(bk[m]) \subseteq Accounts
         /\ \A v \in VaultsOf(bk[m]) : h[v] \in Holding /\ h[v].amount \in Nat
         /\ bk[m].a \in Nat /\ bk[m].b \in Nat /\ bk[m].fee \in Nat
         /\ OwnCovered(h, bk[m])
<1>1. bk[m] \in Book
  BY DEF Books
<1>2. OwnCovered(h, bk[m])
  BY CoveredParts DEF Open
<1>3. VaultsOf(bk[m]) \subseteq Accounts
  BY <1>1 DEF VaultsOf, Book
<1>4. \A v \in VaultsOf(bk[m]) : h[v] \in Holding /\ h[v].amount \in Nat
  <2>1. \A v \in VaultsOf(bk[m]) : h[v] \in Holding
    BY <1>2, <1>3 DEF Holdings, OwnCovered
  <2> QED BY <2>1, Words DEF Holding
<1>5. bk[m].a \in Nat /\ bk[m].b \in Nat /\ bk[m].fee \in Nat
  BY <1>1, Words DEF Book
<1> QED BY <1>1, <1>2, <1>3, <1>4, <1>5

\* Every exchange stays covered when the other vaults lose nothing and one exchange
\* is still covered by its own.
LEMMA CoveredChange ==
  ASSUME NEW h \in Holdings, NEW bk \in Books, Covered(h, bk),
         NEW m \in Exchanges, bk[m] # None,
         NEW r \in Holdings, \A a \in Accounts : (r[a] = None) <=> (h[a] = None),
         \A m2 \in Open(bk) : m2 # m =>
           \A v \in VaultsOf(bk[m2]) : r[v].amount >= h[v].amount,
         NEW new \in Book, VaultsOf(new) = VaultsOf(bk[m]), OwnCovered(r, new)
  PROVE  /\ [bk EXCEPT ![m] = new] \in Books
         /\ Covered(r, [bk EXCEPT ![m] = new])
<1> DEFINE bk2 == [bk EXCEPT ![m] = new]
<1>1. bk2 \in Books
  BY DEF Books
<1>2. bk2[m] = new /\ \A m2 \in Exchanges : m2 # m => bk2[m2] = bk[m2]
  BY DEF Books
<1>3. Open(bk2) = Open(bk)
  BY <1>2, ExchangeAssumption DEF Open
<1>4. ASSUME NEW m2 \in Open(bk), m2 # m
      PROVE  OwnCovered(r, bk[m2])
  <2>1. m2 \in Exchanges /\ bk[m2] # None
    BY DEF Open
  <2>2. /\ bk[m2] \in Book /\ VaultsOf(bk[m2]) \subseteq Accounts
        /\ \A v \in VaultsOf(bk[m2]) : h[v] \in Holding /\ h[v].amount \in Nat
        /\ bk[m2].a \in Nat /\ bk[m2].b \in Nat /\ bk[m2].fee \in Nat
        /\ OwnCovered(h, bk[m2])
    BY <2>1, BookTyped
  <2>3. \A v \in VaultsOf(bk[m2]) : r[v] # None /\ r[v].amount \in Nat
    <3>1. \A v \in VaultsOf(bk[m2]) : r[v] # None /\ r[v] \in Holding
      BY <2>2 DEF OwnCovered, Holdings
    <3> QED BY <3>1, Words DEF Holding
  <2>4. \A v \in VaultsOf(bk[m2]) : r[v].amount >= h[v].amount
    BY <1>4
  <2> QED BY <2>2, <2>3, <2>4 DEF OwnCovered, VaultsOf
<1>5. \A m2 \in Open(bk2) : OwnCovered(r, bk2[m2])
  BY <1>2, <1>3, <1>4 DEF Open
<1>6. \A m1, m2 \in Open(bk2) :
        m1 # m2 => VaultsOf(bk2[m1]) \cap VaultsOf(bk2[m2]) = {}
  <2>1. \A m2 \in Open(bk2) : VaultsOf(bk2[m2]) = VaultsOf(bk[m2])
    BY <1>2, <1>3 DEF Open
  <2> HIDE DEF bk2
  <2> QED BY <1>3, <2>1, CoveredParts
<1> HIDE DEF bk2
<1>7. Covered(r, bk2)
  BY <1>5, <1>6, CoveredParts
<1> QED BY <1>1, <1>7 DEF bk2

\* An account that can pay or take, and the vaults, as the steps below use them.
LEMMA PayerFacts ==
  ASSUME TypeOK, NEW from \in Accounts, NEW n \in Nat, CanPay(from, n)
  PROVE  /\ held[from] # None /\ held[from].amount >= n /\ held[from].amount \in Nat
         /\ \A m \in Open(books) : from \notin VaultsOf(books[m])
<1>1. held[from] \in Holding
  BY DEF TypeOK, Holdings, CanPay
<1>2. held[from].amount \in Nat
  BY <1>1, Words DEF Holding
<1>3. \A m \in Open(books) : from \notin VaultsOf(books[m])
  BY DEF CanPay, Vaults
<1> QED BY <1>2, <1>3 DEF CanPay

\* A plain payment takes nothing from a vault.
LEMMA PaySound ==
  ASSUME IInv, Pay
  PROVE  held' \in Holdings /\ books' \in Books /\ Covered(held', books') /\ SameSupply(held, held')
<1>1. PICK from \in Accounts, to \in Accounts, n \in U64 :
        /\ from # to
        /\ CanPay(from, n)
        /\ CanTake(to, from, n)
        /\ held' = Moved(held, from, to, n)
  BY DEF Pay
<1>2. n \in Nat /\ held \in Holdings /\ books \in Books /\ Covered(held, books) /\ TypeOK
  BY Words DEF IInv, TypeOK, Solvent
<1>3. /\ held[from] # None /\ held[from].amount >= n
      /\ \A m \in Open(books) : from \notin VaultsOf(books[m])
  BY <1>1, <1>2, PayerFacts
<1>4. held[to] # None /\ AddFits(held[to].amount, n)
  BY <1>1 DEF CanTake
<1>5. /\ held' \in Holdings
      /\ held'[to].amount = held[to].amount + n
      /\ \A a \in Accounts : a \notin {from, to} => held'[a] = held[a]
      /\ \A a \in Accounts : (held'[a] = None) <=> (held[a] = None)
  BY <1>1, <1>2, <1>3, <1>4, PaymentEffect
<1>6. ASSUME NEW m \in Open(books)
      PROVE  OwnCovered(held', books[m])
  <2>1. m \in Exchanges /\ books[m] # None
    BY DEF Open
  <2>2. /\ books[m] \in Book /\ VaultsOf(books[m]) \subseteq Accounts
        /\ \A v \in VaultsOf(books[m]) : held[v].amount \in Nat
        /\ books[m].a \in Nat /\ books[m].b \in Nat /\ books[m].fee \in Nat
        /\ OwnCovered(held, books[m])
    BY <1>2, <2>1, BookTyped
  <2>3. \A v \in VaultsOf(books[m]) :
          /\ held'[v] # None
          /\ held'[v].amount = held[v].amount \/ held'[v].amount = held[v].amount + n
    BY <1>3, <1>5, <2>2 DEF OwnCovered
  <2> QED BY <1>2, <2>2, <2>3 DEF OwnCovered, VaultsOf
<1>7. books' = books
  BY DEF Pay
<1>8. Covered(held', books)
  BY <1>2, <1>6, CoveredParts
<1>9. SameSupply(held, held')
  BY <1>1, <1>2, <1>3, <1>4, PaymentConserves DEF CanTake
<1> QED BY <1>2, <1>5, <1>7, <1>8, <1>9

\* A new exchange gets accounts that did not exist, hence nobody else's vaults.
LEMMA CreateSound ==
  ASSUME IInv, NEW m \in Exchanges, Create(m)
  PROVE  held' \in Holdings /\ books' \in Books /\ Covered(held', books') /\ SameSupply(held, held')
<1> DEFINE empty(mint) == [mint |-> mint, amount |-> 0]
           Opened(mint_a, mint_b, va, vb, fv) ==
             /\ held[fv] = None
             /\ held' = [held EXCEPT ![va] = empty(mint_a), ![vb] = empty(mint_b),
                                     ![fv] = empty(mint_a)]
             /\ books' = [books EXCEPT ![m] = [vault_a |-> va, vault_b |-> vb, fee_vault |-> fv,
                                               a |-> 0, b |-> 0, fee |-> 0]]
<1>0. PICK mint_a \in Mints, mint_b \in Mints :
        \E va \in Accounts : held[va] = None /\
        \E vb \in Accounts \ {va} : held[vb] = None /\
        \E fv \in Accounts \ {va, vb} : Opened(mint_a, mint_b, va, vb, fv)
  BY DEF Create
<1>0a. PICK va \in Accounts :
         held[va] = None /\
         \E vb \in Accounts \ {va} : held[vb] = None /\
         \E fv \in Accounts \ {va, vb} : Opened(mint_a, mint_b, va, vb, fv)
  BY <1>0
<1>0b. PICK vb \in Accounts \ {va} :
         held[vb] = None /\ \E fv \in Accounts \ {va, vb} : Opened(mint_a, mint_b, va, vb, fv)
  BY <1>0a
<1>0c. PICK fv \in Accounts \ {va, vb} : Opened(mint_a, mint_b, va, vb, fv)
  BY <1>0b
<1>1. /\ va # vb /\ fv \notin {va, vb}
      /\ held[va] = None /\ held[vb] = None /\ held[fv] = None
      /\ held' = [held EXCEPT ![va] = empty(mint_a), ![vb] = empty(mint_b),
                              ![fv] = empty(mint_a)]
      /\ books' = [books EXCEPT ![m] = [vault_a |-> va, vault_b |-> vb, fee_vault |-> fv,
                                        a |-> 0, b |-> 0, fee |-> 0]]
  BY <1>0a, <1>0b, <1>0c
<1> HIDE DEF Opened
<1> DEFINE new == [vault_a |-> va, vault_b |-> vb, fee_vault |-> fv, a |-> 0, b |-> 0, fee |-> 0]
<1>2. held \in Holdings /\ books \in Books /\ Covered(held, books) /\ books[m] = None
  BY DEF IInv, TypeOK, Solvent, Create
<1>3. /\ 0 \in U64
      /\ empty(mint_a) \in Holding /\ empty(mint_b) \in Holding
      /\ empty(mint_a).amount = 0 /\ empty(mint_b).amount = 0
  BY MathAssumption DEF Holding, U64
<1>4. new \in Book /\ VaultsOf(new) = {va, vb, fv}
  BY <1>3 DEF Book, VaultsOf
<1> HIDE DEF empty
<1>5. /\ held' \in Holdings
      /\ held'[va] = empty(mint_a) /\ held'[vb] = empty(mint_b) /\ held'[fv] = empty(mint_a)
      /\ \A a \in Accounts : a \notin {va, vb, fv} => held'[a] = held[a]
  BY <1>1, <1>2, <1>3 DEF Holdings
<1>6. OwnCovered(held', new)
  <2>1. held'[va] # None /\ held'[vb] # None /\ held'[fv] # None
    BY <1>3, <1>5, ExchangeAssumption
  <2> QED BY <1>1, <1>3, <1>4, <1>5, <2>1 DEF OwnCovered
<1>7. /\ books' \in Books /\ books'[m] = new
      /\ \A m2 \in Exchanges : m2 # m => books'[m2] = books[m2]
  BY <1>1, <1>2, <1>4 DEF Books
<1>8. Open(books') = Open(books) \cup {m} /\ m \notin Open(books)
  BY <1>2, <1>4, <1>7, ExchangeAssumption DEF Open
<1> HIDE DEF new
<1>9. ASSUME NEW m2 \in Open(books)
      PROVE  /\ OwnCovered(held', books[m2]) /\ books'[m2] = books[m2]
             /\ VaultsOf(books[m2]) \cap {va, vb, fv} = {}
  <2>1. m2 \in Exchanges /\ books[m2] # None
    BY DEF Open
  <2>2. VaultsOf(books[m2]) \subseteq Accounts /\ OwnCovered(held, books[m2])
    BY <1>2, <2>1, BookTyped
  <2>3. VaultsOf(books[m2]) \cap {va, vb, fv} = {}
    BY <1>1, <2>2 DEF OwnCovered
  <2>4. \A v \in VaultsOf(books[m2]) : held'[v] = held[v]
    BY <1>5, <2>2, <2>3
  <2>5. OwnCovered(held', books[m2])
    BY <2>2, <2>4 DEF OwnCovered, VaultsOf
  <2> QED BY <1>2, <1>7, <2>1, <2>3, <2>5
<1>10. \A m2 \in Open(books') : OwnCovered(held', books'[m2])
  BY <1>6, <1>7, <1>8, <1>9
<1>11. \A m1, m2 \in Open(books') :
         m1 # m2 => VaultsOf(books'[m1]) \cap VaultsOf(books'[m2]) = {}
  <2>1. \A m1, m2 \in Open(books) :
          m1 # m2 => VaultsOf(books[m1]) \cap VaultsOf(books[m2]) = {}
    BY <1>2, CoveredParts
  <2> QED BY <1>4, <1>7, <1>8, <1>9, <2>1
<1>12. Covered(held', books')
  BY <1>10, <1>11, CoveredParts
<1>13. SameSupply(held, held')
  <2>1. PICK h1, h2 : /\ h1 = [held EXCEPT ![va] = empty(mint_a)]
                      /\ h2 = [h1 EXCEPT ![vb] = empty(mint_b)]
    OBVIOUS
  <2>2. SameSupply(held, h1) /\ h1 \in Holdings
    BY <1>1, <1>2, <1>3, <2>1, NewAccountConserves
  <2>3. h1[vb] = None
    BY <1>1, <1>2, <2>1 DEF Holdings
  <2>4. SameSupply(h1, h2) /\ h2 \in Holdings
    BY <1>3, <2>1, <2>2, <2>3, NewAccountConserves
  <2>5. h2[fv] = None
    BY <1>1, <1>2, <2>1 DEF Holdings
  <2>6. held' = [h2 EXCEPT ![fv] = empty(mint_a)]
    BY <1>1, <2>1
  <2>7. SameSupply(h2, held')
    BY <1>3, <2>4, <2>5, <2>6, NewAccountConserves
  <2> QED BY <2>2, <2>4, <2>7 DEF SameSupply
<1> QED BY <1>5, <1>7, <1>12, <1>13

\* The vaults of other exchanges are not among those of this one, nor the payer.
LEMMA OthersApart ==
  ASSUME NEW h \in Holdings, NEW bk \in Books, Covered(h, bk), NEW m \in Open(bk), NEW m2 \in Open(bk), m2 # m
  PROVE  VaultsOf(bk[m2]) \cap VaultsOf(bk[m]) = {} /\ VaultsOf(bk[m2]) \subseteq Accounts
<1>1. m2 \in Exchanges /\ bk[m2] # None
  BY DEF Open
<1> QED BY <1>1, CoveredParts, BookTyped

\* Money paid into a vault of an exchange covers as much more in its book.
LEMMA DepositIntoSound ==
  ASSUME IInv, NEW m \in Exchanges, books[m] # None,
         NEW vault \in VaultsOf(books[m]), NEW from \in Accounts, NEW n \in Nat,
         CanPay(from, n), CanTake(vault, from, n), held' = Moved(held, from, vault, n),
         NEW new \in Book,
         new.vault_a = books[m].vault_a, new.vault_b = books[m].vault_b,
         new.fee_vault = books[m].fee_vault, new.fee = books[m].fee,
         new.a = books[m].a \/ (vault = books[m].vault_a /\ new.a = books[m].a + n),
         new.b = books[m].b \/ (vault = books[m].vault_b /\ new.b = books[m].b + n),
         books' = [books EXCEPT ![m] = new]
  PROVE  held' \in Holdings /\ books' \in Books /\ Covered(held', books') /\ SameSupply(held, held')
<1>1. /\ held \in Holdings /\ books \in Books /\ Covered(held, books) /\ TypeOK
      /\ m \in Open(books)
  BY DEF IInv, TypeOK, Solvent, Open
<1>2. /\ books[m] \in Book /\ VaultsOf(books[m]) \subseteq Accounts
      /\ \A v \in VaultsOf(books[m]) : held[v].amount \in Nat
      /\ books[m].a \in Nat /\ books[m].b \in Nat /\ books[m].fee \in Nat
      /\ OwnCovered(held, books[m])
      /\ VaultsOf(books[m]) = {books[m].vault_a, books[m].vault_b, books[m].fee_vault}
      /\ VaultsOf(new) = VaultsOf(books[m])
  BY <1>1, BookTyped DEF VaultsOf
<1>4. /\ held[from] # None /\ held[from].amount >= n
      /\ \A m2 \in Open(books) : from \notin VaultsOf(books[m2])
  BY <1>1, PayerFacts
<1>5. from # vault /\ vault \in Accounts /\ held[vault] # None /\ AddFits(held[vault].amount, n)
  BY <1>1, <1>2, <1>4 DEF CanTake
<1>6. /\ held' \in Holdings
      /\ held'[vault].amount = held[vault].amount + n
      /\ \A a \in Accounts : a \notin {from, vault} => held'[a] = held[a]
      /\ \A a \in Accounts : (held'[a] = None) <=> (held[a] = None)
  BY <1>1, <1>4, <1>5, PaymentEffect
<1>7. \A v \in VaultsOf(books[m]) : v # vault => held'[v] = held[v]
  BY <1>1, <1>2, <1>4, <1>6
<1>8. \A v \in VaultsOf(books[m]) :
        held'[v].amount >= held[v].amount /\ held'[v].amount \in Nat
  BY <1>2, <1>6, <1>7
<1>9. OwnCovered(held', new)
  <2>1. \A v \in VaultsOf(new) : held'[v] # None
    BY <1>2, <1>6 DEF OwnCovered
  <2>2. held'[new.vault_a].amount >= new.a
    BY <1>2, <1>6, <1>8 DEF OwnCovered
  <2>3. held'[new.vault_b].amount >= new.b
    BY <1>2, <1>6, <1>8 DEF OwnCovered
  <2>4. held'[new.fee_vault].amount >= new.fee
    BY <1>2, <1>6, <1>8 DEF OwnCovered
  <2> QED BY <1>2, <2>1, <2>2, <2>3, <2>4 DEF OwnCovered
<1>10. ASSUME NEW m2 \in Open(books), m2 # m, NEW v \in VaultsOf(books[m2])
       PROVE  held'[v].amount >= held[v].amount
  <2>1. v \in Accounts /\ v \notin VaultsOf(books[m])
    BY <1>1, <1>10, OthersApart
  <2>2. held'[v] = held[v]
    BY <1>4, <1>6, <1>10, <2>1
  <2>3. held[v].amount \in Nat
    BY <1>1, <1>10, BookTyped DEF Open
  <2> QED BY <2>2, <2>3
<1>11. SameSupply(held, held')
  BY <1>1, <1>4, <1>5, PaymentConserves DEF CanTake
<1> QED BY <1>1, <1>2, <1>6, <1>9, <1>10, <1>11, CoveredChange

\* A deposit raises a vault and its side of the book together.
LEMMA DepositSound ==
  ASSUME IInv, NEW m \in Exchanges, Deposit(m)
  PROVE  held' \in Holdings /\ books' \in Books /\ Covered(held', books') /\ SameSupply(held, held')
<1>1. /\ held \in Holdings /\ books \in Books /\ Covered(held, books)
      /\ books[m] # None
  BY DEF IInv, TypeOK, Solvent, Deposit
<1>2. /\ books[m] \in Book
      /\ \A v \in VaultsOf(books[m]) : held[v].amount \in Nat
      /\ books[m].a \in Nat /\ books[m].b \in Nat
      /\ OwnCovered(held, books[m])
      /\ books[m].vault_a \in VaultsOf(books[m]) /\ books[m].vault_b \in VaultsOf(books[m])
  BY <1>1, BookTyped DEF VaultsOf
<1>3. PICK n \in U64 \ {0} :
        \/ /\ books' = [books EXCEPT ![m].a = @ + n]
           /\ \E from \in Accounts : DepositInto(books[m].vault_a, from, n)
        \/ /\ books' = [books EXCEPT ![m].b = @ + n]
           /\ \E from \in Accounts : DepositInto(books[m].vault_b, from, n)
  BY DEF Deposit
<1>4. n \in Nat
  BY Words
<1>5. ASSUME NEW from \in Accounts, DepositInto(books[m].vault_a, from, n),
             books' = [books EXCEPT ![m].a = @ + n]
      PROVE  held' \in Holdings /\ books' \in Books /\ Covered(held', books') /\ SameSupply(held, held')
  <2> DEFINE new == [books[m] EXCEPT !.a = @ + n]
  <2>1. books[m].a + n \in U64
    <3>1. held[books[m].vault_a].amount + n <= U64Max /\ held[books[m].vault_a].amount \in Nat
      BY <1>2, <1>5 DEF DepositInto, CanTake, AddFits
    <3>2. held[books[m].vault_a].amount >= books[m].a
      BY <1>2 DEF OwnCovered
    <3> QED BY <1>2, <1>4, <3>1, <3>2, MathAssumption DEF U64
  <2>2. /\ new \in Book
        /\ new.vault_a = books[m].vault_a /\ new.vault_b = books[m].vault_b
        /\ new.fee_vault = books[m].fee_vault /\ new.fee = books[m].fee
        /\ new.a = books[m].a + n /\ new.b = books[m].b
    BY <1>2, <2>1 DEF Book
  <2>3. books' = [books EXCEPT ![m] = new]
    BY <1>1, <1>5 DEF Books
  <2> HIDE DEF new
  <2>4. /\ CanPay(from, n) /\ CanTake(books[m].vault_a, from, n)
        /\ held' = Moved(held, from, books[m].vault_a, n)
    BY <1>5 DEF DepositInto
  <2> QED BY <1>1, <1>2, <1>4, <2>2, <2>3, <2>4, DepositIntoSound
<1>6. ASSUME NEW from \in Accounts, DepositInto(books[m].vault_b, from, n),
             books' = [books EXCEPT ![m].b = @ + n]
      PROVE  held' \in Holdings /\ books' \in Books /\ Covered(held', books') /\ SameSupply(held, held')
  <2> DEFINE new == [books[m] EXCEPT !.b = @ + n]
  <2>1. books[m].b + n \in U64
    <3>1. held[books[m].vault_b].amount + n <= U64Max /\ held[books[m].vault_b].amount \in Nat
      BY <1>2, <1>6 DEF DepositInto, CanTake, AddFits
    <3>2. held[books[m].vault_b].amount >= books[m].b
      BY <1>2 DEF OwnCovered
    <3> QED BY <1>2, <1>4, <3>1, <3>2, MathAssumption DEF U64
  <2>2. /\ new \in Book
        /\ new.vault_a = books[m].vault_a /\ new.vault_b = books[m].vault_b
        /\ new.fee_vault = books[m].fee_vault /\ new.fee = books[m].fee
        /\ new.a = books[m].a /\ new.b = books[m].b + n
    BY <1>2, <2>1 DEF Book
  <2>3. books' = [books EXCEPT ![m] = new]
    BY <1>1, <1>6 DEF Books
  <2> HIDE DEF new
  <2>4. /\ CanPay(from, n) /\ CanTake(books[m].vault_b, from, n)
        /\ held' = Moved(held, from, books[m].vault_b, n)
    BY <1>6 DEF DepositInto
  <2> QED BY <1>1, <1>2, <1>4, <2>2, <2>3, <2>4, DepositIntoSound
<1> QED BY <1>3, <1>5, <1>6

\* What the three payments of a trade need, and what they do to the holdings.
CanTrade(h, from, to, va, vb, fv, input, fee, output) ==
  /\ h \in Holdings /\ {from, to, va, vb, fv} \subseteq Accounts
  /\ va # vb /\ fv \notin {va, vb} /\ from \notin {va, vb, fv} /\ to \notin {va, vb, fv}
  /\ \A a \in {from, to, va, vb, fv} : h[a] # None
  /\ input \in Nat /\ fee \in Nat /\ output \in Nat
  /\ h[from].amount >= input + fee /\ h[vb].amount >= output
  /\ AddFits(h[va].amount, input) /\ AddFits(h[fv].amount, fee) /\ AddFits(h[to].amount, output)
  /\ h[va].mint = h[from].mint /\ h[fv].mint = h[from].mint /\ h[to].mint = h[vb].mint

Traded(h, r, from, va, vb, fv, input, fee, output) ==
  /\ r \in Holdings
  /\ r[va].amount = h[va].amount + input
  /\ r[fv].amount = h[fv].amount + fee
  /\ r[vb].amount = h[vb].amount - output
  /\ \A a \in Accounts : a \notin {from, va, vb, fv} /\ h[a] # None => r[a].amount >= h[a].amount
  /\ \A a \in Accounts : (r[a] = None) <=> (h[a] = None)
  /\ SameSupply(h, r)

\* The three payments of a trade: the payer and the output vault are debited, the two
\* other vaults credited, and nobody else's vault loses anything.
LEMMA TradeEffect ==
  ASSUME NEW h, NEW from, NEW to, NEW va, NEW vb, NEW fv, NEW input, NEW fee, NEW output,
         CanTrade(h, from, to, va, vb, fv, input, fee, output)
  PROVE  Traded(h, Moved(Moved(Moved(h, from, va, input), from, fv, fee), vb, to, output),
                from, va, vb, fv, input, fee, output)
<1>0. /\ h \in Holdings /\ from \in Accounts /\ to \in Accounts
      /\ va \in Accounts /\ vb \in Accounts /\ fv \in Accounts
      /\ va # vb /\ fv \notin {va, vb} /\ from \notin {va, vb, fv} /\ to \notin {va, vb, fv}
      /\ h[from] # None /\ h[to] # None /\ h[va] # None /\ h[vb] # None /\ h[fv] # None
      /\ input \in Nat /\ fee \in Nat /\ output \in Nat
      /\ h[from].amount >= input + fee /\ h[vb].amount >= output
      /\ AddFits(h[va].amount, input) /\ AddFits(h[fv].amount, fee)
      /\ AddFits(h[to].amount, output)
      /\ h[va].mint = h[from].mint /\ h[fv].mint = h[from].mint /\ h[to].mint = h[vb].mint
  BY DEF CanTrade
<1> DEFINE r1 == Moved(h, from, va, input)
           r2 == Moved(r1, from, fv, fee)
           r3 == Moved(r2, vb, to, output)
<1>1. \A a \in Accounts : h[a] # None => h[a].amount \in Nat
  <2>1. \A a \in Accounts : h[a] # None => h[a] \in Holding
    BY <1>0 DEF Holdings
  <2> QED BY <2>1, Words DEF Holding
<1>2. h[from].amount \in Nat /\ h[from].amount >= input
  BY <1>0, <1>1
<1>3. /\ r1 \in Holdings
      /\ r1[from].amount = h[from].amount - input
      /\ r1[va].amount = h[va].amount + input
      /\ \A a \in Accounts : a \notin {from, va} => r1[a] = h[a]
      /\ \A a \in Accounts : (r1[a] = None) <=> (h[a] = None)
      /\ \A a \in Accounts : h[a] # None => r1[a].mint = h[a].mint
      /\ SameSupply(h, r1)
  <2> HIDE DEF r1
  <2>1. SameSupply(h, r1)
    BY <1>0, <1>2, PaymentConserves DEF r1
  <2> QED BY <1>0, <1>2, <2>1, PaymentEffect DEF r1
<1> HIDE DEF r1
<1>4. /\ r1[from] # None /\ r1[fv] # None /\ r1[fv] = h[fv]
      /\ r1[from].amount >= fee /\ AddFits(r1[fv].amount, fee)
  BY <1>0, <1>2, <1>3
<1>5. /\ r2 \in Holdings
      /\ r2[from].amount = r1[from].amount - fee
      /\ r2[fv].amount = h[fv].amount + fee
      /\ \A a \in Accounts : a \notin {from, fv} => r2[a] = r1[a]
      /\ \A a \in Accounts : (r2[a] = None) <=> (h[a] = None)
      /\ \A a \in Accounts : h[a] # None => r2[a].mint = h[a].mint
      /\ SameSupply(r1, r2)
  <2> HIDE DEF r2
  <2>1. r1[fv].mint = r1[from].mint
    BY <1>0, <1>3
  <2>2. SameSupply(r1, r2)
    BY <1>0, <1>3, <1>4, <2>1, PaymentConserves DEF r2
  <2> QED BY <1>0, <1>3, <1>4, <2>2, PaymentEffect DEF r2
<1> HIDE DEF r2
<1>6. /\ r2[vb] = h[vb] /\ r2[vb] # None /\ r2[to] # None
      /\ r2[vb].amount >= output
  BY <1>0, <1>3, <1>5
<1>7. AddFits(r2[to].amount, output)
  <2>1. CASE to = from
    BY <1>0, <1>1, <1>2, <1>3, <1>5, <2>1, MathAssumption DEF AddFits
  <2>2. CASE to # from
    BY <1>0, <1>3, <1>5, <2>2
  <2> QED BY <2>1, <2>2
<1>8. /\ r3 \in Holdings
      /\ r3[vb].amount = h[vb].amount - output
      /\ r3[to].amount = r2[to].amount + output
      /\ \A a \in Accounts : a \notin {vb, to} => r3[a] = r2[a]
      /\ \A a \in Accounts : (r3[a] = None) <=> (h[a] = None)
      /\ SameSupply(r2, r3)
  <2> HIDE DEF r3
  <2>1. r2[to].mint = r2[vb].mint
    BY <1>0, <1>5
  <2>2. SameSupply(r2, r3)
    BY <1>0, <1>5, <1>6, <1>7, <2>1, PaymentConserves DEF r3
  <2> QED BY <1>0, <1>5, <1>6, <1>7, <2>2, PaymentEffect DEF r3
<1> HIDE DEF r3
<1>9. r3[va].amount = h[va].amount + input /\ r3[fv].amount = h[fv].amount + fee
  BY <1>0, <1>3, <1>5, <1>8
<1>10. ASSUME NEW a \in Accounts, a \notin {from, va, vb, fv}, h[a] # None
       PROVE  r3[a].amount >= h[a].amount
  <2>1. r2[a] = h[a] /\ h[a].amount \in Nat
    BY <1>1, <1>3, <1>5, <1>10
  <2>2. r3[a] = h[a] \/ r3[a].amount = h[a].amount + output
    BY <1>8, <1>10, <2>1
  <2> QED BY <1>0, <2>1, <2>2
<1>11. SameSupply(h, r3)
  BY <1>3, <1>5, <1>8 DEF SameSupply
<1>12. Traded(h, r3, from, va, vb, fv, input, fee, output)
  BY <1>8, <1>9, <1>10, <1>11 DEF Traded
<1> QED BY <1>12 DEF r1, r2, r3

\* A trade pays what it books, from a reserve that covers it.
LEMMA TradeSound ==
  ASSUME IInv, NEW m \in Exchanges, Trade(m)
  PROVE  held' \in Holdings /\ books' \in Books /\ Covered(held', books') /\ SameSupply(held, held')
<1>1. /\ held \in Holdings /\ books \in Books /\ Covered(held, books) /\ TypeOK
      /\ books[m] # None /\ m \in Open(books)
  BY DEF IInv, TypeOK, Solvent, Trade, Open
<1>2. /\ books[m] \in Book /\ VaultsOf(books[m]) \subseteq Accounts
      /\ \A v \in VaultsOf(books[m]) : held[v] \in Holding /\ held[v].amount \in Nat
      /\ books[m].a \in Nat /\ books[m].b \in Nat /\ books[m].fee \in Nat
      /\ OwnCovered(held, books[m])
  BY <1>1, BookTyped
<1> DEFINE new(input, fee, output) ==
             [books[m] EXCEPT !.a = @ + input, !.b = @ - output, !.fee = @ + fee]
           Booked(input, fee, output) ==
             books' = [books EXCEPT ![m].a = @ + input, ![m].b = @ - output, ![m].fee = @ + fee]
           Given(from, input, fee) ==
             /\ CanPay(from, input + fee)
             /\ CanTake(books[m].vault_a, from, input)
             /\ CanTake(books[m].fee_vault, from, fee)
           Received(from, to, input, fee, output) ==
             /\ CanTake(to, books[m].vault_b, output)
             /\ held' = TradePayments(m, from, to, input, fee, output)
<1>3a. \E input \in U64 \ {0} :
       \E fee \in {f \in U64 : IsLeastFee(f, input, ProtocolFeeBps)} :
       \E output \in 1 .. books[m].b :
         /\ Booked(input, fee, output)
         /\ \E from \in Accounts :
              /\ Given(from, input, fee)
              /\ \E to \in Accounts \ VaultsOf(books[m]) :
                   Received(from, to, input, fee, output)
  BY Zenon DEF Trade
<1> HIDE DEF Booked, Given, Received
<1>3b. PICK input \in U64 \ {0} :
         \E fee \in {f \in U64 : IsLeastFee(f, input, ProtocolFeeBps)} :
         \E output \in 1 .. books[m].b :
           /\ Booked(input, fee, output)
           /\ \E from \in Accounts :
                /\ Given(from, input, fee)
                /\ \E to \in Accounts \ VaultsOf(books[m]) :
                     Received(from, to, input, fee, output)
  BY <1>3a
<1>3c. PICK fee \in U64 :
         \E output \in 1 .. books[m].b :
           /\ Booked(input, fee, output)
           /\ \E from \in Accounts :
                /\ Given(from, input, fee)
                /\ \E to \in Accounts \ VaultsOf(books[m]) :
                     Received(from, to, input, fee, output)
  BY <1>3b
<1>3d. PICK output \in 1 .. books[m].b :
         /\ Booked(input, fee, output)
         /\ \E from \in Accounts :
              /\ Given(from, input, fee)
              /\ \E to \in Accounts \ VaultsOf(books[m]) :
                   Received(from, to, input, fee, output)
  BY <1>3c
<1>3e. PICK from \in Accounts :
         /\ Given(from, input, fee)
         /\ \E to \in Accounts \ VaultsOf(books[m]) : Received(from, to, input, fee, output)
  BY <1>3d
<1>3f. PICK to \in Accounts : to \notin VaultsOf(books[m]) /\ Received(from, to, input, fee, output)
  BY <1>3e
<1>3. /\ output \in Int /\ output >= 1 /\ output <= books[m].b
      /\ to \in Accounts /\ to \notin VaultsOf(books[m])
      /\ books' = [books EXCEPT ![m] = new(input, fee, output)]
      /\ CanPay(from, input + fee)
      /\ CanTake(books[m].vault_a, from, input)
      /\ CanTake(books[m].fee_vault, from, fee)
      /\ CanTake(to, books[m].vault_b, output)
      /\ held' = TradePayments(m, from, to, input, fee, output)
  <2>1. output \in Int /\ output >= 1 /\ output <= books[m].b
    BY <1>2
  <2>2. books' = [books EXCEPT ![m] = new(input, fee, output)]
    BY <1>1, <1>2, <1>3d DEF Booked, Books, Book
  <2> QED BY <2>1, <2>2, <1>3e, <1>3f DEF Given, Received
<1>4. input \in Nat /\ fee \in Nat /\ input + fee \in Nat
  BY Words
<1>5. output \in Nat /\ books[m].b - output \in Nat
  BY <1>2, <1>3
<1>6. PICK va \in Accounts, vb \in Accounts, fv \in Accounts :
        va = books[m].vault_a /\ vb = books[m].vault_b /\ fv = books[m].fee_vault
  BY <1>2 DEF VaultsOf
<1>7. VaultsOf(books[m]) = {va, vb, fv} /\ va # vb /\ fv \notin {va, vb}
  BY <1>2, <1>6 DEF VaultsOf, OwnCovered
<1>8. /\ held[from] # None /\ held[from].amount >= input + fee
      /\ \A m2 \in Open(books) : from \notin VaultsOf(books[m2])
  BY <1>1, <1>3, <1>4, PayerFacts
<1>9. from \notin {va, vb, fv} /\ to \notin {va, vb, fv}
  BY <1>1, <1>3, <1>7, <1>8
<1>10. /\ \A v \in {va, vb, fv} : held[v] # None
       /\ held[va].amount >= books[m].a /\ held[vb].amount >= books[m].b
       /\ held[fv].amount >= books[m].fee
       /\ held[va].amount \in Nat /\ held[vb].amount \in Nat /\ held[fv].amount \in Nat
  BY <1>2, <1>6, <1>7 DEF OwnCovered
<1>11. /\ AddFits(held[va].amount, input) /\ AddFits(held[fv].amount, fee)
       /\ AddFits(held[to].amount, output) /\ held[to] # None
       /\ held' = Moved(Moved(Moved(held, from, va, input), from, fv, fee), vb, to, output)
       /\ held[va].mint = held[from].mint /\ held[fv].mint = held[from].mint
       /\ held[to].mint = held[vb].mint
  BY <1>3, <1>6 DEF CanTake, TradePayments
<1>12. held[vb].amount >= output
  BY <1>2, <1>3, <1>5, <1>10
<1>13. /\ held' \in Holdings
       /\ held'[va].amount = held[va].amount + input
       /\ held'[fv].amount = held[fv].amount + fee
       /\ held'[vb].amount = held[vb].amount - output
       /\ \A a \in Accounts : a \notin {from, va, vb, fv} /\ held[a] # None =>
            held'[a].amount >= held[a].amount
       /\ \A a \in Accounts : (held'[a] = None) <=> (held[a] = None)
       /\ SameSupply(held, held')
  <2>1. \A a \in {from, to, va, vb, fv} : held[a] # None
    BY <1>8, <1>10, <1>11
  <2> HIDE DEF new
  <2>2. CanTrade(held, from, to, va, vb, fv, input, fee, output)
    BY <1>1, <1>4, <1>5, <1>7, <1>8, <1>9, <1>11, <1>12, <2>1 DEF CanTrade
  <2>3. Traded(held, held', from, va, vb, fv, input, fee, output)
    BY <1>11, <2>2, TradeEffect
  <2> QED BY <2>3 DEF Traded
<1>14. PICK nb : nb = new(input, fee, output)
  OBVIOUS
<1>15. nb \in Book
  <2>1. books[m].a + input \in U64 /\ books[m].fee + fee \in U64
    BY <1>2, <1>4, <1>10, <1>11, MathAssumption DEF AddFits, U64
  <2>2. books[m].b - output \in U64
    <3>1. books[m].b <= U64Max
      BY <1>2, Words DEF Book
    <3> QED BY <1>2, <1>5, <3>1, MathAssumption DEF U64
  <2> QED BY <1>2, <1>14, <2>1, <2>2 DEF Book
<1>16. /\ nb.vault_a = va /\ nb.vault_b = vb /\ nb.fee_vault = fv
       /\ nb.a = books[m].a + input /\ nb.b = books[m].b - output /\ nb.fee = books[m].fee + fee
  BY <1>2, <1>6, <1>14 DEF Book
<1>17. VaultsOf(nb) = VaultsOf(books[m])
  BY <1>7, <1>16 DEF VaultsOf
<1>18. OwnCovered(held', nb)
  <2>1. held'[va].amount >= nb.a
    BY <1>2, <1>4, <1>10, <1>13, <1>16
  <2>2. held'[vb].amount >= nb.b
    BY <1>2, <1>5, <1>10, <1>13, <1>16
  <2>3. held'[fv].amount >= nb.fee
    BY <1>2, <1>4, <1>10, <1>13, <1>16
  <2>4. \A v \in VaultsOf(nb) : held'[v] # None
    BY <1>2, <1>7, <1>10, <1>13, <1>17
  <2> QED BY <1>7, <1>16, <2>1, <2>2, <2>3, <2>4 DEF OwnCovered
<1>19. ASSUME NEW m2 \in Open(books), m2 # m, NEW v \in VaultsOf(books[m2])
       PROVE  held'[v].amount >= held[v].amount
  <2>1. v \in Accounts /\ v \notin VaultsOf(books[m])
    BY <1>1, <1>19, OthersApart
  <2>2. held[v] # None
    BY <1>1, <1>19, CoveredParts DEF OwnCovered
  <2>3. v # from
    BY <1>8, <1>19
  <2> QED BY <1>7, <1>13, <2>1, <2>2, <2>3
<1>20. books' = [books EXCEPT ![m] = nb]
  BY <1>3, <1>14
<1> QED BY <1>1, <1>13, <1>15, <1>17, <1>18, <1>19, <1>20, CoveredChange

\* What happens inside a transaction.
LEMMA InsideSound ==
  ASSUME IInv, Inside
  PROVE  /\ held' \in Holdings /\ books' \in Books /\ Covered(held', books')
         /\ SameSupply(held, held') /\ committed' = committed
BY PaySound, CreateSound, DepositSound, TradeSound DEF Inside

\* The inductive step: a transaction keeps a covered copy, of the same supply, and
\* restores it.
LEMMA StepSound ==
  ASSUME IInv, [Next]_vars
  PROVE  IInv'
<1>1. CASE Begin
  <2>1. /\ held' = held /\ books' = books
        /\ committed' = [held |-> held, books |-> books]
    BY <1>1 DEF Begin
  <2>2. committed'.held = held /\ committed'.books = books
    BY <2>1
  <2>3. SameSupply(held, held)
    BY DEF SameSupply
  <2> QED BY <2>1, <2>2, <2>3 DEF IInv, TypeOK, Solvent
<1>2. CASE Commit
  BY <1>2 DEF Commit, IInv, TypeOK, Solvent
<1>3. CASE Abort
  <2>1. committed # None /\ committed \in [held : Holdings, books : Books]
    BY <1>3 DEF Abort, IInv, TypeOK
  <2>2. committed.held \in Holdings /\ committed.books \in Books
    BY <2>1
  <2> QED BY <1>3, <2>1, <2>2 DEF Abort, IInv, TypeOK, Solvent
<1>4. CASE Inside
  <2>1. /\ held' \in Holdings /\ books' \in Books /\ Covered(held', books')
        /\ SameSupply(held, held') /\ committed' = committed
    BY <1>4, InsideSound
  <2>2. committed # None => SameSupply(committed.held, held')
    BY <2>1 DEF IInv, SameSupply
  <2> QED BY <2>1, <2>2 DEF IInv, TypeOK, Solvent
<1>5. CASE UNCHANGED vars
  BY <1>5 DEF vars, IInv, TypeOK, Solvent
<1> QED BY <1>1, <1>2, <1>3, <1>4, <1>5 DEF Next

\* Every behaviour of the promise keeps its type invariant and stays solvent.
THEOREM PromiseSound == Spec => []IInv
<1>1. Init => IInv
  BY DEF Init, IInv, TypeOK, Solvent, Holdings, Books
<1>2. IInv /\ [Next]_vars => IInv'
  BY StepSound
<1> QED BY <1>1, <1>2, PTL DEF Spec

\* Whatever trades, deposits, donations and rollbacks happen, every exchange can pay
\* what its book owes from vaults that are its own (accounted_a, accounted_b and
\* accounted_fee_a against the balances of the canonical vaults).
THEOREM AlwaysSolvent == Spec => []Solvent
<1>1. IInv => Solvent
  BY DEF IInv
<1> QED BY <1>1, PromiseSound, PTL

\* No step makes or destroys tokens: payments, deposits and trades move them, a new
\* vault holds none, and a rollback returns to accounts of the same supply.
THEOREM SupplyIsConserved == Spec => SupplyConserved
<1>1. ASSUME IInv, Next
      PROVE  SameSupply(held, held')
  <2>1. CASE Begin
    BY <2>1 DEF Begin, SameSupply
  <2>2. CASE Commit
    BY <2>2 DEF Commit, SameSupply
  <2>3. CASE Abort
    <3>1. held' = committed.held /\ SameSupply(committed.held, held)
      BY <1>1, <2>3 DEF Abort, IInv
    <3> QED BY <3>1 DEF SameSupply
  <2>4. CASE Inside
    BY <1>1, <2>4, InsideSound
  <2> QED BY <1>1, <2>1, <2>2, <2>3, <2>4 DEF Next
<1>2. IInv /\ [Next]_vars =>
        [\A mint \in Mints : Supply(held', mint) = Supply(held, mint)]_vars
  BY <1>1 DEF SameSupply
<1> QED BY <1>2, PromiseSound, PTL DEF Spec, SupplyConserved
=============================================================================
