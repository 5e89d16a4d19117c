--------------------------- MODULE AssistantProofs ---------------------------
(***************************************************************************)
(* Proofs about search and the AI features, for any table, any filters and  *)
(* limits, any number of clients and any answers of the providers.         *)
(***************************************************************************)
EXTENDS Assistant, FiniteSetTheorems, SequenceTheorems, TLAPS

-----------------------------------------------------------------------------
(* Finite sets in a strict total order R can be listed in that order.       *)

StrictOrder(R, S) ==
    /\ \A x \in S : <<x, x>> \notin R
    /\ \A x, y \in S : x = y \/ <<x, y>> \in R \/ <<y, x>> \in R
    /\ \A x, y, z \in S : <<x, y>> \in R /\ <<y, z>> \in R => <<x, z>> \in R

Below(R, S, x) == {y \in S : <<y, x>> \in R}
Place(R, S, x) == Cardinality(Below(R, S, x)) + 1

IsListing(s, R, S) ==
    /\ s \in [1..Cardinality(S) -> S]
    /\ \A i, j \in 1..Cardinality(S) : i < j => <<s[i], s[j]>> \in R

\* Places are between 1 and the size of the set, and grow along the order.
LEMMA Places ==
    ASSUME NEW R, NEW S, IsFiniteSet(S), StrictOrder(R, S)
    PROVE  /\ \A x \in S : Place(R, S, x) \in 1..Cardinality(S)
           /\ \A x, y \in S : <<x, y>> \in R => Place(R, S, x) < Place(R, S, y)
<1>1. \A x \in S : IsFiniteSet(Below(R, S, x)) /\ Cardinality(Below(R, S, x)) \in Nat
    BY FS_Subset, FS_CardinalityType DEF Below
<1>2. Cardinality(S) \in Nat
    BY FS_CardinalityType
<1>3. ASSUME NEW x \in S
      PROVE  Place(R, S, x) \in 1..Cardinality(S)
  <2>1. Below(R, S, x) \subseteq S /\ x \notin Below(R, S, x)
    BY DEF Below, StrictOrder
  <2>2. Cardinality(Below(R, S, x)) <= Cardinality(S) /\ Cardinality(Below(R, S, x)) # Cardinality(S)
    BY <2>1, FS_Subset
  <2> QED
    BY <1>1, <1>2, <2>2 DEF Place
<1>4. ASSUME NEW x \in S, NEW y \in S, <<x, y>> \in R
      PROVE  Place(R, S, x) < Place(R, S, y)
  <2>1. Below(R, S, x) \subseteq Below(R, S, y)
    BY <1>4 DEF Below, StrictOrder
  <2>2. x \in Below(R, S, y) /\ x \notin Below(R, S, x)
    BY <1>4 DEF Below, StrictOrder
  <2>3. /\ Cardinality(Below(R, S, x)) <= Cardinality(Below(R, S, y))
        /\ Cardinality(Below(R, S, x)) # Cardinality(Below(R, S, y))
    BY <1>1, <2>1, <2>2, FS_Subset
  <2> QED
    BY <1>1, <2>3 DEF Place
<1> QED
    BY <1>3, <1>4

\* There is a listing.
LEMMA ListingExists ==
    ASSUME NEW R, NEW S, IsFiniteSet(S), StrictOrder(R, S)
    PROVE  \E s : IsListing(s, R, S)
<1> DEFINE n == Cardinality(S)
           f == [x \in S |-> Place(R, S, x)]
           s == [i \in 1..n |-> CHOOSE x \in S : f[x] = i]
<1>1. n \in Nat
    BY FS_CardinalityType
<1>2. IsFiniteSet(1..n) /\ Cardinality(1..n) = n
    BY <1>1, FS_Interval
<1>3. \A x, y \in S : x # y => f[x] # f[y]
  <2>1. ASSUME NEW x \in S, NEW y \in S, <<x, y>> \in R
        PROVE  f[x] # f[y]
    BY <2>1, Places, <1>1
  <2> QED
    BY <2>1 DEF StrictOrder
<1>4. f \in Injection(S, 1..n)
    BY <1>3, Places DEF Injection, IsInjective
<1>5. f \in Surjection(S, 1..n)
    BY <1>2, <1>4, FS_Injection
<1>6. \A i \in 1..n : \E x \in S : f[x] = i
    BY <1>5 DEF Surjection
<1>7. \A i \in 1..n : s[i] \in S /\ f[s[i]] = i
    BY <1>6
<1>8. ASSUME NEW i \in 1..n, NEW j \in 1..n, i < j
      PROVE  <<s[i], s[j]>> \in R
  <2>1. s[i] \in S /\ s[j] \in S /\ f[s[i]] = i /\ f[s[j]] = j
    BY <1>7
  <2>2. s[i] # s[j]
    BY <1>8, <2>1
  <2>3. <<s[j], s[i]>> \in R => f[s[j]] < f[s[i]]
    BY <2>1, Places
  <2>4. <<s[j], s[i]>> \notin R
    BY <1>1, <1>8, <2>1, <2>3
  <2> QED
    BY <2>1, <2>2, <2>4 DEF StrictOrder
<1>9. IsListing(s, R, S)
    BY <1>7, <1>8 DEF IsListing
<1> QED
    BY <1>9

\* In a listing each element is at its place.
LEMMA ListedAtPlace ==
    ASSUME NEW R, NEW S, IsFiniteSet(S), StrictOrder(R, S), NEW s, IsListing(s, R, S), NEW x \in S
    PROVE  s[Place(R, S, x)] = x
<1> DEFINE n == Cardinality(S)
<1>1. n \in Nat
    BY FS_CardinalityType
<1>2. IsFiniteSet(1..n) /\ Cardinality(1..n) = n
    BY <1>1, FS_Interval
<1>3. \A i, j \in 1..n : i # j => s[i] # s[j]
  <2>1. ASSUME NEW i \in 1..n, NEW j \in 1..n, i < j
        PROVE  s[i] # s[j]
    BY <2>1 DEF IsListing, StrictOrder
  <2> QED
    BY <2>1, <1>1
<1>4. s \in Injection(1..n, S)
    BY <1>3 DEF IsListing, Injection, IsInjective
<1>5. s \in Surjection(1..n, S)
    BY <1>2, <1>4, FS_Injection
<1>6. PICK i \in 1..n : s[i] = x
    BY <1>5 DEF Surjection
<1> DEFINE g == [j \in 1..(i - 1) |-> s[j]]
<1>7. \A j \in 1..n : <<s[j], x>> \in R <=> j < i
  <2> SUFFICES ASSUME NEW j \in 1..n
               PROVE  <<s[j], x>> \in R <=> j < i
    OBVIOUS
  <2>1. CASE j < i
    BY <2>1, <1>6 DEF IsListing
  <2>2. CASE j = i
    BY <2>2, <1>6 DEF IsListing, StrictOrder
  <2>3. CASE i < j
    <3>1. <<x, s[j]>> \in R /\ s[j] \in S
      BY <2>3, <1>6 DEF IsListing
    <3>2. <<s[j], x>> \notin R
      BY <3>1 DEF StrictOrder
    <3> QED
      BY <3>2, <2>3, <1>1
  <2> QED
    BY <1>1, <2>1, <2>2, <2>3
<1>8. g \in Bijection(1..(i - 1), Below(R, S, x))
  <2>1. \A j \in 1..(i - 1) : j \in 1..n /\ s[j] \in Below(R, S, x)
    BY <1>1, <1>7 DEF Below, IsListing
  <2>2. \A y \in Below(R, S, x) : \E j \in 1..(i - 1) : s[j] = y
    BY <1>1, <1>5, <1>7 DEF Below, Surjection
  <2>3. g \in [1..(i - 1) -> Below(R, S, x)] /\ \A j, k \in 1..(i - 1) : g[j] = g[k] => j = k
    BY <1>3, <2>1
  <2>4. g \in Surjection(1..(i - 1), Below(R, S, x))
    BY <2>1, <2>2 DEF Surjection
  <2> QED
    BY <2>3, <2>4 DEF Bijection, Injection, IsInjective
<1>9. Cardinality(Below(R, S, x)) = Cardinality(1..(i - 1))
  <2>1. ExistsBijection(1..(i - 1), Below(R, S, x))
    BY <1>8 DEF ExistsBijection
  <2>2. IsFiniteSet(1..(i - 1))
    BY <1>1, FS_Interval
  <2> QED
    BY <2>1, <2>2, FS_Bijection
<1>10. Cardinality(1..(i - 1)) = i - 1
    BY <1>1, FS_Interval
<1> QED
    BY <1>1, <1>6, <1>9, <1>10 DEF Place

-----------------------------------------------------------------------------
(* What the SELECT returns.                                                *)

NewerPairs(S) == {p \in S \X S : Newer(p[1], p[2])}

\* The matching rows that come before l.
Rank(S, l) == Cardinality({k \in S : Newer(k, l)})

LEMMA FiniteIds ==
    ASSUME NEW S \in SUBSET Ids
    PROVE  /\ IsFiniteSet(S) /\ Cardinality(S) \in 0..Cardinality(Ids)
           /\ Cardinality(Ids) \in Nat
           /\ \A l : Rank(S, l) \in 0..Cardinality(S)
<1>1. IsFiniteSet(Ids) /\ Cardinality(Ids) \in Nat
    BY SearchConstants, FS_CardinalityType
<1>2. IsFiniteSet(S) /\ Cardinality(S) \in Nat /\ Cardinality(S) <= Cardinality(Ids)
    BY <1>1, FS_Subset, FS_CardinalityType
<1>3. ASSUME NEW l
      PROVE  Rank(S, l) \in 0..Cardinality(S)
  <2> DEFINE B == {k \in S : Newer(k, l)}
  <2>1. B \in SUBSET S
    OBVIOUS
  <2>2. IsFiniteSet(B) /\ Cardinality(B) <= Cardinality(S) /\ Cardinality(B) \in Nat
    BY <1>2, <2>1, FS_Subset, FS_CardinalityType
  <2> QED
    BY <1>2, <2>2 DEF Rank
<1> QED
    BY <1>1, <1>2, <1>3

LEMMA NewerIsStrict ==
    ASSUME NEW S \in SUBSET Ids
    PROVE  StrictOrder(NewerPairs(S), S)
<1>1. \A l \in S : l \in Nat /\ TimeOf[l] \in Nat
    BY SearchConstants
<1> QED
    BY <1>1 DEF StrictOrder, NewerPairs, Newer

\* Ordered(S) lists S, and a log with k newer ones is at position k + 1.
LEMMA OrderedLists ==
    ASSUME NEW S \in SUBSET Ids
    PROVE  /\ Ordered(S) \in [1..Cardinality(S) -> S]
           /\ \A l \in S : /\ Ordered(S)[Rank(S, l) + 1] = l
                         /\ Rank(S, l) + 1 \in 1..Cardinality(S)
<1> DEFINE R == NewerPairs(S)
           Listing(s) == \A i, j \in 1..Cardinality(S) : i < j => Newer(s[i], s[j])
<1>1. IsFiniteSet(S) /\ StrictOrder(R, S)
    BY FiniteIds, NewerIsStrict
<1>2. PICK t : IsListing(t, R, S)
    BY <1>1, ListingExists
<1>3. t \in [1..Cardinality(S) -> S] /\ Listing(t)
    BY <1>2 DEF IsListing, NewerPairs
<1>4. Ordered(S) = CHOOSE s \in [1..Cardinality(S) -> S] : Listing(s)
    BY DEF Ordered, Sorted
<1>5. Ordered(S) \in [1..Cardinality(S) -> S] /\ Listing(Ordered(S))
    BY <1>3, <1>4
<1>6. IsListing(Ordered(S), R, S)
    BY <1>5 DEF IsListing, NewerPairs
<1>7. ASSUME NEW l \in S
      PROVE  Ordered(S)[Rank(S, l) + 1] = l /\ Rank(S, l) + 1 \in 1..Cardinality(S)
  <2>1. Below(R, S, l) = {k \in S : Newer(k, l)}
    BY DEF Below, NewerPairs
  <2>2. Place(R, S, l) = Rank(S, l) + 1
    BY <2>1 DEF Place, Rank
  <2> QED
    BY <1>1, <1>6, <2>2, ListedAtPlace, Places
<1> QED
    BY <1>5, <1>7

\* The page at an offset holds at most limit rows, none if there are no more
\* than offset, and those with offset to offset + limit - 1 newer ones.
LEMMA PageOf ==
    ASSUME NEW S \in SUBSET Ids, NEW offset \in Nat, NEW limit \in Nat \ {0}
    PROVE  LET logs == Slice(Ordered(S), offset, limit) IN
           /\ logs \in Seq(S) /\ Len(logs) <= limit
           /\ logs = <<>> <=> Cardinality(S) <= offset
           /\ \A l \in S : Rank(S, l) \in offset..(offset + limit - 1) => l \in Range(logs)
<1> DEFINE n == Cardinality(S)
           s == Ordered(S)
           last == IF offset + limit < n THEN offset + limit ELSE n
           logs == SubSeq(s, offset + 1, last)
<1>1. n \in Nat /\ \A l : Rank(S, l) \in 0..n
    BY FiniteIds
<1>2. s \in Seq(S) /\ Len(s) = n /\ \A l \in S : s[Rank(S, l) + 1] = l /\ Rank(S, l) + 1 <= n
    BY <1>1, OrderedLists
<1>3. Slice(s, offset, limit) = logs
    BY <1>2 DEF Slice
<1>4. /\ last \in Int /\ logs \in Seq(S)
      /\ Len(logs) = IF offset + 1 <= last THEN last - offset ELSE 0
      /\ \A i \in 1..(last - offset) : logs[i] = s[offset + i]
  <2>1. last \in Int /\ \A i \in (offset + 1)..last : s[i] \in S
    BY <1>1, <1>2
  <2> QED
    BY <2>1, SubSeqProperties
<1>6. Len(logs) <= limit /\ (logs = <<>> <=> n <= offset)
  <2>1. Len(logs) <= limit /\ (Len(logs) = 0 <=> n <= offset)
    BY <1>1, <1>4
  <2>2. \A q \in Seq(S) : q = <<>> <=> Len(q) = 0
    BY EmptySeq
  <2> HIDE DEF logs
  <2> QED
    BY <1>4, <2>1, <2>2
<1>7. ASSUME NEW l \in S, Rank(S, l) \in offset..(offset + limit - 1)
      PROVE  l \in Range(logs)
  <2> DEFINE i == Rank(S, l) + 1 - offset
  <2>1. s[Rank(S, l) + 1] = l /\ Rank(S, l) + 1 <= n
    BY <1>2
  <2>2. i \in 1..(last - offset) /\ offset + i = Rank(S, l) + 1
    BY <1>1, <1>7, <2>1
  <2>3. i \in DOMAIN logs /\ logs[i] = l
    BY <1>4, <2>1, <2>2
  <2> QED
    BY <2>3 DEF Range
<1> QED
    BY <1>3, <1>4, <1>6, <1>7

-----------------------------------------------------------------------------
(* Integers.                                                               *)

\* What fits into an int is not changed.
LEMMA NoWrap ==
    ASSUME NEW n \in 0..IntMax
    PROVE  Wrap(n) = n
<1>1. IntMax \in Nat
    BY SearchConstants
<1>2. n + IntMax + 1 \in 0..(2 * (IntMax + 1) - 1)
    BY <1>1
<1>3. ASSUME NEW m \in Nat \ {0}, NEW k \in 0..(m - 1)
      PROVE  k % m = k
    BY <1>3
<1>4. (n + IntMax + 1) % (2 * (IntMax + 1)) = n + IntMax + 1
    BY <1>1, <1>2, <1>3
<1> QED
    BY <1>1, <1>4 DEF Wrap

LEMMA WrapInt ==
    ASSUME NEW n \in Int
    PROVE  Wrap(n) \in Int
<1>1. IntMax \in Nat
    BY SearchConstants
<1> QED
    BY <1>1 DEF Wrap

LEMMA QuoInt ==
    ASSUME NEW m \in Int, NEW n \in Nat \ {0}
    PROVE  Quo(m, n) \in Int
BY DEF Quo

\* The products of page numbers and limits.
LEMMA Products ==
    ASSUME NEW page \in Nat \ {0}, NEW limit \in Nat \ {0}
    PROVE  /\ (page - 1) * limit \in Nat /\ page * limit \in Nat
           /\ page * limit = (page - 1) * limit + limit
           /\ ((page + 1) - 1) * limit = page * limit
<1>1. PICK p \in Nat : page = p + 1
  <2>1. page - 1 \in Nat /\ page = (page - 1) + 1
    OBVIOUS
  <2> QED
    BY <2>1
<1>2. (p + 1) * limit = p * limit + limit /\ p * limit \in Nat
    OBVIOUS
<1>3. page - 1 = p /\ (page + 1) - 1 = page
    BY <1>1
<1> QED
    BY <1>1, <1>2, <1>3

\* A page is among the total_pages iff there are rows before its end.
LEMMA PagesCover ==
    ASSUME NEW page \in Nat \ {0}, NEW limit \in Nat \ {0}, NEW total \in Nat,
           total + limit - 1 <= IntMax
    PROVE  page <= TotalPages(total, limit) <=> (page - 1) * limit < total
<1> DEFINE m == total + limit - 1
           q == m \div limit
<1>1. m \in 0..IntMax /\ IntMax \in Nat
    BY SearchConstants
<1>2. Wrap(m) = m
    BY <1>1, NoWrap
<1>3. CASE total = 0
  <2>1. TotalPages(total, limit) = 0
    BY <1>3 DEF TotalPages
  <2>2. (page - 1) * limit \in Nat
    BY Products
  <2> QED
    BY <1>3, <2>1, <2>2
<1>4. CASE total > 0
  <2>1. TotalPages(total, limit) = q
    BY <1>1, <1>2, <1>4 DEF TotalPages, Quo
  <2>2. /\ q \in Nat /\ q * limit \in Nat
        /\ q * limit <= m /\ m < q * limit + limit
    BY <1>1
  <2>3. (page - 1) * limit \in Nat /\ page * limit = (page - 1) * limit + limit
    BY Products
  <2>4. ASSUME page <= q
        PROVE  page * limit <= q * limit
    <3>1. PICK d \in Nat : q = page + d
      <4>1. q - page \in Nat /\ q = page + (q - page)
        BY <2>2, <2>4
      <4> QED
        BY <4>1
    <3>2. (page + d) * limit = page * limit + d * limit /\ d * limit \in Nat /\ page * limit \in Nat
      OBVIOUS
    <3> QED
      BY <3>1, <3>2
  <2>5. ASSUME q <= page - 1
        PROVE  q * limit <= (page - 1) * limit
    <3>1. PICK d \in Nat : page - 1 = q + d
      <4>1. page - 1 - q \in Nat /\ page - 1 = q + (page - 1 - q)
        BY <2>2, <2>5
      <4> QED
        BY <4>1
    <3>2. (q + d) * limit = q * limit + d * limit /\ d * limit \in Nat
      BY <2>2
    <3> QED
      BY <2>2, <3>1, <3>2
  <2> HIDE DEF q
  <2> QED
    BY <1>1, <2>1, <2>2, <2>3, <2>4, <2>5
<1> QED
    BY <1>3, <1>4

-----------------------------------------------------------------------------
(* The inductive invariant, of a table T, and of the query q, the pages w,   *)
(* the quiet flag b and the AI request h of one client.                    *)

\* The rows in front of the page that is asked for, and up to the end of the
\* page that was answered.
Skipped(q) == (q.page - 1) * q.limit
ReadSoFar(q) == IF q.pc = "page" THEN q.page * q.limit ELSE Skipped(q)

\* A client that reads on: what it has not seen yet comes behind what it has
\* read, and it is not so far that the offset could overflow.
Reading(T, q, w) ==
    /\ Skipped(q) < Cardinality(Ids) + q.limit
    /\ q.pc = "page" => Skipped(q) < Cardinality(Ids)
    /\ \A l \in w.steady \ w.seen : ReadSoFar(q) <= Rank(T \cap q.rows, l)

WalkOK(T, q, w) ==
    /\ w.over => w.on /\ w.steady \subseteq w.seen
    /\ w.on => /\ q.pc \in {"count", "select", "page"} /\ (w.over => q.pc = "page")
               /\ q.limit <= MaxSearchLimit
               /\ w.steady \subseteq q.rows
               /\ w.over \/ Reading(T, q, w)

\* As long as the table is what COUNT saw, total is the number of matching rows,
\* and what was answered agrees with it.
CountOK(T, q, b) ==
    b => /\ q.pc = "select" => q.total = Cardinality(T \cap q.rows)
         /\ q.pc = "page" /\ InRange(q) => (q.logs # <<>> <=> q.page <= q.pages)

\* While a model is asked nothing is searched; nothing was set yet, unless the
\* primary's object had a field of the wrong type.
ChatOK(q, w, h) ==
    /\ h.pc # "decode" => h.text = <<>>
    /\ h.pc \in {"ask", "decode", "search"} => q.pc = "idle" /\ ~w.on
    /\ h.pc \in {"ask", "decode"} =>
          (\A f \in Fields : h.from[f] = "none") \/ (h.provider = "openrouter" /\ h.mixed)
    /\ h.pc \in {"search", "done"} =>
          \A f \in Fields : h.from[f] \in {"none", h.provider} \/ h.mixed

\* The types of one client's state.
ClientTypes(T, q, w, b, h) ==
    /\ q \in Query /\ w \in Walk /\ b \in BOOLEAN /\ h \in Chat
    /\ Range(q.logs) \subseteq q.rows /\ Len(q.logs) <= q.limit
    /\ w.steady \subseteq T

ClientOK(T, q, w, b, h) ==
    /\ ClientTypes(T, q, w, b, h)
    /\ WalkOK(T, q, w) /\ CountOK(T, q, b) /\ ChatOK(q, w, h)

Shape ==
    /\ table \in SUBSET Ids
    /\ query \in [Clients -> Query] /\ walk \in [Clients -> Walk]
    /\ quiet \in [Clients -> BOOLEAN] /\ chat \in [Clients -> Chat]

AssistantInv ==
    Shape /\ \A c \in Clients : ClientOK(table, query[c], walk[c], quiet[c], chat[c])

\* The invariant is about what the runs check.
LEMMA InvImplies ==
    AssistantInv => TypeOK /\ NoRowSkipped /\ PageAgreesWithTotal /\ NamedProviderAnswers
<1> SUFFICES ASSUME AssistantInv
             PROVE  TypeOK /\ NoRowSkipped /\ PageAgreesWithTotal /\ NamedProviderAnswers
    OBVIOUS
<1>1. TypeOK
    BY DEF AssistantInv, Shape, ClientOK, ClientTypes, ChatOK, TypeOK, SearchTypeOK
<1>2. NoRowSkipped
    BY DEF AssistantInv, ClientOK, WalkOK, NoRowSkipped
<1>3. PageAgreesWithTotal
    BY DEF AssistantInv, ClientOK, CountOK, PageAgreesWithTotal
<1>4. NamedProviderAnswers
    BY DEF AssistantInv, ClientOK, ChatOK, NamedProviderAnswers
<1> QED
    BY <1>1, <1>2, <1>3, <1>4

\* A step of one client.
LEMMA OneClient ==
    ASSUME AssistantInv, NEW c \in Clients, NEW q, NEW w, NEW b, NEW h,
           ClientOK(table, q, w, b, h), table' = table,
           query' = [query EXCEPT ![c] = q], walk' = [walk EXCEPT ![c] = w],
           quiet' = [quiet EXCEPT ![c] = b], chat' = [chat EXCEPT ![c] = h]
    PROVE  AssistantInv'
<1>1. q \in Query /\ w \in Walk /\ b \in BOOLEAN /\ h \in Chat
    BY DEF ClientOK, ClientTypes
<1>2. Shape'
    BY <1>1 DEF AssistantInv, Shape
<1>3. ASSUME NEW d \in Clients
      PROVE  ClientOK(table', query'[d], walk'[d], quiet'[d], chat'[d])
    BY DEF AssistantInv, Shape
<1> QED
    BY <1>2, <1>3 DEF AssistantInv

\* What is left alone, written as an update.
LEMMA SameQuery == ASSUME Shape, NEW c \in Clients PROVE query = [query EXCEPT ![c] = query[c]]
BY DEF Shape
LEMMA SameWalk == ASSUME Shape, NEW c \in Clients PROVE walk = [walk EXCEPT ![c] = walk[c]]
BY DEF Shape
LEMMA SameQuiet == ASSUME Shape, NEW c \in Clients PROVE quiet = [quiet EXCEPT ![c] = quiet[c]]
BY DEF Shape
LEMMA SameChat == ASSUME Shape, NEW c \in Clients PROVE chat = [chat EXCEPT ![c] = chat[c]]
BY DEF Shape

\* The initial records, and a query that has failed.
LEMMA Fresh ==
    /\ NoQuery \in Query /\ NoWalk \in Walk /\ NoChat \in Chat
    /\ Range(NoQuery.logs) = {} /\ Len(NoQuery.logs) = 0
    /\ [NoQuery EXCEPT !.pc = "failed"] \in Query
<1>1. 1 \in 1..IntMax /\ 0 \in 0..Cardinality(Ids)
    BY SearchConstants, FiniteIds
<1>2. <<>> \in Texts
  <2>1. 0 \in 0..MaxText
    BY TextBound
  <2>2. <<>> \in [1..0 -> Openers \cup Closers \cup {"x"}]
    OBVIOUS
  <2> QED
    BY <2>1, <2>2 DEF Texts
<1>3. NoQuery \in Query /\ [NoQuery EXCEPT !.pc = "failed"] \in Query
  <2>1. <<>> \in Seq(Ids)
    OBVIOUS
  <2>2. NoQuery \in Query
    BY <1>1, <2>1 DEF NoQuery, Query
  <2> QED
    BY <2>2 DEF Query
<1>4. NoWalk \in Walk
    BY DEF NoWalk, Walk
<1>5. NoChat \in Chat
    BY <1>2 DEF NoChat, Chat, Calls, Providers
<1>6. NoQuery.logs = <<>>
    BY DEF NoQuery
<1>7. Range(<<>>) = {} /\ Len(<<>>) = 0
    BY DEF Range
<1> QED
    BY <1>3, <1>4, <1>5, <1>6, <1>7

LEMMA AssistantInvInit == AssistantInit => AssistantInv
<1> SUFFICES ASSUME AssistantInit
             PROVE  AssistantInv
    OBVIOUS
<1>1. Shape
    BY Fresh DEF Shape, AssistantInit, SearchInit
<1>2. ClientOK({}, NoQuery, NoWalk, FALSE, NoChat)
    BY Fresh DEF ClientOK, ClientTypes, WalkOK, CountOK, ChatOK, NoQuery, NoWalk, NoChat
<1> QED
    BY <1>1, <1>2 DEF AssistantInv, AssistantInit, SearchInit

-----------------------------------------------------------------------------
(* The table changes under the clients' queries.                           *)

\* A new log only moves others to later positions.
LEMMA RankGrows ==
    ASSUME NEW S \in SUBSET Ids, NEW T \in SUBSET Ids, S \subseteq T, NEW l
    PROVE  Rank(S, l) <= Rank(T, l)
<1> DEFINE A == {k \in S : Newer(k, l)}
           B == {k \in T : Newer(k, l)}
<1>1. A \in SUBSET B /\ B \in SUBSET Ids
    OBVIOUS
<1>2. IsFiniteSet(B)
    BY <1>1, FiniteIds
<1> QED
    BY <1>1, <1>2, FS_Subset DEF Rank

LEMMA InsertStep ==
    ASSUME AssistantInv, NEW l \in Ids, Insert(l), UNCHANGED chat
    PROVE  AssistantInv'
<1>1. /\ table' = table \cup {l} /\ query' = query /\ walk' = walk
      /\ quiet' = [c \in Clients |-> FALSE] /\ chat' = chat /\ Shape
    BY DEF Insert, AssistantInv
<1>2. Shape'
    BY <1>1 DEF Shape
<1>3. ASSUME NEW c \in Clients
      PROVE  ClientOK(table', query[c], walk[c], FALSE, chat[c])
  <2> DEFINE q == query[c]
             w == walk[c]
  <2>1. ClientOK(table, q, w, quiet[c], chat[c])
    BY DEF AssistantInv
  <2>2. ClientTypes(table', q, w, FALSE, chat[c])
    BY <1>1, <2>1 DEF ClientOK, ClientTypes
  <2>3. ASSUME Reading(table, q, w)
        PROVE  Reading(table', q, w)
    <3>1. q.rows \in SUBSET Ids /\ q.page \in Nat \ {0} /\ q.limit \in Nat \ {0}
      BY <2>1, SearchConstants DEF ClientOK, ClientTypes, Query
    <3>2. ReadSoFar(q) \in Nat
      BY <3>1, Products DEF ReadSoFar, Skipped
    <3>3. ASSUME NEW k
          PROVE  /\ Rank(table \cap q.rows, k) <= Rank(table' \cap q.rows, k)
                 /\ Rank(table \cap q.rows, k) \in Nat /\ Rank(table' \cap q.rows, k) \in Nat
      <4>1. /\ table \cap q.rows \in SUBSET Ids /\ table' \cap q.rows \in SUBSET Ids
            /\ table \cap q.rows \subseteq table' \cap q.rows
        BY <1>1, <3>1 DEF Shape
      <4>2. Cardinality(table \cap q.rows) \in Nat /\ Cardinality(table' \cap q.rows) \in Nat
        BY <4>1, FiniteIds
      <4> QED
        BY <4>1, <4>2, RankGrows, FiniteIds
    <3>4. ASSUME NEW k \in w.steady \ w.seen
          PROVE  ReadSoFar(q) <= Rank(table' \cap q.rows, k)
      <4>1. ReadSoFar(q) <= Rank(table \cap q.rows, k)
        BY <2>3 DEF Reading
      <4> QED
        BY <4>1, <3>2, <3>3
    <3> QED
      BY <2>3, <3>4 DEF Reading
  <2>4. WalkOK(table', q, w)
    BY <2>1, <2>3 DEF ClientOK, WalkOK
  <2>5. CountOK(table', q, FALSE)
    BY DEF CountOK
  <2> QED
    BY <2>1, <2>2, <2>4, <2>5 DEF ClientOK
<1> QED
    BY <1>1, <1>2, <1>3 DEF AssistantInv

LEMMA DeleteStep ==
    ASSUME AssistantInv, NEW cutoff \in Int, DeleteOlderThan(cutoff), UNCHANGED chat
    PROVE  AssistantInv'
<1> DEFINE gone == {l \in table : TimeOf[l] < cutoff}
           left(c) == [walk[c] EXCEPT !.steady = @ \ gone]
<1>1. /\ table' = table \ gone /\ query' = query
      /\ walk' = [c \in Clients |-> left(c)]
      /\ quiet' = [c \in Clients |-> FALSE] /\ chat' = chat /\ Shape
    BY DEF DeleteOlderThan, AssistantInv
<1>2. \A c \in Clients : /\ left(c) \in Walk /\ left(c).steady = walk[c].steady \ gone
                         /\ left(c).on = walk[c].on /\ left(c).seen = walk[c].seen
                         /\ left(c).over = walk[c].over
    BY <1>1 DEF Shape, Walk
<1>3. Shape'
    BY <1>1, <1>2 DEF Shape
<1>4. ASSUME NEW c \in Clients
      PROVE  ClientOK(table', query[c], left(c), FALSE, chat[c])
  <2> DEFINE q == query[c]
             w == walk[c]
             v == left(c)
  <2>1. ClientOK(table, q, w, quiet[c], chat[c])
    BY DEF AssistantInv
  <2>2. /\ v \in Walk /\ v.steady = w.steady \ gone /\ v.on = w.on /\ v.seen = w.seen
        /\ v.over = w.over /\ w.steady \subseteq table
    BY <1>2, <2>1 DEF ClientOK, ClientTypes
  <2> HIDE DEF v
  <2>3. ClientTypes(table', q, v, FALSE, chat[c])
    BY <1>1, <2>1, <2>2 DEF ClientOK, ClientTypes
  <2>4. ASSUME Reading(table, q, w)
        PROVE  Reading(table', q, v)
    <3>1. ASSUME NEW l \in v.steady \ v.seen
          PROVE  l \in w.steady \ w.seen /\ Rank(table' \cap q.rows, l) = Rank(table \cap q.rows, l)
      <4>1. l \in table /\ l \notin gone /\ l \in w.steady \ w.seen
        BY <2>2
      <4>2. TimeOf[l] >= cutoff /\ table \in SUBSET Ids
        BY <1>1, <4>1, SearchConstants DEF Shape
      <4>3. Rank((table \ gone) \cap q.rows, l) = Rank(table \cap q.rows, l)
        <5>1. ASSUME NEW k \in table, Newer(k, l)
              PROVE  k \notin gone
          BY <4>1, <4>2, <5>1, SearchConstants DEF Newer
        <5>2. {k \in (table \ gone) \cap q.rows : Newer(k, l)} = {k \in table \cap q.rows : Newer(k, l)}
          BY <5>1
        <5> QED
          BY <5>2 DEF Rank
      <4>4. table' \cap q.rows = (table \ gone) \cap q.rows
        BY <1>1
      <4> QED
        BY <4>1, <4>3, <4>4
    <3> QED
      BY <2>4, <3>1 DEF Reading
  <2>5. WalkOK(table', q, v)
    BY <2>1, <2>2, <2>4 DEF ClientOK, WalkOK
  <2>6. CountOK(table', q, FALSE)
    BY DEF CountOK
  <2>7. ChatOK(q, v, chat[c])
    BY <2>1, <2>2 DEF ClientOK, ChatOK
  <2> QED
    BY <2>3, <2>5, <2>6, <2>7 DEF ClientOK, v
<1>5. \A c \in Clients : walk'[c] = left(c) /\ quiet'[c] = FALSE
    BY <1>1
<1> QED
    BY <1>1, <1>3, <1>4, <1>5 DEF AssistantInv

-----------------------------------------------------------------------------
(* Steps of one client, by what they make of its state.                    *)

\* A query as StartQuery leaves it.
Started(rows, page, limit) ==
    [NoQuery EXCEPT !.pc = "count", !.rows = rows, !.page = page, !.limit = limit]

LEMMA StartedOK ==
    ASSUME NEW rows \in SUBSET Ids, NEW page \in 1..IntMax, NEW limit \in 1..IntMax
    PROVE  Started(rows, page, limit) \in Query
BY Fresh DEF Query, Started

LEMMA NoLogs == Range(<<>>) = {} /\ Len(<<>>) = 0
BY DEF Range

\* Walks without reading on.
LEMMA NotReading ==
    ASSUME NEW T, NEW q, NEW w, ~w.on, ~w.over
    PROVE  WalkOK(T, q, w)
BY DEF WalkOK

\* A query that has failed.
Failed == [NoQuery EXCEPT !.pc = "failed"]

LEMMA FailedOK ==
    ASSUME NEW T, NEW b \in BOOLEAN, NEW h \in Chat, ChatOK(Failed, NoWalk, h)
    PROVE  ClientOK(T, Failed, NoWalk, b, h)
<1>1. /\ Failed \in Query /\ Failed.pc = "failed" /\ Range(Failed.logs) = {} /\ Len(Failed.logs) = 0
      /\ Failed.limit = 1
    BY Fresh DEF Failed, NoQuery
<1>2. NoWalk \in Walk /\ ~NoWalk.on /\ ~NoWalk.over /\ NoWalk.steady = {}
    BY Fresh DEF NoWalk
<1>3. ClientTypes(T, Failed, NoWalk, b, h)
    BY <1>1, <1>2 DEF ClientTypes
<1> QED
    BY <1>1, <1>2, <1>3 DEF ClientOK, WalkOK, CountOK

LEMMA SearchLogsStep ==
    ASSUME AssistantInv, NEW c \in Clients, NEW rows \in Filters, NEW page \in Numbers,
           NEW limit \in Numbers, SearchLogs(c, rows, page, limit),
           chat' = [chat EXCEPT ![c] = NoChat]
    PROVE  AssistantInv'
<1>1. Shape /\ table' = table /\ quiet' = quiet
    BY DEF AssistantInv, SearchLogs
<1>2. quiet' = [quiet EXCEPT ![c] = quiet[c]] /\ quiet[c] \in BOOLEAN
    BY <1>1, SameQuiet DEF Shape
<1>3. CASE /\ Acceptable(page, limit)
           /\ StartQuery(c, rows, Given(page, 1), Given(limit, DefaultSearchLimit))
           /\ walk' = [walk EXCEPT ![c] = [NoWalk EXCEPT !.on = Given(page, 1) = 1,
                                                         !.steady = table \cap rows]]
  <2> DEFINE p == Given(page, 1)
             n == Given(limit, DefaultSearchLimit)
             q == Started(rows, p, n)
             w == [NoWalk EXCEPT !.on = p = 1, !.steady = table \cap rows]
  <2>1. p \in 1..IntMax /\ n \in 1..IntMax /\ n <= MaxSearchLimit /\ n \in Nat \ {0}
    <3>1. /\ IntMax \in Nat /\ page \in (-IntMax)..IntMax /\ limit \in (-IntMax)..IntMax
          /\ Cardinality(Ids) \in Nat /\ MaxSearchLimit \in 1..(IntMax - Cardinality(Ids))
          /\ DefaultSearchLimit \in 1..MaxSearchLimit
      BY SearchConstants, FiniteIds
    <3> QED
      BY <1>3, <3>1 DEF Acceptable, Given
  <2>2. rows \in SUBSET Ids
    BY SearchConstants
  <2>3. /\ q \in Query /\ q.pc = "count" /\ q.rows = rows /\ q.page = p /\ q.limit = n
        /\ q.logs = <<>> /\ Range(q.logs) = {} /\ Len(q.logs) = 0
    <3>1. q = Started(rows, p, n)
      OBVIOUS
    <3> HIDE DEF p, n, q
    <3>2. q \in Query
      BY <2>1, <2>2, <3>1, StartedOK
    <3>3. q.pc = "count" /\ q.rows = rows /\ q.page = p /\ q.limit = n /\ q.logs = <<>>
      BY <3>1 DEF Started, NoQuery
    <3> QED
      BY <3>2, <3>3, NoLogs
  <2>4. /\ w \in Walk /\ (w.on => p = 1) /\ w.steady = table \cap rows /\ w.seen = {} /\ ~w.over
    <3>1. (p = 1) \in BOOLEAN /\ table \cap rows \in SUBSET Ids
      BY <1>1 DEF Shape
    <3> QED
      BY <3>1 DEF Walk, NoWalk
  <2>5. query' = [query EXCEPT ![c] = q] /\ walk' = [walk EXCEPT ![c] = w]
    BY <1>3 DEF StartQuery, Started
  <2> HIDE DEF p, n, q, w
  <2>6. ClientTypes(table, q, w, quiet[c], NoChat)
    BY <1>2, <2>1, <2>3, <2>4, Fresh DEF ClientTypes
  <2>7. WalkOK(table, q, w)
    <3>1. ASSUME w.on
          PROVE  Reading(table, q, w)
      <4>1. Skipped(q) = 0 /\ ReadSoFar(q) = 0
        <5>1. q.page - 1 = 0 /\ q.limit \in Nat
          BY <2>1, <2>3, <2>4, <3>1
        <5> QED
          BY <5>1, <2>3 DEF Skipped, ReadSoFar
      <4>2. ASSUME NEW l
            PROVE  0 <= Rank(table \cap q.rows, l)
        <5>1. table \cap q.rows \in SUBSET Ids
          BY <1>1 DEF Shape
        <5>2. Rank(table \cap q.rows, l) \in 0..Cardinality(table \cap q.rows) /\ Cardinality(table \cap q.rows) \in 0..Cardinality(Ids)
          BY <5>1, FiniteIds
        <5> QED
          BY <5>2
      <4>3. Cardinality(Ids) \in Nat
        BY FiniteIds
      <4>4. Skipped(q) < Cardinality(Ids) + q.limit
        BY <2>1, <2>3, <4>1, <4>3
      <4>5. \A l \in w.steady \ w.seen : ReadSoFar(q) <= Rank(table \cap q.rows, l)
        BY <4>1, <4>2
      <4> QED
        BY <2>3, <4>4, <4>5 DEF Reading
    <3> QED
      BY <2>1, <2>3, <2>4, <3>1 DEF WalkOK
  <2>8. CountOK(table, q, quiet[c])
    BY <2>3 DEF CountOK
  <2>9. ChatOK(q, w, NoChat)
    BY DEF ChatOK, NoChat
  <2>10. ClientOK(table, q, w, quiet[c], NoChat)
    BY <2>6, <2>7, <2>8, <2>9 DEF ClientOK
  <2> QED
    BY <1>1, <1>2, <2>5, <2>10, OneClient
<1>4. CASE /\ query' = [query EXCEPT ![c] = [NoQuery EXCEPT !.pc = "failed"]]
           /\ walk' = [walk EXCEPT ![c] = NoWalk]
  <2>1. ChatOK(Failed, NoWalk, NoChat)
    BY DEF ChatOK, NoChat
  <2>2. ClientOK(table, Failed, NoWalk, quiet[c], NoChat)
    BY <1>2, <2>1, FailedOK, Fresh
  <2> QED
    BY <1>1, <1>2, <1>4, <2>2, OneClient DEF Failed
<1> QED
    BY <1>3, <1>4 DEF SearchLogs

LEMMA NextPageStep ==
    ASSUME AssistantInv, NEW c \in Clients, NextPage(c), UNCHANGED chat
    PROVE  AssistantInv'
<1> DEFINE o == query[c]
           q == Started(o.rows, o.page + 1, o.limit)
           w == walk[c]
<1>1. /\ Shape /\ table' = table /\ quiet' = quiet /\ walk' = walk /\ chat' = chat
      /\ ClientOK(table, o, w, quiet[c], chat[c])
    BY DEF AssistantInv, NextPage
<1>2. /\ quiet' = [quiet EXCEPT ![c] = quiet[c]] /\ walk' = [walk EXCEPT ![c] = w]
      /\ chat' = [chat EXCEPT ![c] = chat[c]] /\ query' = [query EXCEPT ![c] = q]
    BY <1>1, SameQuiet, SameWalk, SameChat DEF NextPage, StartQuery, Started
<1>3. o.pc = "page" /\ w.on /\ ~w.over /\ o.page + 1 \in 1..IntMax
    BY <1>1, SearchConstants DEF NextPage, ClientOK, ClientTypes, Query
<1>4. o.rows \in SUBSET Ids /\ o.limit \in 1..IntMax /\ o.page \in Nat \ {0} /\ o.limit \in Nat \ {0}
    BY <1>1, SearchConstants DEF ClientOK, ClientTypes, Query
<1>5. /\ q \in Query /\ q.pc = "count" /\ q.rows = o.rows /\ q.page = o.page + 1
      /\ q.limit = o.limit /\ q.logs = <<>> /\ Range(q.logs) = {} /\ Len(q.logs) = 0
  <2>1. q = Started(o.rows, o.page + 1, o.limit)
    OBVIOUS
  <2> HIDE DEF q, o
  <2>2. q \in Query
    BY <1>3, <1>4, <2>1, StartedOK
  <2>3. q.pc = "count" /\ q.rows = o.rows /\ q.page = o.page + 1 /\ q.limit = o.limit /\ q.logs = <<>>
    BY <2>1 DEF Started, NoQuery
  <2> QED
    BY <2>2, <2>3, NoLogs
<1> HIDE DEF q, w, o
<1>6. ClientTypes(table, q, w, quiet[c], chat[c])
    BY <1>1, <1>4, <1>5 DEF ClientOK, ClientTypes
<1>7. Reading(table, q, w)
  <2>1. Reading(table, o, w)
    BY <1>1, <1>3 DEF ClientOK, WalkOK
  <2>2. /\ o.page * o.limit = (o.page - 1) * o.limit + o.limit
        /\ (o.page - 1) * o.limit \in Nat
        /\ ((o.page + 1) - 1) * o.limit = o.page * o.limit
    BY <1>4, Products
  <2>3. /\ Skipped(q) = o.page * o.limit /\ ReadSoFar(q) = Skipped(q)
        /\ ReadSoFar(o) = o.page * o.limit /\ Skipped(o) = (o.page - 1) * o.limit
    BY <1>3, <1>5, <2>2 DEF Skipped, ReadSoFar
  <2>4. Skipped(o) < Cardinality(Ids) /\ Cardinality(Ids) \in Nat
    BY <1>3, <2>1, FiniteIds DEF Reading
  <2>5. Skipped(q) < Cardinality(Ids) + q.limit
    BY <1>4, <1>5, <2>2, <2>3, <2>4
  <2>6. \A l \in w.steady \ w.seen : ReadSoFar(q) <= Rank(table \cap q.rows, l)
    BY <1>5, <2>1, <2>3 DEF Reading
  <2> QED
    BY <1>5, <2>5, <2>6 DEF Reading
<1>8. WalkOK(table, q, w)
    BY <1>1, <1>3, <1>5, <1>7 DEF ClientOK, WalkOK
<1>9. CountOK(table, q, quiet[c])
    BY <1>5 DEF CountOK
<1>10. ChatOK(q, w, chat[c])
    BY <1>1, <1>3, <1>5 DEF ClientOK, ChatOK
<1>11. ClientOK(table, q, w, quiet[c], chat[c])
    BY <1>6, <1>8, <1>9, <1>10 DEF ClientOK
<1>12. table' = table
    BY <1>1
<1> QED
    BY <1>2, <1>11, <1>12, OneClient

LEMMA QueryFailsStep ==
    ASSUME AssistantInv, NEW c \in Clients, QueryFails(c), UNCHANGED chat
    PROVE  AssistantInv'
<1>1. /\ Shape /\ table' = table /\ quiet' = quiet /\ chat' = chat
      /\ ClientOK(table, query[c], walk[c], quiet[c], chat[c])
    BY DEF AssistantInv, QueryFails
<1>2. /\ quiet' = [quiet EXCEPT ![c] = quiet[c]] /\ chat' = [chat EXCEPT ![c] = chat[c]]
      /\ query' = [query EXCEPT ![c] = Failed] /\ walk' = [walk EXCEPT ![c] = NoWalk]
    BY <1>1, SameQuiet, SameChat DEF QueryFails, Fail, Failed
<1>3. ChatOK(Failed, NoWalk, chat[c])
  <2>1. query[c].pc # "idle"
    BY DEF QueryFails, Busy
  <2> QED
    BY <1>1, <2>1 DEF ClientOK, ChatOK
<1>4. ClientOK(table, Failed, NoWalk, quiet[c], chat[c])
    BY <1>1, <1>3, FailedOK DEF Shape
<1>5. table' = table
    BY <1>1
<1> QED
    BY <1>2, <1>4, <1>5, OneClient

LEMMA CountStep ==
    ASSUME AssistantInv, NEW c \in Clients, Count(c), UNCHANGED chat
    PROVE  AssistantInv'
<1> DEFINE o == query[c]
           q == [o EXCEPT !.pc = "select", !.total = Cardinality(table \cap o.rows)]
           w == walk[c]
<1>1. /\ Shape /\ table' = table /\ walk' = walk /\ chat' = chat
      /\ ClientOK(table, o, w, quiet[c], chat[c]) /\ o.pc = "count"
    BY DEF AssistantInv, Count
<1>2. /\ quiet' = [quiet EXCEPT ![c] = TRUE] /\ walk' = [walk EXCEPT ![c] = w]
      /\ chat' = [chat EXCEPT ![c] = chat[c]] /\ query' = [query EXCEPT ![c] = q]
    BY <1>1, SameWalk, SameChat DEF Count, Shape
<1>3. Cardinality(table \cap o.rows) \in 0..Cardinality(Ids)
  <2>1. table \cap o.rows \in SUBSET Ids
    BY <1>1 DEF Shape
  <2> QED
    BY <2>1, FiniteIds
<1>4. /\ q \in Query /\ q.pc = "select" /\ q.rows = o.rows /\ q.page = o.page
      /\ q.limit = o.limit /\ q.logs = o.logs /\ q.total = Cardinality(table \cap q.rows)
    BY <1>1, <1>3 DEF ClientOK, ClientTypes, Query
<1> HIDE DEF q, w, o
<1>5. ClientTypes(table, q, w, TRUE, chat[c])
    BY <1>1, <1>4 DEF ClientOK, ClientTypes
<1>6. WalkOK(table, q, w)
  <2>1. Skipped(q) = Skipped(o) /\ ReadSoFar(q) = ReadSoFar(o)
    BY <1>1, <1>4 DEF Skipped, ReadSoFar
  <2>2. Reading(table, o, w) => Reading(table, q, w)
    BY <1>4, <2>1 DEF Reading
  <2> QED
    BY <1>1, <1>4, <2>2 DEF ClientOK, WalkOK
<1>7. CountOK(table, q, TRUE)
    BY <1>4 DEF CountOK
<1>8. ChatOK(q, w, chat[c])
    BY <1>1, <1>4 DEF ClientOK, ChatOK
<1>9. ClientOK(table, q, w, TRUE, chat[c])
    BY <1>5, <1>6, <1>7, <1>8 DEF ClientOK
<1> QED
    BY <1>1, <1>2, <1>9, OneClient

\* SELECT on behalf of a client that reads on: the offset has not wrapped, so
\* the page continues where the last one ended.
ReadsOn(T, q, w, logs) ==
    /\ logs = <<>> => w.steady \subseteq w.seen
    /\ logs # <<>> => Skipped(q) < Cardinality(Ids)
    /\ logs # <<>> => \A l \in w.steady \ (w.seen \cup Range(logs)) :
                         q.page * q.limit <= Rank(T \cap q.rows, l)

LEMMA SelectReads ==
    ASSUME NEW T \in SUBSET Ids, NEW q \in Query, NEW w \in Walk, w.steady \subseteq T,
           q.pc = "select", w.on, WalkOK(T, q, w),
           NEW logs, logs = Slice(Ordered(T \cap q.rows), Offset(q.page, q.limit), q.limit)
    PROVE  ReadsOn(T, q, w, logs)
<1> DEFINE S == T \cap q.rows
           k == Skipped(q)
<1>1. q.page \in Nat \ {0} /\ q.limit \in Nat \ {0} /\ q.rows \in SUBSET Ids
    BY SearchConstants DEF Query
<1>2. Reading(T, q, w) /\ w.steady \subseteq S /\ q.limit <= MaxSearchLimit
    BY DEF WalkOK
<1>3. k \in Nat /\ q.page * q.limit = k + q.limit
    BY <1>1, Products DEF Skipped
<1>4. k <= IntMax
  <2>1. /\ Cardinality(Ids) \in Nat /\ IntMax \in Nat
        /\ MaxSearchLimit \in Int /\ MaxSearchLimit <= IntMax - Cardinality(Ids)
    BY SearchConstants, FiniteIds
  <2>2. k < Cardinality(Ids) + q.limit
    BY <1>2 DEF Reading
  <2> HIDE DEF k
  <2> QED
    BY <1>1, <1>2, <1>3, <2>1, <2>2
<1>5. Offset(q.page, q.limit) = k
  <2>1. k \in 0..IntMax
    BY <1>3, <1>4, SearchConstants
  <2> QED
    BY <2>1, NoWrap DEF Offset, Skipped
<1>6. S \in SUBSET Ids /\ Cardinality(S) \in 0..Cardinality(Ids) /\ Cardinality(Ids) \in Nat
    BY <1>1, FiniteIds
<1>7. \A l \in w.steady \ w.seen : l \in S /\ k <= Rank(S, l)
  <2>1. ReadSoFar(q) = k
    BY DEF ReadSoFar
  <2> QED
    BY <1>2, <2>1 DEF Reading
<1>8. \A l \in S : Rank(S, l) \in Nat /\ Rank(S, l) + 1 <= Cardinality(S)
  <2> SUFFICES ASSUME NEW l \in S
               PROVE  Rank(S, l) \in Nat /\ Rank(S, l) + 1 <= Cardinality(S)
    OBVIOUS
  <2> HIDE DEF S
  <2>1. Rank(S, l) + 1 \in 1..Cardinality(S) /\ Rank(S, l) \in 0..Cardinality(S)
    BY <1>6, OrderedLists, FiniteIds
  <2> QED
    BY <1>6, <2>1
<1> HIDE DEF S, k
<1>9. logs = Slice(Ordered(S), k, q.limit)
    BY <1>5 DEF S
<1>10. /\ logs = <<>> <=> Cardinality(S) <= k
       /\ \A l \in S : Rank(S, l) \in k..(k + q.limit - 1) => l \in Range(logs)
    BY <1>1, <1>3, <1>6, <1>9, PageOf
<1>11. ASSUME logs = <<>>
       PROVE  w.steady \subseteq w.seen
    BY <1>3, <1>6, <1>7, <1>8, <1>10, <1>11
<1>12. ASSUME logs # <<>>
       PROVE  k < Cardinality(Ids)
    BY <1>3, <1>6, <1>10, <1>12
<1>13. ASSUME NEW l \in w.steady \ (w.seen \cup Range(logs))
       PROVE  k + q.limit <= Rank(S, l)
  <2>1. l \in S /\ k <= Rank(S, l) /\ Rank(S, l) \in Nat
    BY <1>7, <1>8
  <2>2. Rank(S, l) \notin k..(k + q.limit - 1)
    BY <1>10, <2>1
  <2> QED
    BY <1>1, <1>3, <2>1, <2>2
<1> QED
    BY <1>3, <1>11, <1>12, <1>13 DEF S, k, ReadsOn

\* SELECT on an unchanged table agrees with COUNT.
LEMMA SelectAgrees ==
    ASSUME NEW T \in SUBSET Ids, NEW q \in Query, InRange(q), q.total = Cardinality(T \cap q.rows),
           NEW logs, logs = Slice(Ordered(T \cap q.rows), Offset(q.page, q.limit), q.limit)
    PROVE  logs # <<>> <=> q.page <= TotalPages(q.total, q.limit)
<1> DEFINE S == T \cap q.rows
           k == (q.page - 1) * q.limit
<1>1. q.page \in Nat \ {0} /\ q.limit \in Nat \ {0} /\ q.rows \in SUBSET Ids
    BY SearchConstants DEF Query
<1>2. S \in SUBSET Ids /\ Cardinality(S) \in 0..Cardinality(Ids) /\ Cardinality(Ids) \in Nat
    BY <1>1, FiniteIds
<1>3. k \in 0..IntMax
    BY <1>1, Products, SearchConstants DEF InRange
<1>4. Offset(q.page, q.limit) = k
    BY <1>3, NoWrap DEF Offset
<1>5. q.page <= TotalPages(q.total, q.limit) <=> k < q.total
    BY <1>1, <1>2, PagesCover DEF InRange
<1> HIDE DEF S, k
<1>6. logs = Slice(Ordered(S), k, q.limit) /\ q.total = Cardinality(S) /\ k \in Nat
    BY <1>3, <1>4, SearchConstants DEF S
<1>7. logs = <<>> <=> Cardinality(S) <= k
    BY <1>1, <1>2, <1>6, PageOf
<1> QED
    BY <1>2, <1>5, <1>6, <1>7

LEMMA SelectStep ==
    ASSUME AssistantInv, NEW c \in Clients, Select(c), UNCHANGED chat
    PROVE  AssistantInv'
<1> DEFINE o == query[c]
           S == table \cap o.rows
           offset == Offset(o.page, o.limit)
           logs == Slice(Ordered(S), offset, o.limit)
           pages == TotalPages(o.total, o.limit)
           q == [o EXCEPT !.pc = "page", !.logs = logs, !.pages = pages]
           u == walk[c]
           w == [u EXCEPT !.seen = IF u.on THEN @ \cup Range(logs) ELSE @,
                          !.over = u.on /\ logs = <<>>]
<1>1. /\ Shape /\ table' = table /\ quiet' = quiet /\ chat' = chat
      /\ ClientOK(table, o, u, quiet[c], chat[c]) /\ o.pc = "select" /\ offset >= 0
    BY DEF AssistantInv, Select
<1>2. /\ quiet' = [quiet EXCEPT ![c] = quiet[c]] /\ chat' = [chat EXCEPT ![c] = chat[c]]
      /\ query' = [query EXCEPT ![c] = q] /\ walk' = [walk EXCEPT ![c] = w]
    BY <1>1, SameQuiet, SameChat DEF Select, Shape
<1>3. /\ o \in Query /\ u \in Walk /\ S \in SUBSET Ids /\ o.rows \in SUBSET Ids
      /\ o.page \in Nat \ {0} /\ o.limit \in Nat \ {0} /\ o.total \in Nat
    BY <1>1, SearchConstants, FiniteIds DEF ClientOK, ClientTypes, Query, Shape
<1>4. offset \in Nat /\ pages \in Int
  <2>1. offset \in Int
    BY <1>3, WrapInt DEF Offset
  <2>2. o.total + o.limit - 1 \in Int
    BY <1>3
  <2>3. pages \in Int
    BY <1>3, <2>2, WrapInt, QuoInt DEF TotalPages
  <2> QED
    BY <1>1, <2>1, <2>3
<1> HIDE DEF offset, pages
<1>5. logs \in Seq(S) /\ Len(logs) <= o.limit
    BY <1>3, <1>4, PageOf
<1> HIDE DEF logs
<1>6. logs \in Seq(Ids) /\ Range(logs) \subseteq S
    BY <1>3, <1>5 DEF Range
<1>7. /\ q \in Query /\ q.pc = "page" /\ q.rows = o.rows /\ q.page = o.page
      /\ q.limit = o.limit /\ q.logs = logs /\ q.total = o.total /\ q.pages = pages
    BY <1>3, <1>4, <1>6 DEF Query
<1>8. /\ w \in Walk /\ w.steady = u.steady /\ w.on = u.on
      /\ w.seen = (IF u.on THEN u.seen \cup Range(logs) ELSE u.seen)
      /\ w.over <=> u.on /\ logs = <<>>
    BY <1>3, <1>6 DEF Walk
<1> HIDE DEF q, w
<1>9. ClientTypes(table, q, w, quiet[c], chat[c])
    BY <1>1, <1>5, <1>6, <1>7, <1>8 DEF ClientOK, ClientTypes
<1>10. WalkOK(table, q, w)
  <2>1. CASE ~u.on
    BY <1>8, <2>1, NotReading
  <2>2. CASE u.on
    <3>1. /\ logs = <<>> => u.steady \subseteq u.seen
          /\ logs # <<>> => Skipped(o) < Cardinality(Ids)
          /\ logs # <<>> => \A l \in u.steady \ (u.seen \cup Range(logs)) :
                               o.page * o.limit <= Rank(table \cap o.rows, l)
      <4>1. logs = Slice(Ordered(table \cap o.rows), Offset(o.page, o.limit), o.limit)
        BY DEF logs, offset
      <4>2. table \in SUBSET Ids /\ u.steady \subseteq table /\ WalkOK(table, o, u)
        BY <1>1 DEF Shape, ClientOK, ClientTypes
      <4>3. ReadsOn(table, o, u, logs)
        <5> HIDE DEF o, u
        <5> QED
          BY <1>1, <1>3, <2>2, <4>1, <4>2, SelectReads
      <4> QED
        BY <4>3 DEF ReadsOn
    <3>2. Skipped(q) = Skipped(o) /\ ReadSoFar(q) = o.page * o.limit
      BY <1>7 DEF Skipped, ReadSoFar
    <3>3. CASE logs = <<>>
      BY <1>1, <1>7, <1>8, <2>2, <3>1, <3>3 DEF ClientOK, WalkOK
    <3>4. CASE logs # <<>>
      <4>1. Skipped(q) < Cardinality(Ids) /\ Skipped(q) < Cardinality(Ids) + q.limit
        <5>1. Skipped(o) \in Nat /\ Cardinality(Ids) \in Nat
          BY <1>3, Products, FiniteIds DEF Skipped
        <5> QED
          BY <1>3, <1>7, <3>1, <3>2, <3>4, <5>1
      <4>2. Reading(table, q, w)
        BY <1>7, <1>8, <2>2, <3>1, <3>2, <3>4, <4>1 DEF Reading
      <4> QED
        BY <1>1, <1>7, <1>8, <2>2, <3>4, <4>2 DEF ClientOK, WalkOK
    <3> QED
      BY <3>3, <3>4
  <2> QED
    BY <2>1, <2>2
<1>11. CountOK(table, q, quiet[c])
  <2> SUFFICES ASSUME quiet[c], InRange(q)
               PROVE  q.logs # <<>> <=> q.page <= q.pages
    BY <1>7 DEF CountOK
  <2>1. o.total = Cardinality(table \cap o.rows) /\ InRange(o) /\ table \in SUBSET Ids
    BY <1>1, <1>7 DEF ClientOK, CountOK, InRange, Shape
  <2>2. logs = Slice(Ordered(table \cap o.rows), Offset(o.page, o.limit), o.limit)
    BY DEF logs, offset
  <2>3. logs # <<>> <=> o.page <= TotalPages(o.total, o.limit)
    <3> HIDE DEF o
    <3> QED
      BY <1>3, <2>1, <2>2, SelectAgrees
  <2> QED
    BY <1>7, <2>3 DEF pages
<1>12. ChatOK(q, w, chat[c])
    BY <1>1, <1>7, <1>8 DEF ClientOK, ChatOK
<1>13. ClientOK(table, q, w, quiet[c], chat[c])
    BY <1>9, <1>10, <1>11, <1>12 DEF ClientOK
<1>14. table' = table
    BY <1>1
<1> QED
    BY <1>2, <1>13, <1>14, OneClient

-----------------------------------------------------------------------------
(* Steps of an AI request.                                                 *)

\* A request that starts with provider gemini, or has failed.
Asking(call) == [NoChat EXCEPT !.pc = "ask", !.call = call]
Refused == [NoChat EXCEPT !.pc = "failed"]

LEMMA ChatRecords ==
    /\ Refused \in Chat /\ Refused.pc = "failed" /\ Refused.text = <<>>
    /\ \A call \in Calls : /\ Asking(call) \in Chat /\ Asking(call).pc = "ask"
                           /\ Asking(call).text = <<>> /\ \A f \in Fields : Asking(call).from[f] = "none"
<1>1. NoChat \in Chat
    BY Fresh
<1>2. Refused \in Chat /\ Refused.pc = "failed" /\ Refused.text = <<>>
    BY <1>1 DEF Refused, Chat, NoChat
<1>3. ASSUME NEW call \in Calls
      PROVE  /\ Asking(call) \in Chat /\ Asking(call).pc = "ask"
             /\ Asking(call).text = <<>> /\ \A f \in Fields : Asking(call).from[f] = "none"
    BY <1>1 DEF Asking, Chat, NoChat
<1> QED
    BY <1>2, <1>3

LEMMA AskAIStep ==
    ASSUME AssistantInv, NEW c \in Clients, NEW call \in Calls, AskAI(c, call)
    PROVE  AssistantInv'
<1>1. Shape /\ table' = table /\ quiet[c] \in BOOLEAN
    BY DEF AssistantInv, Shape, AskAI
<1>2. /\ quiet' = [quiet EXCEPT ![c] = quiet[c]] /\ query' = [query EXCEPT ![c] = NoQuery]
      /\ walk' = [walk EXCEPT ![c] = NoWalk]
    BY <1>1, SameQuiet DEF AskAI
<1>3. PICK h \in Chat : chat' = [chat EXCEPT ![c] = h] /\ ChatOK(NoQuery, NoWalk, h)
  <2>1. NoQuery.pc = "idle" /\ ~NoWalk.on
    BY DEF NoQuery, NoWalk
  <2>2. ChatOK(NoQuery, NoWalk, Asking(call)) /\ ChatOK(NoQuery, NoWalk, Refused)
    BY <2>1, ChatRecords DEF ChatOK
  <2>3. chat' = [chat EXCEPT ![c] = Asking(call)] \/ chat' = [chat EXCEPT ![c] = Refused]
    BY DEF AskAI, Asking, Refused
  <2> QED
    BY <2>2, <2>3, ChatRecords
<1>4. ClientOK(table, NoQuery, NoWalk, quiet[c], h)
  <2>1. NoQuery.pc = "idle" /\ NoQuery.limit = 1
    BY DEF NoQuery
  <2>2. NoWalk.steady = {} /\ ~NoWalk.on /\ ~NoWalk.over
    BY DEF NoWalk
  <2>3. ClientTypes(table, NoQuery, NoWalk, quiet[c], h)
    BY <1>1, <2>1, <2>2, Fresh DEF ClientTypes
  <2> QED
    BY <1>3, <2>1, <2>2, <2>3 DEF ClientOK, WalkOK, CountOK
<1>5. table' = table
    BY <1>1
<1> QED
    BY <1>2, <1>3, <1>4, <1>5, OneClient

\* A step that changes nothing but the AI request.
LEMMA ChatOnly ==
    ASSUME AssistantInv, NEW c \in Clients, NEW h \in Chat, ChatOK(query[c], walk[c], h),
           chat' = [chat EXCEPT ![c] = h], UNCHANGED <<table, query, walk, quiet>>
    PROVE  AssistantInv'
<1>1. Shape /\ table' = table /\ ClientOK(table, query[c], walk[c], quiet[c], chat[c])
    BY DEF AssistantInv
<1>2. /\ query' = [query EXCEPT ![c] = query[c]] /\ walk' = [walk EXCEPT ![c] = walk[c]]
      /\ quiet' = [quiet EXCEPT ![c] = quiet[c]]
    BY <1>1, SameQuery, SameWalk, SameQuiet
<1>3. ClientOK(table, query[c], walk[c], quiet[c], h)
    BY <1>1 DEF ClientOK, ClientTypes
<1>4. table' = table
    BY <1>1
<1> QED
    BY <1>2, <1>3, <1>4, OneClient

LEMMA GenerateStep ==
    ASSUME AssistantInv, NEW c \in Clients, Generate(c)
    PROVE  AssistantInv'
<1>1. ClientOK(table, query[c], walk[c], quiet[c], chat[c]) /\ Shape
    BY DEF AssistantInv
<1>2. PICK text \in Texts : chat' = [chat EXCEPT ![c].pc = "decode", ![c].text = text]
    BY DEF Generate
<1> DEFINE o == chat[c]
           h == [o EXCEPT !.pc = "decode", !.text = text]
<1>3. o \in Chat /\ o.pc = "ask"
    BY <1>1 DEF Shape, Generate
<1>4. /\ h \in Chat /\ h.pc = "decode" /\ h.from = o.from /\ h.provider = o.provider
      /\ h.mixed = o.mixed
    BY <1>3 DEF Chat
<1>5. chat' = [chat EXCEPT ![c] = h]
    BY <1>1, <1>2 DEF Shape
<1> HIDE DEF h
<1>6. ChatOK(query[c], walk[c], h)
    BY <1>1, <1>3, <1>4 DEF ClientOK, ChatOK
<1> QED
    BY <1>4, <1>5, <1>6, ChatOnly DEF Generate

\* After a failed attempt: what may have been set was set by an object with a
\* field of the wrong type.
LEMMA NextProviderStep ==
    ASSUME AssistantInv, NEW c \in Clients, chat[c].pc \in {"ask", "decode"},
           NEW from \in [Fields -> Providers \cup {"none"}], NEW mixed \in BOOLEAN,
           chat[c].provider = "gemini" => (\A f \in Fields : from[f] = "none") \/ mixed,
           NextProvider(c, from, mixed), UNCHANGED <<table, query, walk, quiet>>
    PROVE  AssistantInv'
<1>1. ClientOK(table, query[c], walk[c], quiet[c], chat[c]) /\ Shape /\ chat[c] \in Chat
    BY DEF AssistantInv, Shape
<1>2. query[c].pc = "idle" /\ ~walk[c].on
    BY <1>1 DEF ClientOK, ChatOK
<1>3. CASE chat' = [chat EXCEPT ![c] = [NoChat EXCEPT !.pc = "failed"]]
  <2>1. ChatOK(query[c], walk[c], Refused)
    BY ChatRecords DEF ChatOK
  <2> QED
    BY <1>3, <2>1, ChatRecords, ChatOnly DEF Refused
<1>4. CASE /\ chat[c].provider = "gemini"
           /\ chat' = [chat EXCEPT ![c].pc = "ask", ![c].provider = "openrouter",
                                   ![c].text = <<>>, ![c].from = from, ![c].mixed = mixed]
  <2> DEFINE o == chat[c]
             h == [o EXCEPT !.pc = "ask", !.provider = "openrouter", !.text = <<>>,
                            !.from = from, !.mixed = mixed]
  <2>1. NoChat.text = <<>> /\ NoChat \in Chat
    BY Fresh DEF NoChat
  <2>2. <<>> \in Texts
    BY <2>1 DEF Chat
  <2>3. /\ h \in Chat /\ h.pc = "ask" /\ h.from = from /\ h.provider = "openrouter"
        /\ h.mixed = mixed /\ h.text = <<>>
    BY <1>1, <2>2 DEF Chat, Providers
  <2>4. chat' = [chat EXCEPT ![c] = h]
    BY <1>1, <1>4 DEF Shape
  <2> HIDE DEF h
  <2>5. ChatOK(query[c], walk[c], h)
    BY <1>2, <1>4, <2>3 DEF ChatOK
  <2> QED
    BY <2>3, <2>4, <2>5, ChatOnly
<1> QED
    BY <1>3, <1>4 DEF NextProvider

LEMMA GenerateFailsStep ==
    ASSUME AssistantInv, NEW c \in Clients, GenerateFails(c)
    PROVE  AssistantInv'
<1>1. /\ ClientOK(table, query[c], walk[c], quiet[c], chat[c]) /\ chat[c] \in Chat
      /\ chat[c].pc = "ask" /\ UNCHANGED <<table, query, walk, quiet>>
    BY DEF AssistantInv, Shape, GenerateFails
<1>2. CASE NextProvider(c, chat[c].from, chat[c].mixed)
  <2> DEFINE from == chat[c].from
             mixed == chat[c].mixed
  <2>1. /\ from \in [Fields -> Providers \cup {"none"}] /\ mixed \in BOOLEAN
        /\ (\A f \in Fields : from[f] = "none") \/ mixed
    BY <1>1 DEF Chat, ClientOK, ChatOK
  <2> HIDE DEF from, mixed
  <2>2. NextProvider(c, from, mixed) /\ chat[c].pc \in {"ask", "decode"}
    BY <1>1, <1>2 DEF from, mixed
  <2> QED
    BY <1>1, <2>1, <2>2, NextProviderStep
<1>3. CASE chat' = [chat EXCEPT ![c] = [NoChat EXCEPT !.pc = "failed"]]
  <2>1. ChatOK(query[c], walk[c], Refused)
    BY ChatRecords DEF ChatOK
  <2> QED
    BY <1>1, <1>3, <2>1, ChatRecords, ChatOnly DEF Refused
<1> QED
    BY <1>2, <1>3 DEF GenerateFails

LEMMA TryProviderStep ==
    ASSUME AssistantInv, NEW c \in Clients, TryProvider(c)
    PROVE  AssistantInv'
<1> DEFINE g == chat[c]
           json == ExtractFirstJSON(g.text)
           Filled(o) == [f \in Fields |-> IF f \in o.set THEN g.provider ELSE g.from[f]]
<1>1. /\ ClientOK(table, query[c], walk[c], quiet[c], g) /\ g \in Chat /\ Shape
      /\ g.pc = "decode" /\ UNCHANGED <<table, query, walk, quiet>>
    BY DEF AssistantInv, Shape, TryProvider
<1>2. /\ query[c].pc = "idle" /\ ~walk[c].on
      /\ (\A f \in Fields : g.from[f] = "none") \/ (g.provider = "openrouter" /\ g.mixed)
    BY <1>1 DEF ClientOK, ChatOK
<1>3. /\ g.from \in [Fields -> Providers \cup {"none"}] /\ g.mixed \in BOOLEAN
      /\ g.provider \in Providers /\ g.pc \in {"ask", "decode"}
    BY <1>1 DEF Chat
<1>4. CASE NextProvider(c, g.from, g.mixed)
  <2>1. g.provider = "gemini" => (\A f \in Fields : g.from[f] = "none") \/ g.mixed
    BY <1>2
  <2> DEFINE from == g.from
             mixed == g.mixed
  <2>2. /\ NextProvider(c, from, mixed) /\ from \in [Fields -> Providers \cup {"none"}]
        /\ mixed \in BOOLEAN /\ (g.provider = "gemini" => (\A f \in Fields : from[f] = "none") \/ mixed)
    BY <1>3, <1>4, <2>1
  <2> HIDE DEF from, mixed
  <2> QED
    BY <1>1, <2>2, NextProviderStep
<1>5. ASSUME NEW o \in Unmarshal(json), o.error, NextProvider(c, Filled(o), o.mistyped)
      PROVE  AssistantInv'
  <2>1. o \in Outcomes /\ (o.mistyped \/ o.set = {})
    BY <1>5 DEF Unmarshal, Outcomes
  <2>2. Filled(o) \in [Fields -> Providers \cup {"none"}] /\ o.mistyped \in BOOLEAN
    BY <1>3, <2>1 DEF Outcomes
  <2>3. g.provider = "gemini" => (\A f \in Fields : Filled(o)[f] = "none") \/ o.mistyped
    BY <1>2, <2>1
  <2> DEFINE from == Filled(o)
             mixed == o.mistyped
  <2>4. /\ NextProvider(c, from, mixed) /\ from \in [Fields -> Providers \cup {"none"}]
        /\ mixed \in BOOLEAN /\ (g.provider = "gemini" => (\A f \in Fields : from[f] = "none") \/ mixed)
    BY <1>5, <2>2, <2>3
  <2> HIDE DEF from, mixed
  <2> QED
    BY <1>1, <2>4, NextProviderStep
<1>6. ASSUME NEW o \in Unmarshal(json),
             chat' = [chat EXCEPT ![c].pc = IF g.call = "nlq" THEN "search" ELSE "done",
                                  ![c].text = <<>>, ![c].from = Filled(o)]
      PROVE  AssistantInv'
  <2> DEFINE from == Filled(o)
             pc == IF g.call = "nlq" THEN "search" ELSE "done"
             h == [g EXCEPT !.pc = pc, !.text = <<>>, !.from = from]
  <2>1. o \in Outcomes
    BY DEF Unmarshal
  <2>2. /\ from \in [Fields -> Providers \cup {"none"}]
        /\ \A f \in Fields : from[f] \in {"none", g.provider} \/ g.mixed
    BY <1>2, <1>3
  <2>3. <<>> \in Texts
    BY Fresh DEF Chat, NoChat
  <2>4. chat' = [chat EXCEPT ![c] = h]
    BY <1>1, <1>6 DEF Shape
  <2>5. pc \in {"search", "done"}
    OBVIOUS
  <2> HIDE DEF from, pc
  <2>6. /\ h \in Chat /\ h.pc = pc /\ h.text = <<>> /\ h.from = from
        /\ h.provider = g.provider /\ h.mixed = g.mixed
    BY <1>1, <2>2, <2>3, <2>5 DEF Chat
  <2> HIDE DEF h
  <2>7. ChatOK(query[c], walk[c], h)
    BY <1>2, <2>2, <2>5, <2>6 DEF ChatOK
  <2> QED
    BY <1>1, <2>4, <2>6, <2>7, ChatOnly
<1> QED
    BY <1>4, <1>5, <1>6 DEF TryProvider

LEMMA NLQStep ==
    ASSUME AssistantInv, NEW c \in Clients, NEW rows \in Filters, NEW page \in Numbers,
           NEW limit \in Numbers, NEW answer \in Numbers, NLQ(c, rows, page, limit, answer)
    PROVE  AssistantInv'
<1> DEFINE p == Positive(page, 1)
           n == Positive(limit, Positive(answer, DefaultSearchLimit))
           q == Started(rows, p, n)
           w == walk[c]
<1>1. /\ Shape /\ table' = table /\ walk' = walk /\ quiet' = quiet /\ chat[c].pc = "search"
      /\ ClientOK(table, query[c], w, quiet[c], chat[c])
    BY DEF AssistantInv, NLQ
<1>2. /\ query' = [query EXCEPT ![c] = q] /\ walk' = [walk EXCEPT ![c] = w]
      /\ quiet' = [quiet EXCEPT ![c] = quiet[c]] /\ chat' = [chat EXCEPT ![c] = NoChat]
    BY <1>1, SameWalk, SameQuiet DEF NLQ, StartQuery, Started
<1>3. ~w.on /\ ~w.over
    BY <1>1 DEF ClientOK, ChatOK, WalkOK
<1>4. p \in 1..IntMax /\ n \in 1..IntMax /\ IntMax \in Nat /\ rows \in SUBSET Ids
  <2>1. /\ IntMax \in Nat /\ page \in (-IntMax)..IntMax /\ limit \in (-IntMax)..IntMax
        /\ answer \in (-IntMax)..IntMax /\ rows \in SUBSET Ids
        /\ Cardinality(Ids) \in Nat /\ MaxSearchLimit \in 1..(IntMax - Cardinality(Ids))
        /\ DefaultSearchLimit \in 1..MaxSearchLimit
    BY SearchConstants, FiniteIds
  <2> QED
    BY <2>1 DEF Positive
<1>5. q = Started(rows, p, n)
    OBVIOUS
<1> HIDE DEF p, n, q
<1>6. q \in Query
    BY <1>4, <1>5, StartedOK
<1>7. q.pc = "count" /\ q.limit = n /\ q.logs = <<>>
    BY <1>5 DEF Started, NoQuery
<1>8. ClientTypes(table, q, w, quiet[c], NoChat)
    BY <1>1, <1>4, <1>6, <1>7, NoLogs, Fresh DEF ClientOK, ClientTypes
<1>9. WalkOK(table, q, w) /\ CountOK(table, q, quiet[c]) /\ ChatOK(q, w, NoChat)
    BY <1>3, <1>7 DEF WalkOK, CountOK, ChatOK, NoChat
<1>10. ClientOK(table, q, w, quiet[c], NoChat)
    BY <1>8, <1>9 DEF ClientOK
<1>11. table' = table
    BY <1>1
<1> QED
    BY <1>2, <1>10, <1>11, OneClient

LEMMA AssistantInvStep == AssistantInv /\ [Next]_assistantVars => AssistantInv'
<1> SUFFICES ASSUME AssistantInv, [Next]_assistantVars
             PROVE  AssistantInv'
    OBVIOUS
<1>1. CASE TableStep /\ UNCHANGED chat
  <2>1. ASSUME NEW l \in Ids, Insert(l)
        PROVE  AssistantInv'
    BY <1>1, <2>1, InsertStep
  <2>2. ASSUME NEW cutoff \in {TimeOf[l] + 1 : l \in Ids}, DeleteOlderThan(cutoff)
        PROVE  AssistantInv'
    <3>1. cutoff \in Int
      BY SearchConstants
    <3> QED
      BY <1>1, <2>2, <3>1, DeleteStep
  <2> QED
    BY <1>1, <2>1, <2>2 DEF TableStep
<1>2. ASSUME NEW c \in Clients, ClientStep(c)
      PROVE  AssistantInv'
  <2>1. CASE QueryStep(c) /\ UNCHANGED chat
    BY <2>1, CountStep, SelectStep, QueryFailsStep, NextPageStep DEF QueryStep
  <2> QED
    BY <1>2, <2>1, SearchLogsStep, AskAIStep, GenerateStep, GenerateFailsStep, TryProviderStep,
       NLQStep DEF ClientStep
<1>3. CASE UNCHANGED assistantVars
    BY <1>3 DEF assistantVars, AssistantInv, Shape, ClientOK, ClientTypes, WalkOK, CountOK, ChatOK,
               Reading, Skipped, ReadSoFar
<1> QED
    BY <1>1, <1>2, <1>3 DEF Next

LEMMA AssistantInvariance == Spec => []AssistantInv
BY AssistantInvInit, AssistantInvStep, PTL DEF Spec

-----------------------------------------------------------------------------
(* Results.                                                                *)

\* Queries, pages and AI requests always have their types: no page is longer
\* than its limit or holds a log that the filter does not select.
THEOREM AssistantTypes == Spec => []TypeOK
BY InvImplies, AssistantInvariance, PTL

\* Whatever is inserted and deleted between its requests, a client that reads
\* page after page until one is empty has seen every matching log that was
\* there all the while, for any table, filter, limit and size of an int.
THEOREM NothingSkipped == Spec => []NoRowSkipped
BY InvImplies, AssistantInvariance, PTL

\* On an unchanged table the page has logs iff it is one of total_pages, unless
\* the numbers are too large for an int.
THEOREM TotalsAgree == Spec => []PageAgreesWithTotal
BY InvImplies, AssistantInvariance, PTL

\* What a failed attempt of the primary has left in the result is in the answer
\* only if it was an object with a field of the wrong type.
THEOREM AnswersAreTheProviders == Spec => []NamedProviderAnswers
BY InvImplies, AssistantInvariance, PTL

=============================================================================
