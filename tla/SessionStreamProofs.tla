------------------------ MODULE SessionStreamProofs ------------------------
(***************************************************************************)
(* Theorems about SessionStream, for every value of its constants.         *)
(***************************************************************************)
EXTENDS SessionStream, SequenceTheorems, FiniteSetTheorems, TLAPS

-----------------------------------------------------------------------------
(* Sequences.                                                              *)

LEMMA Bounds ==
    /\ PageSize \in Nat /\ PageSize > 0 /\ MaxPages \in Nat /\ MaxPages > 0
    /\ MaxItems \in Nat /\ MaxParks \in Nat /\ MaxBinds \in Nat /\ MaxBinds > 0
    /\ MaxFaults \in Nat
BY BoundsAssumption

\* A finite set of numbers can be put in order: by counting, for each number,
\* those up to it.
LEMMA Ordered ==
    ASSUME NEW S \in SUBSET Nat, IsFiniteSet(S)
    PROVE  /\ Cardinality(S) \in Nat
           /\ InOrder(S) \in [1..Cardinality(S) -> S] /\ Range(InOrder(S)) = S
           /\ \A i, j \in DOMAIN InOrder(S) : i < j => InOrder(S)[i] < InOrder(S)[j]
<1> DEFINE n       == Cardinality(S)
           upTo(x) == {y \in S : y <= x}
           rank    == [x \in S |-> Cardinality(upTo(x))]
           P(s)    == Range(s) = S /\ \A i, j \in DOMAIN s : i < j => s[i] < s[j]
<1>1. n \in Nat
  BY FS_CardinalityType
<1>2. \A x \in S : IsFiniteSet(upTo(x)) /\ Cardinality(upTo(x)) \in 1..n
  <2> SUFFICES ASSUME NEW x \in S
               PROVE  IsFiniteSet(upTo(x)) /\ Cardinality(upTo(x)) \in 1..n
    OBVIOUS
  <2> DEFINE u == upTo(x)
  <2>1. u \in SUBSET S /\ x \in u
    OBVIOUS
  <2> HIDE DEF u
  <2>5. Cardinality(u) <= Cardinality(S)
    BY <2>1, FS_Subset
  <2>2. IsFiniteSet(u) /\ Cardinality(u) <= n
    BY <2>1, <2>5, FS_Subset
  <2>3. Cardinality(u) \in Nat /\ Cardinality(u) # 0
    BY <2>1, <2>2, FS_CardinalityType, FS_EmptySet
  <2>4. Cardinality(u) \in 1..n
    BY <1>1, <2>2, <2>3
  <2> QED BY <2>2, <2>4 DEF u
<1>3. ASSUME NEW x \in S, NEW y \in S, x < y PROVE rank[x] < rank[y]
  <2> DEFINE u == upTo(x)
             v == upTo(y)
  <2>1. x \in Nat /\ y \in Nat /\ S \subseteq Nat
    OBVIOUS
  <2>7. \A z \in Nat : z <= x => z <= y
    BY <1>3, <2>1
  <2>8. y <= y /\ ~(y <= x)
    BY <1>3, <2>1
  <2>2. u \subseteq v /\ y \in v /\ y \notin u
    BY <2>1, <2>7, <2>8, Zenon
  <2>3. /\ IsFiniteSet(v) /\ Cardinality(u) \in 1..n /\ Cardinality(v) \in 1..n
        /\ rank[x] = Cardinality(u) /\ rank[y] = Cardinality(v)
    BY <1>2
  <2> HIDE DEF u, v, rank
  <2>5. u \in SUBSET v /\ u # v
    BY <2>2
  <2>6. /\ Cardinality(u) <= Cardinality(v)
        /\ Cardinality(u) = Cardinality(v) => u = v
    BY <2>3, <2>5, FS_Subset
  <2>4. Cardinality(u) <= Cardinality(v) /\ Cardinality(u) # Cardinality(v)
    BY <2>5, <2>6
  <2> QED BY <1>1, <2>3, <2>4
<1>4. rank \in Injection(S, 1..n)
  <2>1. rank \in [S -> 1..n]
    BY <1>2
  <2>2. ASSUME NEW x \in S, NEW y \in S, rank[x] = rank[y] PROVE x = y
    <3>1. rank[x] \in Nat /\ rank[y] \in Nat
      BY <1>1, <2>1
    <3> HIDE DEF rank
    <3>2. ~(x < y) /\ ~(y < x)
      BY <1>3, <2>2, <3>1
    <3> QED BY <3>2
  <2> HIDE DEF rank
  <2> QED BY <2>1, <2>2 DEF Injection, IsInjective
<1>5. rank \in Surjection(S, 1..n)
  <2>1. 1 \in Int /\ n \in Int
    BY <1>1
  <2>2. IsFiniteSet(1..n) /\ Cardinality(1..n) = IF 1 > n THEN 0 ELSE n - 1 + 1
    BY <2>1, FS_Interval
  <2>3. Cardinality(1..n) = n
    BY <1>1, <2>2
  <2> HIDE DEF rank, n
  <2> QED BY <1>4, <2>2, <2>3, FS_Injection DEF n
<1> HIDE DEF rank
<1>6. \A k \in 1..n : \E x \in S : rank[x] = k
  BY <1>5 DEF Surjection
<1> DEFINE f == [k \in 1..n |-> CHOOSE x \in S : rank[x] = k]
<1>7. f \in [1..n -> S] /\ \A k \in 1..n : rank[f[k]] = k
  BY <1>6
<1> HIDE DEF f
<1>8. P(f)
  <2>1. ASSUME NEW x \in S PROVE \E k \in 1..n : f[k] = x
    <3>1. rank[x] \in 1..n
      BY <1>4 DEF Injection
    <3>2. rank[f[rank[x]]] = rank[x] /\ f[rank[x]] \in S
      BY <1>7, <3>1
    <3> QED BY <1>4, <3>1, <3>2 DEF Injection, IsInjective
  <2>2. Range(f) = S
    <3>1. DOMAIN f = 1..n /\ \A k \in 1..n : f[k] \in S
      BY <1>7
    <3> HIDE DEF n
    <3> QED BY <2>1, <3>1, Zenon DEF Range
  <2>3. ASSUME NEW i \in 1..n, NEW j \in 1..n, i < j PROVE f[i] < f[j]
    <3>1. f[i] \in S /\ f[j] \in S /\ rank[f[i]] = i /\ rank[f[j]] = j
      BY <1>7
    <3>2. f[i] \in Nat /\ f[j] \in Nat
      BY <3>1
    <3>3. f[i] # f[j]
      BY <1>1, <2>3, <3>1
    <3>5. f[j] < f[i] => rank[f[j]] < rank[f[i]]
      BY <1>3, <3>1
    <3>4. ~(f[j] < f[i])
      BY <1>1, <2>3, <3>1, <3>5
    <3> QED BY <3>2, <3>3, <3>4
  <2> QED BY <1>7, <2>2, <2>3
<1>9. InOrder(S) = CHOOSE s \in [1..n -> S] : P(s)
  BY DEF InOrder
<1>10. InOrder(S) \in [1..n -> S] /\ P(InOrder(S))
  <2> HIDE DEF P, n
  <2> QED BY <1>7, <1>8, <1>9
<1> QED BY <1>1, <1>10

LEMMA OrderedSeq ==
    ASSUME NEW S \in SUBSET Nat, IsFiniteSet(S)
    PROVE  InOrder(S) \in Seq(S) /\ Range(InOrder(S)) = S /\ IsInjective(InOrder(S))
<1> DEFINE s == InOrder(S)
           n == Cardinality(S)
<1>1. /\ n \in Nat /\ s \in [1..n -> S] /\ Range(s) = S
      /\ \A i, j \in DOMAIN s : i < j => s[i] < s[j]
  BY Ordered
<1> HIDE DEF s, n
<1>2. s \in Seq(S)
  BY <1>1, SeqDef
<1>3. IsInjective(s)
  <2> SUFFICES ASSUME NEW i \in 1..n, NEW j \in 1..n, s[i] = s[j] PROVE i = j
    BY <1>1 DEF IsInjective
  <2>1. s[i] \in Nat /\ s[j] \in Nat
    BY <1>1
  <2>2. ~(i < j) /\ ~(j < i)
    BY <1>1, <2>1
  <2> QED BY <1>1, <2>2
<1> QED BY <1>1, <1>2, <1>3 DEF s

LEMMA PickedSeq ==
    ASSUME NEW T, NEW s \in Seq(T), NEW at \in SUBSET DOMAIN s
    PROVE  /\ Picked(s, at) \in Seq(T)
           /\ Range(Picked(s, at)) = {s[n] : n \in at}
           /\ (\A n, k \in at : s[n] = s[k] => n = k) => IsInjective(Picked(s, at))
           /\ DOMAIN Picked(s, at) = DOMAIN InOrder(at)
           /\ \A n \in DOMAIN InOrder(at) : Picked(s, at)[n] = s[InOrder(at)[n]]
<1> DEFINE o == InOrder(at)
           p == Picked(s, at)
<1>1. Len(s) \in Nat /\ DOMAIN s = 1..Len(s) /\ \A n \in DOMAIN s : s[n] \in T
  BY LenProperties, ElementOfSeq
<1>2. at \in SUBSET Nat /\ IsFiniteSet(at)
  <2>1. 1 \in Int /\ Len(s) \in Int
    BY <1>1
  <2>2. IsFiniteSet(1..Len(s))
    BY <2>1, FS_Interval
  <2>3. at \in SUBSET (1..Len(s))
    BY <1>1
  <2> QED BY <2>2, <2>3, FS_Subset
<1>3. o \in Seq(at) /\ Range(o) = at /\ IsInjective(o)
  BY <1>2, OrderedSeq
<1>4. p = [n \in DOMAIN o |-> s[o[n]]]
  BY DEF Picked
<1> HIDE DEF o, p
<1>5. Len(o) \in Nat /\ DOMAIN o = 1..Len(o) /\ \A n \in DOMAIN o : o[n] \in at
  BY <1>3, LenProperties, ElementOfSeq
<1>6. p \in [1..Len(o) -> T]
  BY <1>1, <1>4, <1>5
<1>7. p \in Seq(T)
  BY <1>5, <1>6, SeqDef
<1>8. Range(p) = {s[n] : n \in at}
  <2>1. \A n \in at : \E k \in DOMAIN o : o[k] = n
    BY <1>3 DEF Range
  <2> QED BY <1>4, <1>5, <2>1 DEF Range
<1>9. (\A n, k \in at : s[n] = s[k] => n = k) => IsInjective(p)
  BY <1>3, <1>4, <1>5 DEF IsInjective
<1> QED BY <1>4, <1>7, <1>8, <1>9 DEF o, p

LEMMA JoinedInjective ==
    ASSUME NEW T, NEW a \in Seq(T), NEW b \in Seq(T), IsInjective(a), IsInjective(b),
           Range(a) \cap Range(b) = {}
    PROVE  IsInjective(a \o b)
<1> DEFINE c == a \o b
           n == Len(a)
           m == Len(b)
<1>1. /\ c \in Seq(T) /\ Len(c) = n + m
      /\ \A i \in 1..n : c[i] = a[i]
      /\ \A i \in 1..m : c[n + i] = b[i]
  BY ConcatProperties
<1>2. n \in Nat /\ m \in Nat /\ DOMAIN a = 1..n /\ DOMAIN b = 1..m
  BY LenProperties
<1>3. DOMAIN c = 1..(n + m)
  <2> HIDE DEF c
  <2> QED BY <1>1, LenProperties
<1> HIDE DEF c, n, m
<1>4. \A i \in 1..n : a[i] \in Range(a)
  BY <1>2 DEF Range
<1>5. \A i \in 1..m : b[i] \in Range(b)
  BY <1>2 DEF Range
<1>6. \A i \in 1..(n + m) : i \in 1..n \/ (i - n \in 1..m /\ i = n + (i - n))
  BY <1>2
<1>7. \A i \in 1..(n + m) : i \notin 1..n => i - n \in 1..m /\ c[i] = b[i - n]
  <2> SUFFICES ASSUME NEW i \in 1..(n + m), i \notin 1..n
               PROVE  i - n \in 1..m /\ c[i] = b[i - n]
    OBVIOUS
  <2>1. i - n \in 1..m /\ i = n + (i - n)
    BY <1>6
  <2>2. c[n + (i - n)] = b[i - n]
    BY <1>1, <2>1
  <2> QED BY <2>1, <2>2
<1>8. IsInjective(c)
  <2> SUFFICES ASSUME NEW i \in 1..(n + m), NEW j \in 1..(n + m), c[i] = c[j] PROVE i = j
    BY <1>3 DEF IsInjective
  <2>1. CASE i \in 1..n /\ j \in 1..n
    BY <1>1, <1>2, <2>1 DEF IsInjective
  <2>2. CASE i \in 1..n /\ j \notin 1..n
    BY <1>1, <1>4, <1>5, <1>7, <2>2
  <2>3. CASE i \notin 1..n /\ j \in 1..n
    BY <1>1, <1>4, <1>5, <1>7, <2>3
  <2>4. CASE i \notin 1..n /\ j \notin 1..n
    <3>1. i - n = j - n
      BY <1>2, <1>7, <2>4 DEF IsInjective
    <3> QED BY <1>2, <3>1
  <2> QED BY <2>1, <2>2, <2>3, <2>4
<1> QED BY <1>8 DEF c

-----------------------------------------------------------------------------
(* Types.  A page that is not empty is not upside down, so the cursor      *)
(* taken from it stays among the items.                                    *)

GoodFetch == {f \in Fetch : f.hi = 0 \/ f.lo <= f.hi}
GoodBind  == [st : {"unused", "waiting", "done"}, fetch : GoodFetch]
GoodRecon == [st : {"idle", "pages", "window"}, fetch : GoodFetch, pages : 1..MaxPages,
              pre : SUBSET Items, prePending : SUBSET Prompts,
              preResolved : SUBSET Prompts, valid : BOOLEAN]
GoodPage  == {p \in [lo : 1..(MaxItems + 1), hi : 0..MaxItems] : p.hi = 0 \/ p.lo <= p.hi}
CardStates == [Prompts -> {"none", "pending", "elsewhere", "answered"}]

TypeInv == TypeOK /\ binds \in [Binds -> GoodBind] /\ recon \in GoodRecon

LEMMA EmptyRecords ==
    /\ NoFetch \in GoodFetch /\ NoRecon \in GoodRecon
    /\ NoQuery \in QueryRecord /\ NoCards \in CardStates
<1>1. 1 \in 1..(MaxItems + 1) /\ 0 \in 0..MaxItems /\ 1 \in 1..MaxPages
  BY Bounds
<1>2. NoFetch \in GoodFetch
  BY <1>1 DEF NoFetch, GoodFetch, Fetch
<1>3. NoRecon \in GoodRecon
  BY <1>1, <1>2 DEF NoRecon, GoodRecon
<1> QED BY <1>2, <1>3 DEF NoQuery, QueryRecord, NoCards, CardStates

LEMMA FilledFetch ==
    ASSUME NEW f \in GoodFetch
    PROVE  /\ \A p \in GoodPage : /\ WithPage(f, p) \in GoodFetch
                                  /\ WithPage(f, p).hi = p.hi /\ WithPage(f, p).lo = p.lo
           /\ query \in QueryRecord => WithSession(f) \in GoodFetch
           /\ WithSession(f).hi = f.hi /\ WithSession(f).lo = f.lo
           /\ WithSession(f).page = f.page
           /\ f \in Fetch
BY DEF GoodFetch, GoodPage, Fetch, WithPage, WithSession, QueryRecord

LEMMA NewestPage ==
    ASSUME last \in 0..MaxItems
    PROVE  Newest \in GoodPage /\ Newest.hi = last
<1>1. /\ (IF last < PageSize THEN 1 ELSE last + 1 - PageSize) \in 1..(MaxItems + 1)
      /\ last = 0 \/ (IF last < PageSize THEN 1 ELSE last + 1 - PageSize) <= last
  BY Bounds
<1> QED BY <1>1 DEF Newest, GoodPage

LEMMA OlderPage ==
    ASSUME NEW i \in 1..(MaxItems + 1)
    PROVE  Before(i) \in 1..i
BY Bounds DEF Before

LEMMA ReconPages ==
    ASSUME last \in 0..MaxItems, recon \in GoodRecon
    PROVE  /\ ReconPage \in GoodPage
           /\ ReconPage.hi = last \/ ReconPage.hi = recon.fetch.hi
           /\ (recon.st = "window" \/ (recon.st = "pages" /\ recon.pages = 1))
              => ReconPage.hi = last
<1>1. Newest \in GoodPage /\ Newest.hi = last
  BY NewestPage
<1> DEFINE older == [lo |-> Before(recon.fetch.lo), hi |-> recon.fetch.hi]
<1>2. /\ recon.fetch.lo \in 1..(MaxItems + 1) /\ recon.fetch.hi \in 0..MaxItems
      /\ recon.fetch.hi = 0 \/ recon.fetch.lo <= recon.fetch.hi
      /\ recon.st \in {"idle", "pages", "window"}
  BY DEF GoodRecon, GoodFetch, Fetch
<1>3. Before(recon.fetch.lo) \in 1..recon.fetch.lo
  BY <1>2, OlderPage
<1>4. /\ Before(recon.fetch.lo) \in 1..(MaxItems + 1)
      /\ recon.fetch.hi = 0 \/ Before(recon.fetch.lo) <= recon.fetch.hi
  BY <1>2, <1>3, Bounds
<1>5. older \in GoodPage
  BY <1>2, <1>4 DEF GoodPage
<1>6. CASE recon.st = "window" \/ (recon.st = "pages" /\ recon.pages = 1)
  <2>1. ReconPage = Newest
    BY <1>6 DEF ReconPage
  <2> QED BY <1>1, <2>1
<1>7. CASE ~(recon.st = "window" \/ (recon.st = "pages" /\ recon.pages = 1))
  <2>1. ReconPage = older
    BY <1>7 DEF ReconPage
  <2> QED BY <1>5, <1>7, <2>1
<1> QED BY <1>6, <1>7

LEMMA EventTypes ==
    /\ \A i \in Items : ItemEvent(i) \in Events
    /\ \A e \in Prompts : Asked(e) \in Events /\ Resolved(e) \in Events
    /\ \A ev \in Events : \/ ev.kind = "item" /\ ev.item \in Items /\ ev = ItemEvent(ev.item)
                          \/ ev.kind = "asked" /\ ev.prompt \in Prompts /\ ev = Asked(ev.prompt)
                          \/ ev.kind = "resolved" /\ ev.prompt \in Prompts
                             /\ ev = Resolved(ev.prompt)
<1>1. \A i \in Items : ItemEvent(i) \in Events
  BY DEF Events
<1>2. \A e \in Prompts : Asked(e) \in Events /\ Resolved(e) \in Events
  BY DEF Events
<1>3. \A i \in Items : ItemEvent(i).kind = "item" /\ ItemEvent(i).item = i
  BY DEF ItemEvent
<1>4. \A e \in Prompts : /\ Asked(e).kind = "asked" /\ Asked(e).prompt = e
                         /\ Resolved(e).kind = "resolved" /\ Resolved(e).prompt = e
  BY DEF Asked, Resolved
<1>5. \A ev \in Events : \/ \E i \in Items : ev = ItemEvent(i)
                         \/ \E e \in Prompts : ev = Asked(e) \/ ev = Resolved(e)
  BY DEF Events
<1> QED BY <1>1, <1>2, <1>3, <1>4, <1>5

LEMMA Published ==
    ASSUME wire \in Seq(Events), NEW ev \in Events, Publish(ev)
    PROVE  /\ wire' \in Seq(Events) /\ Range(wire) \subseteq Range(wire')
           /\ link = "up" => ev \in Range(wire')
<1>1. CASE link = "up"
  <2>1. wire' = Append(wire, ev)
    BY <1>1 DEF Publish
  <2>2. /\ wire' \in Seq(Events) /\ Len(wire') = Len(wire) + 1
        /\ \A i \in 1..Len(wire) : wire'[i] = wire[i]
        /\ wire'[Len(wire) + 1] = ev
    BY <2>1, AppendProperties
  <2>3. Len(wire) \in Nat /\ DOMAIN wire = 1..Len(wire) /\ DOMAIN wire' = 1..(Len(wire) + 1)
    BY <2>2, LenProperties
  <2>4. /\ 1..Len(wire) \subseteq 1..(Len(wire) + 1)
        /\ Len(wire) + 1 \in 1..(Len(wire) + 1)
    BY <2>3
  <2>5. ev \in Range(wire')
    BY <2>2, <2>3, <2>4 DEF Range
  <2>6. Range(wire) \subseteq Range(wire')
    BY <2>2, <2>3, <2>4 DEF Range
  <2> QED BY <2>2, <2>5, <2>6
<1>2. CASE link # "up"
  BY <1>2 DEF Publish
<1> QED BY <1>1, <1>2

\* Items of a page, or some of them, as they are put in the window.
LEMMA ItemsInOrder ==
    ASSUME NEW S \in SUBSET Items
    PROVE  InOrder(S) \in Seq(Items) /\ Range(InOrder(S)) = S /\ IsInjective(InOrder(S))
<1>1. S \in SUBSET Nat
  BY DEF Items
<1>2. IsFiniteSet(S)
  <2>1. 1 \in Int /\ MaxItems \in Int
    BY Bounds
  <2>2. IsFiniteSet(1..MaxItems)
    BY <2>1, FS_Interval
  <2> QED BY <2>2, FS_Subset DEF Items
<1>3. InOrder(S) \in Seq(S) /\ Range(InOrder(S)) = S /\ IsInjective(InOrder(S))
  BY <1>1, <1>2, OrderedSeq
<1>4. InOrder(S) \in Seq(Items)
  BY <1>3, SeqMonotonic
<1> QED BY <1>3, <1>4

\* Two parts of a window that show nothing in common.
LEMMA TwoParts ==
    ASSUME NEW a \in Seq(Items), NEW b \in Seq(Items)
    PROVE  /\ a \o b \in Seq(Items) /\ Range(a \o b) = Range(a) \cup Range(b)
           /\ (IsInjective(a) /\ IsInjective(b) /\ Range(a) \cap Range(b) = {})
                => IsInjective(a \o b)
<1>1. a \o b \in Seq(Items)
  BY ConcatProperties
<1>2. Range(a \o b) = Range(a) \cup Range(b)
  BY RangeConcatenation
<1> QED BY <1>1, <1>2, JoinedInjective

LEMMA SpanItems ==
    ASSUME NEW f, f \in GoodFetch \/ f \in GoodPage
    PROVE  Span(f) \subseteq Items /\ Oldest(f) \in 0..MaxItems
<1>1. f.lo \in 1..(MaxItems + 1) /\ f.hi \in 0..MaxItems /\ (f.hi = 0 \/ f.lo <= f.hi)
  BY DEF GoodFetch, Fetch, GoodPage
<1> QED BY <1>1, Bounds DEF Span, Oldest, Items

LEMMA WindowItems ==
    ASSUME window \in Seq(Items)
    PROVE  Rendered \subseteq Items /\ \A f : Unseen(f) = Span(f) \ Rendered
<1>1. \A n \in 1..Len(window) : window[n] \in Items
  BY ElementOfSeq
<1> QED BY <1>1, LenProperties DEF Rendered, Range, Unseen

\* What a frame adds to the window: the items of the buffer that are not
\* shown.
Arriving == {i \in Items : ItemEvent(i) \in Range(buffer) /\ i \notin Rendered}

LEMMA FreshItems ==
    ASSUME buffer \in Seq(Events)
    PROVE  /\ Fresh \in Seq(Items) /\ Range(Fresh) = Arriving
           /\ IsInjective(buffer) => IsInjective(Fresh)
<1> DEFINE at == {n \in DOMAIN buffer : buffer[n].kind = "item" /\ buffer[n].item \notin Rendered}
           p  == Picked(buffer, at)
           o  == InOrder(at)
<1>1. /\ p \in Seq(Events) /\ Range(p) = {buffer[n] : n \in at}
      /\ (\A n, k \in at : buffer[n] = buffer[k] => n = k) => IsInjective(p)
      /\ DOMAIN p = DOMAIN o /\ \A n \in DOMAIN o : p[n] = buffer[o[n]]
  <2>1. at \in SUBSET DOMAIN buffer
    OBVIOUS
  <2> HIDE DEF at
  <2> QED BY <2>1, PickedSeq
<1>2. /\ \A n \in DOMAIN buffer : buffer[n] \in Events
      /\ \A n \in at : /\ buffer[n].item \in Items /\ buffer[n].item \notin Rendered
                       /\ buffer[n] = ItemEvent(buffer[n].item)
  <2>1. \A n \in DOMAIN buffer : buffer[n] \in Events
    BY LenProperties, ElementOfSeq
  <2>2. \A n \in at : buffer[n].kind = "item" /\ n \in DOMAIN buffer /\ buffer[n].item \notin Rendered
    OBVIOUS
  <2> HIDE DEF at
  <2>3. ASSUME NEW n \in at
        PROVE  /\ buffer[n].item \in Items /\ buffer[n].item \notin Rendered
               /\ buffer[n] = ItemEvent(buffer[n].item)
    <3>1. buffer[n] \in Events /\ buffer[n].kind = "item"
      BY <2>1, <2>2
    <3> QED BY <2>2, <3>1, EventTypes
  <2> QED BY <2>1, <2>3
<1>3. Fresh = [n \in DOMAIN p |-> p[n].item]
  BY DEF Fresh, ItemsAt
<1>4. \A i \in Items : (ItemEvent(i) \in Range(buffer) /\ i \notin Rendered)
                       => \E n \in at : buffer[n] = ItemEvent(i)
  <2> SUFFICES ASSUME NEW i \in Items, ItemEvent(i) \in Range(buffer), i \notin Rendered
               PROVE  \E n \in at : buffer[n] = ItemEvent(i)
    OBVIOUS
  <2>1. PICK n \in DOMAIN buffer : buffer[n] = ItemEvent(i)
    BY DEF Range
  <2>2. buffer[n].kind = "item" /\ buffer[n].item = i
    BY <2>1 DEF ItemEvent
  <2> QED BY <2>1, <2>2
<1> HIDE DEF at, p, o
<1>5. /\ Len(p) \in Nat /\ DOMAIN p = 1..Len(p)
      /\ \A n \in DOMAIN p : \E k \in at : p[n] = buffer[k]
  <2>1. Len(p) \in Nat /\ DOMAIN p = 1..Len(p)
    BY <1>1, LenProperties
  <2>2. \A n \in DOMAIN p : p[n] \in Range(p)
    BY DEF Range
  <2> QED BY <1>1, <2>1, <2>2
<1>6. \A n \in DOMAIN p : /\ p[n].item \in Items /\ p[n].item \notin Rendered
                          /\ p[n] = ItemEvent(p[n].item)
                          /\ p[n] \in Range(buffer)
  <2>1. \A k \in at : buffer[k] \in Range(buffer)
    BY DEF at, Range
  <2> QED BY <1>2, <1>5, <2>1
<1>7. Fresh \in Seq(Items)
  <2>1. Fresh \in [1..Len(p) -> Items]
    BY <1>3, <1>5, <1>6
  <2> QED BY <1>5, <2>1, SeqDef
<1>8. Range(Fresh) = Arriving
  <2>1. ASSUME NEW i \in Arriving PROVE \E n \in DOMAIN p : p[n].item = i
    <3>1. i \in Items /\ ItemEvent(i) \in Range(buffer) /\ i \notin Rendered
      BY DEF Arriving
    <3>2. PICK k \in at : buffer[k] = ItemEvent(i)
      BY <1>4, <3>1
    <3>3. PICK n \in DOMAIN p : p[n] = buffer[k]
      <4>1. buffer[k] \in Range(p)
        BY <1>1
      <4> QED BY <4>1 DEF Range
    <3>4. ItemEvent(i).item = i
      BY DEF ItemEvent
    <3> QED BY <3>2, <3>3, <3>4
  <2>2. \A n \in DOMAIN p : p[n].item \in Arriving
    BY <1>6 DEF Arriving
  <2> QED BY <1>3, <2>1, <2>2 DEF Range
<1>9. IsInjective(buffer) => IsInjective(Fresh)
  <2> SUFFICES ASSUME IsInjective(buffer), NEW n \in DOMAIN p, NEW k \in DOMAIN p,
                      p[n].item = p[k].item
               PROVE  n = k
    BY <1>3 DEF IsInjective
  <2>1. at \subseteq DOMAIN buffer
    BY DEF at
  <2>2. IsInjective(p)
    BY <1>1, <2>1 DEF IsInjective
  <2>3. p[n] = p[k]
    BY <1>6
  <2> QED BY <2>2, <2>3 DEF IsInjective
<1> QED BY <1>7, <1>8, <1>9

\* What a frame does to the window.
LEMMA Flushed ==
    ASSUME window \in Seq(Items), buffer \in Seq(Events), cards \in CardStates, Flush
    PROVE  /\ window' \in Seq(Items) /\ buffer' = <<>> /\ cards' \in CardStates
           /\ Range(window') = Rendered \cup Arriving
           /\ (IsInjective(window) /\ IsInjective(buffer)) => IsInjective(window')
           /\ \A e \in Prompts : cards[e] # "none" => cards'[e] = cards[e]
           /\ oldest' = oldest /\ hasMore' = hasMore /\ more' = more
<1>1. /\ Fresh \in Seq(Items) /\ Range(Fresh) = Arriving
      /\ IsInjective(buffer) => IsInjective(Fresh)
  BY FreshItems
<1>2. Rendered \cap Arriving = {}
  BY DEF Arriving
<1>3. window' = window \o Fresh
  BY DEF Flush
<1>4. /\ window' \in Seq(Items) /\ Range(window') = Rendered \cup Arriving
      /\ (IsInjective(window) /\ IsInjective(buffer)) => IsInjective(window')
  BY <1>1, <1>2, <1>3, TwoParts DEF Rendered
<1>5. /\ cards' \in CardStates
      /\ \A e \in Prompts : cards[e] # "none" => cards'[e] = cards[e]
  BY DEF Flush, CardStates
<1> QED BY <1>4, <1>5 DEF Flush

\* The window of a rehydration: the newest page, and of what was shown what
\* came since the reconnect.
LEMMA Rehydrated ==
    ASSUME TypeInv, Rehydrate
    PROVE  /\ window' \in Seq(Items)
           /\ Range(window') = Span(recon.fetch) \cup (Rendered \ recon.pre)
           /\ IsInjective(window) => IsInjective(window')
<1> DEFINE f    == recon.fetch
           at   == {n \in DOMAIN window : window[n] \notin recon.pre}
           live == Picked(window, at)
           rest == Span(f) \ Range(live)
<1>1. window \in Seq(Items) /\ f \in GoodFetch
  BY DEF TypeInv, TypeOK, GoodRecon
<1>2. window' = InOrder(rest) \o live
  BY DEF Rehydrate
<1>3. at \in SUBSET DOMAIN window /\ {window[n] : n \in at} = Rendered \ recon.pre
  BY DEF Rendered, Range
<1> HIDE DEF at
<1>4. /\ live \in Seq(Items) /\ Range(live) = Rendered \ recon.pre
      /\ IsInjective(window) => IsInjective(live)
  BY <1>1, <1>3, PickedSeq DEF IsInjective
<1>5. rest \in SUBSET Items /\ rest \cap Range(live) = {} /\ rest \cup Range(live) = Span(f) \cup Range(live)
  BY <1>1, SpanItems
<1> HIDE DEF rest, live
<1>6. InOrder(rest) \in Seq(Items) /\ Range(InOrder(rest)) = rest /\ IsInjective(InOrder(rest))
  BY <1>5, ItemsInOrder
<1> QED BY <1>2, <1>4, <1>5, <1>6, TwoParts

\* The items of a page in front of the window, or behind it.
LEMMA PageShown ==
    ASSUME window \in Seq(Items), NEW f, f \in GoodFetch \/ f \in GoodPage
    PROVE  /\ InOrder(Unseen(f)) \o window \in Seq(Items)
           /\ window \o InOrder(Unseen(f)) \in Seq(Items)
           /\ Range(InOrder(Unseen(f)) \o window) = Rendered \cup Span(f)
           /\ Range(window \o InOrder(Unseen(f))) = Rendered \cup Span(f)
           /\ IsInjective(window) => /\ IsInjective(InOrder(Unseen(f)) \o window)
                                     /\ IsInjective(window \o InOrder(Unseen(f)))
<1>1. /\ Unseen(f) \in SUBSET Items /\ Unseen(f) \cap Rendered = {}
      /\ Unseen(f) \cup Rendered = Rendered \cup Span(f)
      /\ Rendered \cup Unseen(f) = Rendered \cup Span(f)
  BY SpanItems DEF Unseen
<1> DEFINE new == InOrder(Unseen(f))
<1>2. new \in Seq(Items) /\ Range(new) = Unseen(f) /\ IsInjective(new)
  BY <1>1, ItemsInOrder
<1> HIDE DEF new
<1> QED BY <1>1, <1>2, TwoParts DEF new, Rendered

LEMMA GoodIsTyped ==
    /\ \A bs \in [Binds -> GoodBind] : bs \in [Binds -> BindRecord]
    /\ \A r \in GoodRecon : r \in ReconRecord
<1>1. GoodFetch \subseteq Fetch
  BY DEF GoodFetch
<1>2. GoodBind \subseteq BindRecord
  BY <1>1 DEF GoodBind, BindRecord
<1>3. GoodRecon \subseteq ReconRecord
  BY <1>1 DEF GoodRecon, ReconRecord
<1> QED BY <1>2, <1>3

LEMMA JoinedQuery ==
    ASSUME query \in QueryRecord, NEW w \in Waiters
    PROVE  Joined(w) \in QueryRecord
BY DEF Joined, NoQuery, QueryRecord

LEMMA WaitersAre ==
    /\ \A b \in Binds : Binding(b) \in Waiters
    /\ Reconcile \in Waiters /\ Peek \in Waiters
BY DEF Waiters

LEMMA FewerWait ==
    ASSUME query \in QueryRecord, NEW W
    PROVE  [query EXCEPT !.for = @ \ W] \in QueryRecord
BY DEF QueryRecord

\* What becomes of a call of bindStream.
LEMMA BindUpdates ==
    ASSUME binds \in [Binds -> GoodBind], NEW b \in Binds
    PROVE  /\ \A st \in {"waiting", "done"} :
                [binds EXCEPT ![b] = [st |-> st, fetch |-> NoFetch]] \in [Binds -> GoodBind]
           /\ \A p \in GoodPage :
                [binds EXCEPT ![b].fetch = WithPage(@, p)] \in [Binds -> GoodBind]
<1>1. NoFetch \in GoodFetch
  BY EmptyRecords
<1>2. binds[b].fetch \in GoodFetch /\ binds[b] \in GoodBind
  BY DEF GoodBind
<1>3. \A p \in GoodPage : WithPage(binds[b].fetch, p) \in GoodFetch
  BY <1>2, FilledFetch
<1>4. \A g \in GoodFetch : [binds[b] EXCEPT !.fetch = g] \in GoodBind
  BY <1>2 DEF GoodBind
<1>5. \A st \in {"waiting", "done"} : [st |-> st, fetch |-> NoFetch] \in GoodBind
  BY <1>1 DEF GoodBind
<1>6. ASSUME NEW p \in GoodPage
      PROVE  [binds EXCEPT ![b].fetch = WithPage(@, p)] \in [Binds -> GoodBind]
  <2> DEFINE new == [binds[b] EXCEPT !.fetch = WithPage(binds[b].fetch, p)]
  <2>1. new \in GoodBind
    BY <1>3, <1>4
  <2>2. [binds EXCEPT ![b].fetch = WithPage(@, p)] = [binds EXCEPT ![b] = new]
    OBVIOUS
  <2> HIDE DEF new
  <2> QED BY <2>1, <2>2
<1>7. ASSUME NEW st \in {"waiting", "done"}
      PROVE  [binds EXCEPT ![b] = [st |-> st, fetch |-> NoFetch]] \in [Binds -> GoodBind]
  BY <1>5
<1> QED BY <1>6, <1>7

\* What becomes of the call of reconcileOnReconnect.
LEMMA ReconUpdates ==
    ASSUME recon \in GoodRecon
    PROVE  /\ Voided(recon) \in GoodRecon
           /\ \A g \in GoodFetch : [recon EXCEPT !.fetch = g] \in GoodRecon
           /\ AskOlder => recon' \in GoodRecon
<1>1. \A g \in GoodFetch : [recon EXCEPT !.fetch = g] \in GoodRecon
  BY DEF GoodRecon
<1>2. Voided(recon) \in GoodRecon
  BY DEF GoodRecon, Voided
<1>3. ASSUME AskOlder PROVE recon' \in GoodRecon
  <2> DEFINE g == [recon.fetch EXCEPT !.page = FALSE]
  <2>1. recon.fetch \in GoodFetch /\ recon.pages \in 1..MaxPages
    BY DEF GoodRecon
  <2>2. g \in GoodFetch
    BY <2>1 DEF GoodFetch, Fetch
  <2>3. recon' = IF recon.pages < MaxPages
                 THEN [recon EXCEPT !.pages = recon.pages + 1, !.fetch = g]
                 ELSE [recon EXCEPT !.st = "window", !.fetch = g]
    BY <1>3 DEF AskOlder, GoodRecon
  <2>4. recon.pages < MaxPages => recon.pages + 1 \in 1..MaxPages
    BY <2>1, Bounds
  <2> HIDE DEF g
  <2> QED BY <2>2, <2>3, <2>4 DEF GoodRecon
<1> QED BY <1>1, <1>2, <1>3

\* The four ways a reconciliation goes on when its answers are there.
LEMMA ReconOutcome ==
    ASSUME recon \in GoodRecon, ReconArrives
    PROVE  /\ recon.st # "idle" /\ Fetched(recon.fetch)
           /\ \/ ~recon.valid /\ recon' = NoRecon /\ UNCHANGED shown
              \/ recon.valid /\ recon.st = "window" /\ Rehydrate
              \/ recon.valid /\ recon.st = "pages" /\ Covered /\ Backfill
              \/ recon.valid /\ recon.st = "pages" /\ ~Covered /\ AskOlder /\ UNCHANGED shown
<1>1. recon.valid \in BOOLEAN /\ recon.st \in {"idle", "pages", "window"}
  BY DEF GoodRecon
<1>2. recon.st # "idle" /\ Fetched(recon.fetch)
  BY DEF ReconArrives
<1>3. CASE ~recon.valid
  BY <1>2, <1>3 DEF ReconArrives
<1>4. CASE recon.valid /\ recon.st = "window"
  BY <1>2, <1>4 DEF ReconArrives
<1>5. CASE recon.valid /\ recon.st = "pages" /\ Covered
  BY <1>2, <1>5 DEF ReconArrives
<1>6. CASE recon.valid /\ recon.st = "pages" /\ ~Covered
  BY <1>2, <1>6 DEF ReconArrives
<1> QED BY <1>1, <1>2, <1>3, <1>4, <1>5, <1>6

\* What a received event does to the buffer and to the card it is about.
LEMMA ReceiveOutcome ==
    ASSUME TypeInv, Receive
    PROVE  /\ wire # <<>> /\ wire' = Tail(wire) /\ Head(wire) \in Events
           /\ wire' \in Seq(Events) /\ cards' \in CardStates
           /\ \/ buffer' = buffer
              \/ buffer' = Append(buffer, Head(wire)) /\ ~InBuffer(Head(wire))
           /\ Head(wire).kind = "item" /\ Head(wire).item \notin Rendered
              /\ ~InBuffer(Head(wire)) => buffer' = Append(buffer, Head(wire))
           /\ \A e \in Prompts : cards[e] = "answered" => cards'[e] = "answered"
<1> DEFINE ev == Head(wire)
<1>1. wire \in Seq(Events) /\ wire # <<>> /\ cards \in CardStates
  BY DEF Receive, TypeInv, TypeOK, CardStates
<1>2. ev \in Events /\ Tail(wire) \in Seq(Events) /\ wire' = Tail(wire)
  BY <1>1, HeadTailProperties DEF Receive
<1>3. \/ ev.kind = "item" /\ ev.item \in Items
      \/ ev.kind = "asked" /\ ev.prompt \in Prompts
      \/ ev.kind = "resolved" /\ ev.prompt \in Prompts
  BY <1>2, EventTypes
<1>4. CASE ev.kind = "item"
  <2>1. /\ buffer' = IF ev.item \in Rendered \/ InBuffer(ev) THEN buffer
                     ELSE Append(buffer, ev)
        /\ UNCHANGED cards
    BY <1>4 DEF Receive
  <2> QED BY <1>1, <1>2, <2>1
<1>5. CASE ev.kind = "asked"
  <2>1. /\ buffer' = IF cards[ev.prompt] # "none" \/ InBuffer(ev) THEN buffer
                     ELSE Append(buffer, ev)
        /\ cards' = [cards EXCEPT ![ev.prompt] =
                        IF @ = "elsewhere" /\ ~InBuffer(ev) THEN "pending" ELSE @]
    BY <1>5 DEF Receive
  <2>2. ev.prompt \in Prompts
    BY <1>3, <1>5
  <2> HIDE DEF ev
  <2>3. cards' \in CardStates /\ \A e \in Prompts : cards[e] = "answered" => cards'[e] = "answered"
    BY <1>1, <2>1, <2>2 DEF CardStates
  <2> QED BY <1>1, <1>2, <1>5, <2>1, <2>3 DEF ev
<1>6. CASE ev.kind = "resolved"
  <2>1. /\ cards' = [cards EXCEPT ![ev.prompt] = IF @ = "pending" THEN "elsewhere" ELSE @]
        /\ UNCHANGED buffer
    BY <1>6 DEF Receive
  <2>2. ev.prompt \in Prompts
    BY <1>3, <1>6
  <2> HIDE DEF ev
  <2>3. cards' \in CardStates /\ \A e \in Prompts : cards[e] = "answered" => cards'[e] = "answered"
    BY <1>1, <2>1, <2>2 DEF CardStates
  <2> QED BY <1>1, <1>2, <1>6, <2>1, <2>3 DEF ev
<1> QED BY <1>3, <1>4, <1>5, <1>6

LEMMA InitTyped == Init => TypeInv
<1> SUFFICES ASSUME Init PROVE TypeInv
  OBVIOUS
<1>1. /\ NoFetch \in GoodFetch /\ NoRecon \in GoodRecon /\ NoQuery \in QueryRecord
      /\ NoCards \in CardStates
  BY EmptyRecords
<1>2. binds \in [Binds -> GoodBind]
  BY <1>1 DEF Init, GoodBind
<1>3. recon \in GoodRecon /\ query \in QueryRecord /\ cards \in CardStates
  BY <1>1 DEF Init
<1>4. /\ wire \in Seq(Events) /\ buffer \in Seq(Events) /\ window \in Seq(Items)
  BY EmptySeq DEF Init
<1>5. last \in 0..MaxItems /\ parks \in 0..MaxParks /\ faults \in 0..MaxFaults
      /\ oldest \in 0..MaxItems /\ more \in 0..MaxItems
  BY Bounds DEF Init
<1>6. binds \in [Binds -> BindRecord] /\ recon \in ReconRecord
  BY <1>2, <1>3, GoodIsTyped
<1> QED BY <1>2, <1>3, <1>4, <1>5, <1>6 DEF Init, TypeInv, TypeOK, CardStates

LEMMA StepTyped == TypeInv /\ [Next]_vars => TypeInv'
<1> SUFFICES ASSUME TypeInv, [Next]_vars PROVE TypeInv'
  OBVIOUS
<1>1. CASE CommitItem
  <2>1. last' \in 0..MaxItems /\ last + 1 \in Items
    BY <1>1, Bounds DEF TypeInv, TypeOK, CommitItem, Items
  <2>2. wire' \in Seq(Events)
    BY <1>1, <2>1, EventTypes, Published DEF TypeInv, TypeOK, CommitItem
  <2> QED BY <1>1, <2>1, <2>2 DEF CommitItem, TypeInv, TypeOK, server, shown, conn
<1>2. CASE \E e \in Prompts : Park(e)
  <2> SUFFICES ASSUME NEW e \in Prompts, Park(e)
               PROVE  TypeInv'
    BY <1>2
  <2>1. parks' \in 0..MaxParks
    BY Bounds DEF TypeInv, TypeOK, Park
  <2>2. wire' \in Seq(Events)
    BY EventTypes, Published DEF TypeInv, TypeOK, Park
  <2> QED BY <2>1, <2>2 DEF Park, TypeInv, TypeOK, server, shown, conn
<1>3. CASE \E e \in Prompts : ResolveElsewhere(e, "cleared") \/ ResolveElsewhere(e, "decided")
  <2> SUFFICES ASSUME NEW e \in Prompts, NEW to \in {"cleared", "decided"}, ResolveElsewhere(e, to)
               PROVE  TypeInv'
    BY <1>3
  <2>1. wire' \in Seq(Events)
    BY EventTypes, Published DEF TypeInv, TypeOK, ResolveElsewhere
  <2> QED BY <2>1 DEF ResolveElsewhere, TypeInv, TypeOK, server, shown, conn
<1>4. CASE ServeSession
  <2>1. query' \in QueryRecord
    BY <1>4 DEF TypeInv, TypeOK, ServeSession, QueryRecord, Parked
  <2> QED BY <1>4, <2>1 DEF ServeSession, TypeInv, TypeOK, server, shown, conn
<1>5. CASE DeliverSession
  <2>1. query' \in QueryRecord
    BY <1>5, EmptyRecords DEF DeliverSession
  <2>2. binds' \in [Binds -> GoodBind]
    <3>1. \A b \in Binds : WithSession(binds[b].fetch) \in GoodFetch /\ binds[b] \in GoodBind
      BY FilledFetch DEF TypeInv, TypeOK, GoodBind
    <3>2. \A b \in Binds : [binds[b] EXCEPT !.fetch = WithSession(binds[b].fetch)] \in GoodBind
      BY <3>1 DEF GoodBind
    <3>3. \A b \in Binds : [binds[b] EXCEPT !.fetch = WithSession(@)]
                             = [binds[b] EXCEPT !.fetch = WithSession(binds[b].fetch)]
      BY <3>1 DEF GoodBind
    <3> QED BY <1>5, <3>1, <3>2, <3>3 DEF DeliverSession
  <2>3. recon' \in GoodRecon
    <3>1. recon \in GoodRecon /\ WithSession(recon.fetch) \in GoodFetch
      BY FilledFetch DEF TypeInv, TypeOK, GoodRecon
    <3>2. [recon EXCEPT !.fetch = WithSession(recon.fetch)] \in GoodRecon
      BY <3>1, ReconUpdates
    <3> QED BY <1>5, <3>1, <3>2 DEF DeliverSession
  <2>4. cards' \in CardStates
    BY <1>5 DEF TypeInv, TypeOK, DeliverSession, Flipped, CardStates
  <2>5. binds' \in [Binds -> BindRecord] /\ recon' \in ReconRecord
    BY <2>2, <2>3, GoodIsTyped
  <2> QED BY <1>5, <2>1, <2>2, <2>3, <2>4, <2>5 DEF DeliverSession, CardStates, TypeInv, TypeOK, server, shown, conn
<1>6. CASE FailSession
  <2>1. query' \in QueryRecord
    BY <1>6, EmptyRecords DEF FailSession
  <2>2. binds' \in [Binds -> GoodBind]
    BY <1>6, EmptyRecords DEF FailSession, TypeInv, GoodBind
  <2>3. recon' \in GoodRecon
    BY <1>6, EmptyRecords DEF FailSession, TypeInv
  <2>4. faults' \in 0..MaxFaults
    BY <1>6, Bounds DEF FailSession, TypeInv, TypeOK
  <2>5. binds' \in [Binds -> BindRecord] /\ recon' \in ReconRecord
    BY <2>2, <2>3, GoodIsTyped
  <2> QED BY <1>6, <2>1, <2>2, <2>3, <2>4, <2>5 DEF FailSession, TypeInv, TypeOK, server, shown, conn
<1>7. CASE ServeReconPage
  <2>1. recon' \in GoodRecon
    <3>1. recon \in GoodRecon /\ recon.fetch \in GoodFetch /\ last \in 0..MaxItems
      BY DEF TypeInv, TypeOK, GoodRecon
    <3>2. WithPage(recon.fetch, ReconPage) \in GoodFetch
      BY <3>1, ReconPages, FilledFetch
    <3>3. [recon EXCEPT !.fetch = WithPage(recon.fetch, ReconPage)] \in GoodRecon
      BY <3>1, <3>2, ReconUpdates
    <3> QED BY <1>7, <3>1, <3>3 DEF ServeReconPage
  <2>2. recon' \in ReconRecord
    BY <2>1, GoodIsTyped
  <2> QED BY <1>7, <2>1, <2>2 DEF ServeReconPage, TypeInv, TypeOK, server, shown, conn
<1>8. CASE FailReconPage
  <2>1. query' \in QueryRecord
    BY <1>8, FewerWait DEF FailReconPage, TypeInv, TypeOK
  <2>2. recon' \in GoodRecon
    BY <1>8, EmptyRecords DEF FailReconPage
  <2>3. faults' \in 0..MaxFaults
    BY <1>8, Bounds DEF FailReconPage, TypeInv, TypeOK
  <2>4. recon' \in ReconRecord
    BY <2>2, GoodIsTyped
  <2> QED BY <1>8, <2>1, <2>2, <2>3, <2>4 DEF FailReconPage, TypeInv, TypeOK, server, shown, conn
<1>9. CASE ReconArrives
  <2>1. recon' \in GoodRecon
    <3>1. recon \in GoodRecon
      BY DEF TypeInv
    <3> QED BY <1>9, <3>1, ReconOutcome, EmptyRecords, ReconUpdates DEF Rehydrate, Backfill
  <2>2. recon.fetch \in GoodFetch /\ window \in Seq(Items) /\ cards \in CardStates
    BY DEF TypeInv, TypeOK, GoodRecon, CardStates
  <2>3. \A asks : Reconciled(asks) \in CardStates
    BY <2>2 DEF Reconciled, CardStates
  <2>4. window' \in Seq(Items) /\ cards' \in CardStates /\ oldest' \in 0..MaxItems /\ hasMore' \in BOOLEAN /\ more' \in 0..MaxItems
    <3>1. CASE Rehydrate
      <4>1. oldest' \in 0..MaxItems
        BY <2>2, <3>1, SpanItems DEF Rehydrate
      <4>2. window' \in Seq(Items)
        BY <3>1, Rehydrated
      <4>3. more' \in 0..MaxItems
        BY <3>1, Bounds DEF Rehydrate, NoPage
      <4> QED BY <2>3, <3>1, <4>1, <4>2, <4>3 DEF Rehydrate
    <3>2. CASE Backfill
      <4>1. window' \in Seq(Items)
        BY <2>2, <3>2, PageShown DEF Backfill
      <4> QED BY <2>3, <3>2, <4>1 DEF Backfill, TypeInv, TypeOK
    <3>3. CASE UNCHANGED shown
      BY <2>2, <3>3 DEF shown, TypeInv, TypeOK
    <3> QED BY <1>9, <3>1, <3>2, <3>3, ReconOutcome DEF TypeInv
  <2>5. recon' \in ReconRecord
    BY <2>1, GoodIsTyped
  <2> QED BY <1>9, <2>1, <2>2, <2>3, <2>4, <2>5 DEF ReconArrives, CardStates, TypeInv, TypeOK, server, shown, conn
<1>10. CASE OlderPageArrives
  <2>1. more \in 0..MaxItems /\ more # 0 /\ window \in Seq(Items)
    BY <1>10 DEF TypeInv, TypeOK, OlderPageArrives
  <2>2. /\ Before(more) \in 1..MaxItems /\ more' \in 0..MaxItems
        /\ [lo |-> Before(more), hi |-> more - 1] \in GoodPage
    <3>1. more \in 1..(MaxItems + 1)
      BY <2>1, Bounds
    <3>2. Before(more) \in 1..more
      BY <3>1, OlderPage
    <3>3. /\ Before(more) \in 1..(MaxItems + 1) /\ more - 1 \in 0..MaxItems /\ Before(more) \in 1..MaxItems
          /\ 0 \in 0..MaxItems
      BY <2>1, <3>2, Bounds
    <3>4. more - 1 = 0 \/ Before(more) <= more - 1
      BY <2>1, Bounds DEF Before
    <3> QED BY <1>10, <3>3, <3>4 DEF GoodPage, OlderPageArrives
  <2>3. window' \in Seq(Items)
    BY <1>10, <2>1, <2>2, PageShown DEF OlderPageArrives, Unseen
  <2>4. oldest' \in 0..MaxItems /\ hasMore' \in BOOLEAN
    BY <1>10, <2>2 DEF OlderPageArrives
  <2> QED BY <1>10, <2>1, <2>2, <2>3, <2>4 DEF OlderPageArrives, TypeInv, TypeOK, server, shown, conn
<1>11. CASE OlderPageFails
  <2>1. faults' \in 0..MaxFaults /\ more' \in 0..MaxItems
    BY <1>11, Bounds DEF OlderPageFails, TypeInv, TypeOK
  <2> QED BY <1>11, <2>1 DEF OlderPageFails, TypeInv, TypeOK, server, shown, conn
<1>12. CASE \E b \in Binds : ServeBindPage(b)
  <2> SUFFICES ASSUME NEW b \in Binds, ServeBindPage(b)
               PROVE  TypeInv'
    BY <1>12
  <2>1. binds' \in [Binds -> GoodBind]
    BY NewestPage, BindUpdates DEF ServeBindPage, TypeInv, TypeOK
  <2>2. binds' \in [Binds -> BindRecord]
    BY <2>1, GoodIsTyped
  <2> QED BY <2>1, <2>2 DEF ServeBindPage, TypeInv, TypeOK, server, shown, conn
<1>13. CASE \E b \in Binds : FailBindPage(b)
  <2> SUFFICES ASSUME NEW b \in Binds, FailBindPage(b)
               PROVE  TypeInv'
    BY <1>13
  <2>1. binds' \in [Binds -> GoodBind]
    BY BindUpdates DEF FailBindPage, TypeInv, TypeOK
  <2>2. query' \in QueryRecord
    BY FewerWait DEF FailBindPage, TypeInv, TypeOK
  <2>3. faults' \in 0..MaxFaults
    BY Bounds DEF FailBindPage, TypeInv, TypeOK
  <2>4. binds' \in [Binds -> BindRecord]
    BY <2>1, GoodIsTyped
  <2> QED BY <2>1, <2>2, <2>3, <2>4 DEF FailBindPage, TypeInv, TypeOK, server, shown, conn
<1>14. CASE \E b \in Binds : MergeBind(b)
  <2> SUFFICES ASSUME NEW b \in Binds, MergeBind(b)
               PROVE  TypeInv'
    BY <1>14
  <2>1. binds' \in [Binds -> GoodBind]
    BY BindUpdates DEF MergeBind, TypeInv, TypeOK
  <2>2. recon' \in GoodRecon
    BY ReconUpdates DEF MergeBind, TypeInv, TypeOK
  <2>3. binds[b].fetch \in GoodFetch /\ window \in Seq(Items)
    BY DEF TypeInv, TypeOK, GoodBind
  <2>4. /\ window' \in Seq(Items) /\ cards' \in CardStates /\ oldest' \in 0..MaxItems
        /\ hasMore' \in BOOLEAN /\ more' \in 0..MaxItems
    <3>1. CASE view
      <4>1. window' \in Seq(Items)
        BY <2>3, <3>1, PageShown DEF MergeBind
      <4>2. oldest' \in 0..MaxItems /\ hasMore' \in BOOLEAN
        BY <2>3, <3>1, SpanItems DEF MergeBind
      <4>3. more' \in 0..MaxItems
        BY <3>1, Bounds DEF MergeBind, NoPage
      <4>4. cards' \in CardStates
        BY <3>1 DEF MergeBind, CardStates, TypeInv, TypeOK
      <4> QED BY <4>1, <4>2, <4>3, <4>4
    <3>2. CASE ~view
      BY <3>2 DEF MergeBind, shown, TypeInv, TypeOK, CardStates
    <3> QED BY <3>1, <3>2
  <2>5. binds' \in [Binds -> BindRecord] /\ recon' \in ReconRecord
    BY <2>1, <2>2, GoodIsTyped
  <2> QED BY <2>1, <2>2, <2>3, <2>4, <2>5 DEF MergeBind, CardStates, TypeInv, TypeOK, server, shown, conn
<1>15. CASE \E e \in Prompts : VerdictDelivered(e)
  <2> SUFFICES ASSUME NEW e \in Prompts, VerdictDelivered(e)
               PROVE  TypeInv'
    BY <1>15
  <2>1. wire' \in Seq(Events)
    BY EventTypes, Published DEF VerdictDelivered, TakeVerdict, TypeInv, TypeOK
  <2> QED BY <2>1 DEF VerdictDelivered, TakeVerdict, TypeInv, TypeOK, server, shown, conn
<1>16. CASE \E e \in Prompts : \E r \in BOOLEAN : VerdictFails(e, r)
  <2> SUFFICES ASSUME NEW e \in Prompts, NEW r \in BOOLEAN, VerdictFails(e, r)
               PROVE  TypeInv'
    BY <1>16
  <2>1. /\ wire' \in Seq(Events) /\ last' = last /\ parks' = parks
        /\ prompts' \in [Prompts -> {"new", "parked", "cleared", "decided"}]
    <3>1. CASE r
      BY <3>1, EventTypes, Published DEF VerdictFails, TakeVerdict, TypeInv, TypeOK
    <3>2. CASE ~r
      BY <3>2 DEF VerdictFails, TypeInv, TypeOK, server
    <3> QED BY <3>1, <3>2
  <2>2. faults' \in 0..MaxFaults
    BY Bounds DEF VerdictFails, TypeInv, TypeOK
  <2>3. cards' \in CardStates
    BY DEF VerdictFails, TypeInv, TypeOK, CardStates
  <2> QED BY <2>1, <2>2, <2>3 DEF VerdictFails, CardStates, TypeInv, TypeOK, server, shown, conn
<1>17. CASE Open
  <2>1. wire' \in Seq(Events)
    BY <1>17, EmptySeq DEF Open
  <2>2. query' \in QueryRecord
    BY <1>17, WaitersAre, JoinedQuery DEF Open, TypeInv, TypeOK
  <2>3. recon' \in GoodRecon
    <3>1. Rendered \in SUBSET Items /\ CardsIn("pending") \in SUBSET Prompts
          /\ CardsIn("elsewhere") \in SUBSET Prompts
      BY WindowItems DEF TypeInv, TypeOK, CardsIn
    <3> QED BY <1>17, <3>1, EmptyRecords DEF Open, TypeInv, GoodRecon
  <2>4. recon' \in ReconRecord
    BY <2>3, GoodIsTyped
  <2> QED BY <1>17, <2>1, <2>2, <2>3, <2>4 DEF Open, TypeInv, TypeOK, server, shown, conn
<1>18. CASE Refuse
  <2>1. faults' \in 0..MaxFaults
    BY <1>18, Bounds DEF Refuse, TypeInv, TypeOK
  <2> QED BY <1>18, <2>1 DEF Refuse, TypeInv, TypeOK, server, shown, conn
<1>19. CASE Receive
  <2>1. /\ wire' \in Seq(Events) /\ cards' \in CardStates /\ Head(wire) \in Events
        /\ buffer' = buffer \/ buffer' = Append(buffer, Head(wire))
    BY <1>19, ReceiveOutcome
  <2>2. buffer \in Seq(Events)
    BY DEF TypeInv, TypeOK
  <2>3. Append(buffer, Head(wire)) \in Seq(Events)
    BY <2>1, <2>2, AppendProperties
  <2>4. buffer' \in Seq(Events)
    BY <2>1, <2>2, <2>3
  <2> QED BY <1>19, <2>1, <2>2, <2>3, <2>4 DEF Receive, CardStates, TypeInv, TypeOK, server, shown, conn
<1>20. CASE Frame
  <2>1. /\ window' \in Seq(Items) /\ buffer' \in Seq(Events) /\ cards' \in CardStates
        /\ oldest' = oldest /\ hasMore' = hasMore /\ more' = more
    BY <1>20, Flushed, EmptySeq DEF Frame, TypeInv, TypeOK, CardStates
  <2> QED BY <1>20, <2>1 DEF Frame, CardStates, TypeInv, TypeOK, server, shown, conn
<1>21. CASE Drop
  <2>1. /\ window' \in Seq(Items) /\ buffer' \in Seq(Events) /\ cards' \in CardStates
        /\ oldest' = oldest /\ hasMore' = hasMore /\ more' = more
    BY <1>21, Flushed, EmptySeq DEF Drop, TypeInv, TypeOK, CardStates
  <2>2. wire' \in Seq(Events)
    BY <1>21, EmptySeq DEF Drop
  <2> QED BY <1>21, <2>1, <2>2 DEF Drop, CardStates, TypeInv, TypeOK, server, shown, conn
<1>22. CASE ServerCloses
  <2>1. /\ window' \in Seq(Items) /\ buffer' \in Seq(Events) /\ cards' \in CardStates
        /\ oldest' = oldest /\ hasMore' = hasMore /\ more' = more
    BY <1>22, Flushed, EmptySeq DEF ServerCloses, TypeInv, TypeOK, CardStates
  <2> QED BY <1>22, <2>1 DEF ServerCloses, CardStates, TypeInv, TypeOK, server, shown, conn
<1>23. CASE LoopGoesOn
  <2> QED BY <1>23 DEF LoopGoesOn, TypeInv, TypeOK, server, shown, conn
<1>24. CASE SwitchTo
  <2>1. PICK b \in Binds : StartBind(b)
    BY <1>24 DEF SwitchTo
  <2>2. binds' \in [Binds -> GoodBind]
    BY <2>1, BindUpdates DEF StartBind, TypeInv
  <2>3. query' \in QueryRecord
    BY <2>1, WaitersAre, JoinedQuery DEF StartBind, TypeInv, TypeOK
  <2>4. link' = "opening" /\ connected' = FALSE
    BY <2>1 DEF StartBind
  <2>5. binds' \in [Binds -> BindRecord]
    BY <2>2, GoodIsTyped
  <2> QED BY <1>24, <2>1, <2>2, <2>3, <2>4, <2>5 DEF SwitchTo, TypeInv, TypeOK, server, shown, conn
<1>25. CASE Rebind
  <2>1. PICK b \in Binds : StartBind(b)
    BY <1>25 DEF Rebind
  <2>2. binds' \in [Binds -> GoodBind]
    BY <2>1, BindUpdates DEF StartBind, TypeInv
  <2>3. query' \in QueryRecord
    BY <2>1, WaitersAre, JoinedQuery DEF StartBind, TypeInv, TypeOK
  <2>4. link' = "opening" /\ connected' = FALSE
    BY <2>1 DEF StartBind
  <2>5. binds' \in [Binds -> BindRecord]
    BY <2>2, GoodIsTyped
  <2> QED BY <1>25, <2>1, <2>2, <2>3, <2>4, <2>5 DEF Rebind, TypeInv, TypeOK, server, shown, conn
<1>26. CASE SwitchAway
  <2>1. wire' \in Seq(Events) /\ window' \in Seq(Items) /\ buffer' \in Seq(Events)
    BY <1>26, EmptySeq DEF SwitchAway
  <2>2. recon' \in GoodRecon /\ cards' \in CardStates
    BY <1>26, EmptyRecords DEF SwitchAway
  <2>3. query' \in QueryRecord
    BY <1>26, FewerWait DEF SwitchAway, TypeInv, TypeOK
  <2>4. oldest' \in 0..MaxItems /\ more' \in 0..MaxItems
    BY <1>26, Bounds DEF SwitchAway, NoPage
  <2>5. recon' \in ReconRecord
    BY <2>2, GoodIsTyped
  <2> QED BY <1>26, <2>1, <2>2, <2>3, <2>4, <2>5 DEF SwitchAway, CardStates, TypeInv, TypeOK, server, shown, conn
<1>27. CASE LoadMoreHistory
  <2> QED BY <1>27 DEF LoadMoreHistory, TypeInv, TypeOK, server, shown, conn
<1>28. CASE TabBecomesVisible
  <2>1. query' \in QueryRecord
    BY <1>28, WaitersAre, JoinedQuery DEF TabBecomesVisible, TypeInv, TypeOK
  <2> QED BY <1>28, <2>1 DEF TabBecomesVisible, TypeInv, TypeOK, server, shown, conn
<1>29. CASE \E e \in Prompts : SubmitApproval(e)
  <2> SUFFICES ASSUME NEW e \in Prompts, SubmitApproval(e)
               PROVE  TypeInv'
    BY <1>29
  <2> QED BY DEF SubmitApproval, TypeInv, TypeOK, server, shown, conn
<1>30. CASE UNCHANGED vars
  BY <1>30 DEF vars, TypeInv, TypeOK, server, shown, conn
<1> QED BY <1>1, <1>2, <1>3, <1>4, <1>5, <1>6, <1>7, <1>8, <1>9, <1>10, <1>11, <1>12, <1>13, <1>14, <1>15, <1>16, <1>17, <1>18, <1>19, <1>20, <1>21, <1>22, <1>23, <1>24, <1>25, <1>26, <1>27, <1>28, <1>29, <1>30
     DEF Next, Server, Requests, Pump, User

\* The window, its cursors, the buffers and the requests of the client keep
\* their types, whatever is answered when (chatStore.ts).
THEOREM Typing == Spec => []TypeOK
<1>1. Init => TypeInv
  BY InitTyped
<1>2. TypeInv /\ [Next]_vars => TypeInv'
  BY StepTyped
<1>3. TypeInv => TypeOK
  BY DEF TypeInv
<1> QED BY <1>1, <1>2, <1>3, PTL DEF Spec

-----------------------------------------------------------------------------
(* The page scroll-up waits for.                                           *)

LEMMA MorePage ==
    ASSUME TypeInv, more # 0
    PROVE  [lo |-> Before(more), hi |-> more - 1] \in GoodPage
<1>1. more \in 1..(MaxItems + 1)
  BY Bounds DEF TypeInv, TypeOK
<1>2. more \in 1..MaxItems
  BY Bounds DEF TypeInv, TypeOK
<1>3. Before(more) \in 1..more
  BY <1>1, OlderPage
<1>4. /\ Before(more) \in 1..(MaxItems + 1) /\ more - 1 \in 0..MaxItems
      /\ more - 1 = 0 \/ Before(more) <= more - 1
  BY <1>2, <1>3, Bounds DEF Before
<1> QED BY <1>4 DEF GoodPage

-----------------------------------------------------------------------------
(* No item is shown twice: neither the window nor the buffer holds an item *)
(* twice, and whatever enters the window is compared with it first.        *)

WindowInv == IsInjective(window) /\ IsInjective(buffer)

LEMMA AppendDistinct ==
    ASSUME NEW T, NEW s \in Seq(T), NEW x \in T, x \notin Range(s), IsInjective(s)
    PROVE  IsInjective(Append(s, x))
<1> DEFINE c == Append(s, x)
           n == Len(s)
<1>1. /\ n \in Nat /\ DOMAIN s = 1..n /\ c \in Seq(T) /\ Len(c) = n + 1
      /\ \A i \in 1..n : c[i] = s[i]
      /\ c[n + 1] = x
  BY AppendProperties, LenProperties
<1> HIDE DEF c, n
<1>2. DOMAIN c = 1..(n + 1)
  BY <1>1, LenProperties
<1>3. \A i \in 1..(n + 1) : i \in 1..n \/ i = n + 1
  BY <1>1
<1>4. \A i \in 1..n : s[i] # x
  BY <1>1 DEF Range
<1>5. \A i, j \in 1..n : s[i] = s[j] => i = j
  BY <1>1 DEF IsInjective
<1>6. \A i, j \in 1..(n + 1) : c[i] = c[j] => i = j
  BY <1>1, <1>3, <1>4, <1>5
<1>7. IsInjective(c)
  BY <1>2, <1>6 DEF IsInjective
<1> QED BY <1>7 DEF c

LEMMA EmptyInjective == IsInjective(<<>>)
<1>1. DOMAIN <<>> = {}
  BY EmptySeq
<1> QED BY <1>1 DEF IsInjective

\* The steps that change neither the window nor the buffer.
LEMMA QuietSteps ==
    ASSUME [Next]_vars,
           ~ReconArrives, ~OlderPageArrives, \A b \in Binds : ~MergeBind(b),
           ~Receive, ~Frame, ~Drop, ~ServerCloses, ~SwitchAway
    PROVE  UNCHANGED <<window, buffer>>
<1>1. CASE Server
  BY <1>1 DEF Server, CommitItem, Park, ResolveElsewhere, shown
<1>2. CASE Requests
  BY <1>2 DEF Requests, ServeSession, DeliverSession, FailSession, ServeReconPage, FailReconPage,
              OlderPageFails, ServeBindPage, FailBindPage, VerdictDelivered, VerdictFails, shown
<1>3. CASE Pump
  BY <1>3 DEF Pump, Open, Refuse, LoopGoesOn, shown
<1>4. CASE User
  BY <1>4 DEF User, SwitchTo, Rebind, LoadMoreHistory, TabBecomesVisible, SubmitApproval, shown
<1>5. CASE UNCHANGED vars
  BY <1>5 DEF vars, shown
<1> QED BY <1>1, <1>2, <1>3, <1>4, <1>5 DEF Next

LEMMA WindowStep == TypeInv /\ WindowInv /\ [Next]_vars => WindowInv'
<1> SUFFICES ASSUME TypeInv, WindowInv, [Next]_vars PROVE WindowInv'
  OBVIOUS
<1>1. /\ window \in Seq(Items) /\ buffer \in Seq(Events) /\ cards \in CardStates
      /\ recon \in GoodRecon /\ recon.fetch \in GoodFetch
      /\ IsInjective(window) /\ IsInjective(buffer)
  BY DEF TypeInv, TypeOK, WindowInv, CardStates, GoodRecon
<1>2. CASE ReconArrives
  <2>1. buffer' = buffer
    BY <1>2 DEF ReconArrives
  <2>2. CASE Rehydrate
    BY <1>1, <2>1, <2>2, Rehydrated DEF WindowInv
  <2>3. CASE Backfill
    BY <1>1, <2>1, <2>3, PageShown DEF WindowInv, Backfill
  <2>4. CASE UNCHANGED shown
    BY <1>1, <2>1, <2>4 DEF WindowInv, shown
  <2> QED BY <1>1, <1>2, <2>2, <2>3, <2>4, ReconOutcome
<1>3. CASE OlderPageArrives
  <2> DEFINE page == [lo |-> Before(more), hi |-> more - 1]
  <2>1. page \in GoodPage
    BY <1>3, MorePage DEF OlderPageArrives
  <2>2. window' = InOrder(Unseen(page)) \o window /\ buffer' = buffer
    BY <1>3 DEF OlderPageArrives, Unseen
  <2> HIDE DEF page
  <2> QED BY <1>1, <2>1, <2>2, PageShown DEF WindowInv
<1>4. ASSUME NEW b \in Binds, MergeBind(b) PROVE WindowInv'
  <2>1. binds[b].fetch \in GoodFetch /\ buffer' = buffer
    BY <1>4 DEF MergeBind, TypeInv, GoodBind
  <2>2. CASE view
    <3>1. window' = InOrder(Unseen(binds[b].fetch)) \o window
      BY <1>4, <2>2 DEF MergeBind
    <3> QED BY <1>1, <2>1, <3>1, PageShown DEF WindowInv
  <2>3. CASE ~view
    BY <1>1, <1>4, <2>1, <2>3 DEF MergeBind, WindowInv, shown
  <2> QED BY <2>2, <2>3
<1>5. CASE Receive
  <2>1. window' = window
    BY <1>5 DEF Receive
  <2>2. /\ Head(wire) \in Events
        /\ \/ buffer' = buffer
           \/ buffer' = Append(buffer, Head(wire)) /\ Head(wire) \notin Range(buffer)
    BY <1>5, ReceiveOutcome DEF InBuffer
  <2>4. Head(wire) \notin Range(buffer) => IsInjective(Append(buffer, Head(wire)))
    BY <1>1, <2>2, AppendDistinct
  <2>3. IsInjective(buffer')
    BY <1>1, <2>2, <2>4, Zenon
  <2> QED BY <1>1, <2>1, <2>3 DEF WindowInv
<1>6. CASE Frame \/ Drop \/ ServerCloses
  <2>1. Flush
    BY <1>6 DEF Frame, Drop, ServerCloses
  <2> QED BY <1>1, <2>1, Flushed, EmptyInjective DEF WindowInv
<1>7. CASE SwitchAway
  BY <1>7, EmptyInjective DEF SwitchAway, WindowInv
<1>8. CASE UNCHANGED <<window, buffer>>
  BY <1>1, <1>8 DEF WindowInv
<1> QED BY <1>2, <1>3, <1>4, <1>5, <1>6, <1>7, <1>8, QuietSteps

\* No item is shown twice, whichever of the pump, its buffer, a binding, a
\* reconciliation and scroll-up brings it first (chatStore.ts, flush,
\* bindStream, reconcileOnReconnect, loadMoreHistory).
THEOREM ShownOnce == Spec => []EachItemOnce
<1>1. Init => WindowInv
  BY EmptyInjective DEF Init, WindowInv
<1>2. WindowInv => EachItemOnce
  BY DEF WindowInv, EachItemOnce
<1> QED BY InitTyped, StepTyped, WindowStep, <1>1, <1>2, PTL DEF Spec

-----------------------------------------------------------------------------
(* Scroll-up: while a page is awaited the cursor has not moved, for every  *)
(* step that moves it voids the page.                                      *)

MoreInv == more # 0 => more = oldest

LEMMA MoreStep == TypeInv /\ MoreInv /\ [Next]_vars => MoreInv'
<1> SUFFICES ASSUME TypeInv, MoreInv, [Next]_vars PROVE MoreInv'
  OBVIOUS
<1>1. CASE ReconArrives
  <2>1. recon \in GoodRecon
    BY DEF TypeInv
  <2> QED BY <1>1, <2>1, ReconOutcome DEF MoreInv, Rehydrate, Backfill, NoPage, shown
<1>2. ASSUME NEW b \in Binds, MergeBind(b) PROVE MoreInv'
  BY <1>2 DEF MergeBind, MoreInv, NoPage, shown
<1>3. CASE OlderPageArrives \/ OlderPageFails \/ LoadMoreHistory \/ SwitchAway
  BY <1>3 DEF OlderPageArrives, OlderPageFails, LoadMoreHistory, SwitchAway, MoreInv, NoPage
<1>4. CASE Frame \/ Drop \/ ServerCloses
  BY <1>4 DEF Frame, Drop, ServerCloses, Flush, MoreInv
<1>5. CASE UNCHANGED <<more, oldest>>
  BY <1>5 DEF MoreInv
<1>6. CASE Server
  BY <1>5, <1>6 DEF Server, CommitItem, Park, ResolveElsewhere, shown
<1>7. CASE Requests
  BY <1>1, <1>2, <1>3, <1>5, <1>7
     DEF Requests, ServeSession, DeliverSession, FailSession, ServeReconPage, FailReconPage,
         ServeBindPage, FailBindPage, VerdictDelivered, VerdictFails, shown
<1>8. CASE Pump
  BY <1>4, <1>5, <1>8 DEF Pump, Open, Refuse, Receive, LoopGoesOn, shown
<1>9. CASE User
  BY <1>3, <1>5, <1>9 DEF User, SwitchTo, Rebind, TabBecomesVisible, SubmitApproval, shown
<1>10. CASE UNCHANGED vars
  BY <1>5, <1>10 DEF vars, shown
<1> QED BY <1>6, <1>7, <1>8, <1>9, <1>10 DEF Next

LEMMA ScrollStep ==
    TypeInv /\ MoreInv => (OlderPageArrives => oldest'..(oldest - 1) \subseteq Range(window'))
<1> SUFFICES ASSUME TypeInv, MoreInv, OlderPageArrives
             PROVE  oldest'..(oldest - 1) \subseteq Range(window')
  OBVIOUS
<1> DEFINE page == [lo |-> Before(more), hi |-> more - 1]
<1>1. page \in GoodPage
  BY MorePage DEF OlderPageArrives
<1>2. window' = InOrder(Unseen(page)) \o window /\ window \in Seq(Items)
  BY DEF OlderPageArrives, Unseen, TypeInv, TypeOK
<1>3. oldest' = Before(more) /\ oldest = more
  BY DEF OlderPageArrives, MoreInv
<1>4. Span(page) = Before(more)..(more - 1)
  BY DEF Span
<1> HIDE DEF page
<1>5. Range(window') = Rendered \cup Span(page)
  BY <1>1, <1>2, PageShown
<1> QED BY <1>3, <1>4, <1>5

\* Scroll-up never moves the cursor past items it does not show
\* (chatStore.ts, loadMoreHistory and historyGeneration).
THEOREM ScrollUpIsClosed == Spec => ScrollUpLeavesNoGap
<1>1. Init => MoreInv
  BY DEF Init, MoreInv
<1> DEFINE Step == OlderPageArrives => oldest'..(oldest - 1) \subseteq Range(window')
<1>2. TypeInv /\ MoreInv /\ [Next]_vars => [Step]_vars
  BY ScrollStep
<1> QED BY InitTyped, StepTyped, MoreStep, <1>1, <1>2, PTL DEF Spec, ScrollUpLeavesNoGap

-----------------------------------------------------------------------------
(* Reconnects.  A reconciliation runs beside a pump that was open when it  *)
(* started, and from the moment its first page is served every later item  *)
(* is shown or on its way.                                                 *)

LinkInv == /\ ~view => link = "off"
           /\ link \in {"off", "opening"} => recon.st = "idle"

Walking == /\ recon.st # "idle" /\ recon.valid /\ link = "up"
           /\ recon.fetch.page \/ (recon.st = "pages" /\ recon.pages > 1)

GapInv == Walking => \A i \in 1..last : i > recon.fetch.hi => i \in Rendered \cup Coming

\* The fields of a reconciliation a step leaves alone.
LEMMA ReconFields ==
    ASSUME recon \in GoodRecon
    PROVE  /\ \A g \in GoodFetch :
                /\ [recon EXCEPT !.fetch = g].st = recon.st
                /\ [recon EXCEPT !.fetch = g].valid = recon.valid
                /\ [recon EXCEPT !.fetch = g].pages = recon.pages
                /\ [recon EXCEPT !.fetch = g].fetch = g
           /\ Voided(recon).st = recon.st /\ Voided(recon).valid = FALSE
           /\ (AskOlder /\ recon.st # "idle")
              => recon'.fetch.hi = recon.fetch.hi /\ recon'.st # "idle"
           /\ NoRecon.st = "idle"
<1>1. /\ \A g \in GoodFetch :
                /\ [recon EXCEPT !.fetch = g].st = recon.st
                /\ [recon EXCEPT !.fetch = g].valid = recon.valid
                /\ [recon EXCEPT !.fetch = g].pages = recon.pages
                /\ [recon EXCEPT !.fetch = g].fetch = g
      /\ Voided(recon).st = recon.st /\ Voided(recon).valid = FALSE
  BY DEF GoodRecon, Voided
<1>2. ASSUME AskOlder, recon.st # "idle"
      PROVE  recon'.fetch.hi = recon.fetch.hi /\ recon'.st # "idle"
  <2>1. recon.fetch \in Fetch
    BY FilledFetch DEF GoodRecon
  <2> QED BY <1>2, <2>1 DEF AskOlder, GoodRecon, Fetch
<1> QED BY <1>1, <1>2 DEF NoRecon

\* What a step does to the reconciliation.
LEMMA ReconChanges ==
    ASSUME TypeInv, [Next]_vars
    PROVE  \/ recon' = recon
           \/ recon'.st = "idle"
           \/ Open /\ connected /\ recon'.pages = 1 /\ recon'.fetch.page = FALSE
           \/ /\ link' = link /\ recon'.st = recon.st
              /\ \/ ~recon'.valid
                 \/ /\ recon'.valid = recon.valid /\ recon'.pages = recon.pages
                    /\ recon'.fetch.page = recon.fetch.page /\ recon'.fetch.hi = recon.fetch.hi
                 \/ /\ ServeReconPage /\ recon'.valid = recon.valid
                    /\ recon'.fetch.hi = ReconPage.hi
           \/ /\ ReconArrives /\ link' = link /\ recon.fetch.page /\ recon.valid
              /\ recon.st # "idle" /\ recon'.fetch.hi = recon.fetch.hi
<1>1. /\ recon \in GoodRecon /\ recon.fetch \in GoodFetch /\ query \in QueryRecord
      /\ last \in 0..MaxItems
  BY DEF TypeInv, TypeOK, GoodRecon
<1>2. NoRecon.st = "idle"
  BY DEF NoRecon
<1>3. CASE Open
  <2>1. CASE connected
    <3>1. recon' = [NoRecon EXCEPT !.st = "pages", !.pre = Rendered, !.valid = TRUE,
                                   !.prePending = CardsIn("pending"),
                                   !.preResolved = CardsIn("elsewhere")]
      BY <1>3, <2>1 DEF Open
    <3>2. recon'.pages = 1 /\ recon'.fetch.page = FALSE
      BY <3>1 DEF NoRecon, NoFetch
    <3> QED BY <1>3, <2>1, <3>2
  <2>2. CASE ~connected
    BY <1>3, <2>2 DEF Open
  <2> QED BY <2>1, <2>2
<1>4. CASE DeliverSession
  <2>1. /\ WithSession(recon.fetch) \in GoodFetch
        /\ WithSession(recon.fetch).hi = recon.fetch.hi
        /\ WithSession(recon.fetch).page = recon.fetch.page
    BY <1>1, FilledFetch
  <2>2. /\ link' = link
        /\ recon' = recon \/ recon' = [recon EXCEPT !.fetch = WithSession(recon.fetch)]
    BY <1>4 DEF DeliverSession, conn
  <2> QED BY <1>1, <2>1, <2>2, ReconFields
<1>5. CASE ServeReconPage
  <2>1. ReconPage \in GoodPage
    BY <1>1, ReconPages
  <2>2. /\ WithPage(recon.fetch, ReconPage) \in GoodFetch
        /\ WithPage(recon.fetch, ReconPage).hi = ReconPage.hi
    BY <1>1, <2>1, FilledFetch
  <2>3. link' = link /\ recon' = [recon EXCEPT !.fetch = WithPage(recon.fetch, ReconPage)]
    BY <1>5 DEF ServeReconPage, conn
  <2> QED BY <1>1, <1>5, <2>2, <2>3, ReconFields
<1>6. ASSUME NEW b \in Binds, MergeBind(b)
      PROVE  link' = link /\ (recon' = recon \/ recon' = Voided(recon))
  BY <1>6 DEF MergeBind, conn
<1>7. CASE ReconArrives
  <2>1. link' = link /\ recon.fetch.page
    BY <1>7 DEF ReconArrives, Fetched, conn
  <2>2. CASE recon' = NoRecon
    BY <1>2, <2>2
  <2>3. CASE recon.valid /\ recon.st # "idle" /\ AskOlder
    BY <1>1, <1>7, <2>1, <2>3, ReconFields
  <2> QED BY <1>1, <1>7, <2>2, <2>3, ReconOutcome DEF Rehydrate, Backfill
<1>8. CASE recon' = NoRecon
  BY <1>2, <1>8
<1>9. CASE Server
  BY <1>9 DEF Server, CommitItem, Park, ResolveElsewhere
<1>10. CASE Requests
  <2>1. CASE \E b \in Binds : MergeBind(b)
    BY <1>1, <1>6, <2>1, ReconFields
  <2>2. CASE ~\E b \in Binds : MergeBind(b)
    BY <1>4, <1>5, <1>7, <1>8, <1>10, <2>2
       DEF Requests, ServeSession, FailSession, FailReconPage, OlderPageArrives, OlderPageFails,
           ServeBindPage, FailBindPage, VerdictDelivered, VerdictFails
  <2> QED BY <2>1, <2>2
<1>11. CASE Pump
  BY <1>3, <1>11 DEF Pump, Refuse, Receive, Frame, Drop, ServerCloses, LoopGoesOn
<1>12. CASE User
  BY <1>8, <1>12
     DEF User, SwitchTo, Rebind, SwitchAway, LoadMoreHistory, TabBecomesVisible, SubmitApproval
<1>13. CASE UNCHANGED vars
  BY <1>13 DEF vars
<1> QED BY <1>9, <1>10, <1>11, <1>12, <1>13 DEF Next

\* What a step does to the pump.
LEMMA LinkChanges ==
    ASSUME TypeInv, [Next]_vars
    PROVE  \/ link' = link /\ view' = view
           \/ link' = "off" /\ recon' = NoRecon
           \/ link = "opening" /\ link' = "off" /\ recon' = recon /\ view' = view
           \/ link = "opening" /\ link' = "up" /\ view' = view /\ Open
           \/ link = "up" /\ link' \in {"dropped", "ended"} /\ view' = view
           \/ /\ recon.st = "idle" /\ recon' = recon /\ view' = view
              /\ link \in {"dropped", "ended"} /\ link' \in {"opening", "off"}
           \/ ~view /\ view' /\ link' = "opening" /\ recon' = recon
           \/ view /\ view' /\ link = "off" /\ link' = "opening" /\ recon' = recon
<1>1. CASE Server
  BY <1>1 DEF Server, CommitItem, Park, ResolveElsewhere, conn
<1>2. CASE Requests
  BY <1>2
     DEF Requests, ServeSession, DeliverSession, FailSession, ServeReconPage, FailReconPage,
         ReconArrives, OlderPageArrives, OlderPageFails, ServeBindPage, FailBindPage, MergeBind,
         VerdictDelivered, VerdictFails, conn
<1>3. CASE Pump
  <2>1. CASE Receive \/ Frame
    BY <2>1 DEF Receive, Frame, conn
  <2>2. CASE Open \/ Refuse
    BY <2>2 DEF Open, Refuse
  <2>3. CASE Drop \/ ServerCloses
    BY <2>3 DEF Drop, ServerCloses
  <2>4. CASE LoopGoesOn
    BY <2>4 DEF LoopGoesOn
  <2> QED BY <1>3, <2>1, <2>2, <2>3, <2>4 DEF Pump
<1>4. CASE User
  BY <1>4
     DEF User, SwitchTo, Rebind, StartBind, SwitchAway, LoadMoreHistory, TabBecomesVisible,
         SubmitApproval, conn
<1>5. CASE UNCHANGED vars
  BY <1>5 DEF vars, conn
<1> QED BY <1>1, <1>2, <1>3, <1>4, <1>5 DEF Next

LEMMA LinkStep == TypeInv /\ LinkInv /\ [Next]_vars => LinkInv'
<1> SUFFICES ASSUME TypeInv, LinkInv, [Next]_vars PROVE LinkInv'
  OBVIOUS
<1>1. link \in {"off", "opening", "up", "dropped", "ended"}
  BY DEF TypeInv, TypeOK
<1>2. ~view' => link' = "off"
  BY LinkChanges DEF LinkInv
<1>3. CASE recon.st = "idle" /\ link' = link
  <2> SUFFICES ASSUME link \in {"off", "opening"} PROVE recon'.st = "idle"
    BY <1>2, <1>3 DEF LinkInv
  <2>1. ~ReconArrives /\ ~ServeReconPage
    BY <1>3 DEF ReconArrives, ServeReconPage
  <2>2. ~Open
    BY <1>3 DEF Open
  <2> QED BY <1>3, <2>1, <2>2, ReconChanges
<1>4. CASE recon.st # "idle" /\ link' = link
  BY <1>2, <1>4 DEF LinkInv
<1>5. CASE link' # link
  <2>1. NoRecon.st = "idle"
    BY DEF NoRecon
  <2> QED BY <1>1, <1>2, <1>5, <2>1, LinkChanges DEF LinkInv
<1> QED BY <1>3, <1>4, <1>5

LEMMA ComingIs ==
    ASSUME wire \in Seq(Events), buffer \in Seq(Events)
    PROVE  Coming = {i \in Items : ItemEvent(i) \in Range(wire) \cup Range(buffer)}
<1>1. Range(wire \o buffer) = Range(wire) \cup Range(buffer)
  BY RangeConcatenation
<1> QED BY <1>1 DEF Coming

LEMMA HeadAndRest ==
    ASSUME NEW T, NEW s \in Seq(T), s # <<>>
    PROVE  Range(s) \subseteq {Head(s)} \cup Range(Tail(s))
<1>1. /\ Len(s) \in Nat /\ DOMAIN s = 1..Len(s) /\ Tail(s) \in Seq(T)
      /\ Len(Tail(s)) = Len(s) - 1 /\ Head(s) = s[1]
      /\ \A i \in 1..Len(Tail(s)) : Tail(s)[i] = s[i + 1]
  BY LenProperties, HeadTailProperties
<1>2. DOMAIN Tail(s) = 1..(Len(s) - 1)
  <2> DEFINE t == Tail(s)
  <2>1. t \in Seq(T) /\ Len(t) = Len(s) - 1
    BY <1>1
  <2> HIDE DEF t
  <2>2. DOMAIN t = 1..(Len(s) - 1)
    BY <2>1, LenProperties
  <2> QED BY <2>2 DEF t
<1> SUFFICES ASSUME NEW n \in 1..Len(s) PROVE s[n] \in {Head(s)} \cup Range(Tail(s))
  BY <1>1 DEF Range
<1>3. CASE n = 1
  BY <1>1, <1>3
<1>4. CASE n # 1
  <2>1. n - 1 \in 1..(Len(s) - 1) /\ (n - 1) + 1 = n
    BY <1>1, <1>4
  <2>2. Tail(s)[n - 1] = s[n]
    BY <1>1, <2>1
  <2> QED BY <1>2, <2>1, <2>2 DEF Range
<1> QED BY <1>3, <1>4

LEMMA AppendRange ==
    ASSUME NEW T, NEW s \in Seq(T), NEW x \in T
    PROVE  Range(Append(s, x)) = Range(s) \cup {x}
<1>1. Append(s, x) = s \o <<x>> /\ <<x>> \in Seq(T)
  BY AppendIsConcat
<1>2. Range(s \o <<x>>) = Range(s) \cup Range(<<x>>)
  BY <1>1, RangeConcatenation
<1>3. Range(<<x>>) = {x}
  BY DEF Range
<1> QED BY <1>1, <1>2, <1>3

\* Nothing is taken from a connection that lasts but by receiving it.
LEMMA WireGrows ==
    ASSUME TypeInv, [Next]_vars, link = "up", link' = "up", ~Receive
    PROVE  Range(wire) \subseteq Range(wire')
<1>1. wire \in Seq(Events) /\ last \in 0..MaxItems
  BY DEF TypeInv, TypeOK
<1>2. ASSUME NEW ev \in Events, Publish(ev) PROVE Range(wire) \subseteq Range(wire')
  BY <1>1, <1>2, Published
<1>3. CASE CommitItem
  <2>1. last + 1 \in Items
    BY <1>1, <1>3, Bounds DEF CommitItem, Items
  <2> QED BY <1>2, <1>3, <2>1, EventTypes DEF CommitItem
<1>4. ASSUME NEW e \in Prompts, Park(e) \/ TakeVerdict(e) \/ \E to : ResolveElsewhere(e, to)
      PROVE  Range(wire) \subseteq Range(wire')
  BY <1>2, <1>4, EventTypes DEF Park, TakeVerdict, ResolveElsewhere
<1>5. CASE wire' = wire
  BY <1>5
<1>6. CASE Server
  BY <1>3, <1>4, <1>6 DEF Server
<1>7. CASE Requests
  <2>1. CASE \E e \in Prompts : VerdictDelivered(e)
    BY <1>4, <2>1 DEF VerdictDelivered
  <2>2. CASE \E e \in Prompts : \E r \in BOOLEAN : VerdictFails(e, r)
    BY <1>4, <1>5, <2>2 DEF VerdictFails
  <2>3. CASE \E b \in Binds : ServeBindPage(b) \/ FailBindPage(b) \/ MergeBind(b)
    BY <1>5, <2>3 DEF ServeBindPage, FailBindPage, MergeBind
  <2>4. CASE \/ ServeSession \/ DeliverSession \/ FailSession \/ ServeReconPage
             \/ FailReconPage \/ ReconArrives \/ OlderPageArrives \/ OlderPageFails
    BY <1>5, <2>4 DEF ServeSession, DeliverSession, FailSession, ServeReconPage, FailReconPage,
                      ReconArrives, OlderPageArrives, OlderPageFails
  <2> QED BY <1>7, <2>1, <2>2, <2>3, <2>4 DEF Requests
<1>8. CASE Pump
  BY <1>5, <1>8 DEF Pump, Open, Refuse, Frame, Drop, ServerCloses, LoopGoesOn
<1>9. CASE User
  BY <1>5, <1>9 DEF User, SwitchTo, Rebind, SwitchAway, LoadMoreHistory, TabBecomesVisible,
                    SubmitApproval
<1>10. CASE UNCHANGED vars
  BY <1>5, <1>10 DEF vars
<1> QED BY <1>6, <1>7, <1>8, <1>9, <1>10 DEF Next

\* What is shown or on its way stays so as long as the connection lasts and
\* the window is not made anew.
LEMMA KnownStays ==
    ASSUME TypeInv, TypeInv', [Next]_vars, link = "up", link' = "up",
           ~(ReconArrives /\ Rehydrate)
    PROVE  Rendered \cup Coming \subseteq Range(window') \cup Coming'
<1>1. /\ window \in Seq(Items) /\ wire \in Seq(Events) /\ buffer \in Seq(Events)
      /\ wire' \in Seq(Events) /\ buffer' \in Seq(Events) /\ cards \in CardStates
      /\ recon \in GoodRecon /\ recon.fetch \in GoodFetch
  BY DEF TypeInv, TypeOK, CardStates, GoodRecon
<1> DEFINE held == {i \in Items : ItemEvent(i) \in Range(wire) \cup Range(buffer)}
           next == {i \in Items : ItemEvent(i) \in Range(wire') \cup Range(buffer')}
<1>2. Coming = held
  BY <1>1, ComingIs
<1>3. Coming' = next
  <2>1. Range(wire' \o buffer') = Range(wire') \cup Range(buffer')
    BY <1>1, RangeConcatenation
  <2> QED BY <2>1 DEF Coming
<1> DEFINE Stays == Rendered \cup held \subseteq Range(window') \cup next
<1>4. CASE Receive
  <2>1. window' = window
    BY <1>4 DEF Receive
  <2> DEFINE ev == Head(wire)
  <2>2. /\ ev \in Events /\ wire # <<>> /\ wire' = Tail(wire)
        /\ buffer' = buffer \/ buffer' = Append(buffer, ev)
        /\ ev.kind = "item" /\ ev.item \notin Rendered
              /\ ~InBuffer(ev) => buffer' = Append(buffer, ev)
    BY <1>4, ReceiveOutcome
  <2>3. Range(wire) \subseteq {ev} \cup Range(wire')
    BY <1>1, <2>2, HeadAndRest
  <2> HIDE DEF ev
  <2>4. Range(Append(buffer, ev)) = Range(buffer) \cup {ev}
    BY <1>1, <2>2, AppendRange
  <2>5. ASSUME NEW i \in Items, ev = ItemEvent(i)
        PROVE  i \in Rendered \/ ev \in Range(buffer')
    <3>1. ev.kind = "item" /\ ev.item = i
      BY <2>5 DEF ItemEvent
    <3> QED BY <2>2, <2>4, <3>1 DEF InBuffer
  <2>6. Stays
    BY <2>1, <2>2, <2>3, <2>4, <2>5 DEF Rendered
  <2> QED BY <1>2, <1>3, <2>6
<1>5. CASE Frame
  <2>1. Flush /\ wire' = wire
    BY <1>5 DEF Frame
  <2>2. Range(window') = Rendered \cup Arriving
    BY <1>1, <2>1, Flushed
  <2>3. Stays
    BY <2>1, <2>2 DEF Arriving
  <2> QED BY <1>2, <1>3, <2>3
<1>6. ASSUME Rendered \subseteq Range(window'), buffer' = buffer, Range(wire) \subseteq Range(wire')
      PROVE  Rendered \cup Coming \subseteq Range(window') \cup Coming'
  <2>1. Stays
    BY <1>6
  <2> QED BY <1>2, <1>3, <2>1
<1>7. CASE ReconArrives
  <2>1. buffer' = buffer /\ wire' = wire
    BY <1>7 DEF ReconArrives
  <2>2. CASE Backfill
    <3>1. Range(window') = Rendered \cup Span(recon.fetch)
      BY <1>1, <2>2, PageShown DEF Backfill
    <3> QED BY <1>6, <2>1, <3>1
  <2>3. CASE UNCHANGED shown
    BY <1>6, <2>1, <2>3 DEF shown, Rendered
  <2> QED BY <1>1, <1>7, <2>2, <2>3, ReconOutcome
<1>8. CASE OlderPageArrives
  <2> DEFINE page == [lo |-> Before(more), hi |-> more - 1]
  <2>1. page \in GoodPage
    BY <1>8, MorePage DEF OlderPageArrives
  <2>2. window' = InOrder(Unseen(page)) \o window /\ buffer' = buffer /\ wire' = wire
    BY <1>8 DEF OlderPageArrives, Unseen
  <2> HIDE DEF page
  <2>3. Range(window') = Rendered \cup Span(page)
    BY <1>1, <2>1, <2>2, PageShown
  <2> QED BY <1>6, <2>2, <2>3
<1>9. ASSUME NEW b \in Binds, MergeBind(b)
      PROVE  Rendered \cup Coming \subseteq Range(window') \cup Coming'
  <2>1. binds[b].fetch \in GoodFetch /\ buffer' = buffer /\ wire' = wire
    BY <1>9 DEF MergeBind, TypeInv, GoodBind
  <2>2. CASE view
    <3>1. window' = InOrder(Unseen(binds[b].fetch)) \o window
      BY <1>9, <2>2 DEF MergeBind
    <3>2. Range(window') = Rendered \cup Span(binds[b].fetch)
      BY <1>1, <2>1, <3>1, PageShown
    <3> QED BY <1>6, <2>1, <3>2
  <2>3. CASE ~view
    BY <1>6, <1>9, <2>1, <2>3 DEF MergeBind, shown, Rendered
  <2> QED BY <2>2, <2>3
<1>10. ~Drop /\ ~ServerCloses /\ ~SwitchAway
  BY DEF Drop, ServerCloses, SwitchAway
<1>11. CASE UNCHANGED <<window, buffer>> /\ ~Receive
  <2>1. Range(wire) \subseteq Range(wire')
    BY <1>1, <1>11, WireGrows
  <2> QED BY <1>6, <1>11, <2>1 DEF Rendered
<1> QED BY <1>4, <1>5, <1>7, <1>8, <1>9, <1>10, <1>11, QuietSteps

LEMMA GapStep ==
    TypeInv /\ TypeInv' /\ LinkInv /\ GapInv /\ [Next]_vars => GapInv'
<1> SUFFICES ASSUME TypeInv, TypeInv', LinkInv, GapInv, [Next]_vars, Walking',
                    NEW i \in 1..last', i > recon'.fetch.hi
             PROVE  i \in Range(window') \cup Coming'
  BY DEF GapInv, Rendered
<1>1. /\ recon \in GoodRecon /\ recon.pages \in 1..MaxPages /\ last \in 0..MaxItems
      /\ recon.fetch \in GoodFetch /\ recon.st \in {"idle", "pages", "window"}
      /\ link \in {"off", "opening", "up", "dropped", "ended"}
  BY DEF TypeInv, TypeOK, GoodRecon
<1>2. /\ recon'.st # "idle" /\ recon'.valid /\ link' = "up"
      /\ recon'.fetch.page \/ recon'.pages > 1
  BY DEF Walking
<1>3. ~(Open /\ connected /\ recon'.pages = 1 /\ recon'.fetch.page = FALSE)
  BY <1>2
<1>4. link = "up"
  <2>1. NoRecon.st = "idle"
    BY DEF NoRecon
  <2>2. ASSUME Open PROVE FALSE
    <3>1. link = "opening" /\ recon.st = "idle"
      BY <2>2 DEF Open, LinkInv
    <3>2. ~connected => recon' = recon
      BY <2>2 DEF Open
    <3>3. ASSUME connected PROVE recon'.pages = 1 /\ recon'.fetch.page = FALSE
      <4>1. recon' = [NoRecon EXCEPT !.st = "pages", !.pre = Rendered, !.valid = TRUE,
                                     !.prePending = CardsIn("pending"),
                                     !.preResolved = CardsIn("elsewhere")]
        BY <2>2, <3>3 DEF Open
      <4> QED BY <4>1 DEF NoRecon, NoFetch
    <3>4. CASE connected
      <4>1. recon'.pages = 1 /\ ~recon'.fetch.page
        BY <3>3, <3>4, Zenon
      <4>2. ~(1 > 1)
        OBVIOUS
      <4> QED BY <1>2, <4>1, <4>2, Zenon
    <3>5. CASE ~connected
      BY <1>2, <3>1, <3>2, <3>5
    <3> QED BY <3>4, <3>5
  <2> QED BY <1>1, <1>2, <2>1, <2>2, LinkChanges
<1>5. last' = last \/ CommitItem
  BY DEF Next, Server, Requests, Pump, User, Park, ResolveElsewhere, ServeSession,
         DeliverSession, FailSession, ServeReconPage, FailReconPage, ReconArrives,
         OlderPageArrives, OlderPageFails, ServeBindPage, FailBindPage, MergeBind,
         VerdictDelivered, VerdictFails, TakeVerdict, Open, Refuse, Receive, Frame, Drop,
         ServerCloses, LoopGoesOn, SwitchTo, Rebind, SwitchAway, LoadMoreHistory,
         TabBecomesVisible, SubmitApproval, vars, server
<1>6. ~(ReconArrives /\ Rehydrate)
  BY <1>2 DEF Rehydrate, NoRecon
<1>7. Rendered \cup Coming \subseteq Range(window') \cup Coming'
  BY <1>2, <1>4, <1>6, KnownStays
<1>8. CASE i \notin 1..last
  <2>1. CommitItem /\ last' = last + 1 /\ i = last + 1
    BY <1>1, <1>5, <1>8 DEF CommitItem
  <2>2. i \in Items /\ Publish(ItemEvent(i))
    BY <1>1, <2>1, Bounds DEF CommitItem, Items
  <2>3. ItemEvent(i) \in Range(wire') /\ wire' \in Seq(Events) /\ buffer' \in Seq(Events)
    BY <1>4, <2>2, EventTypes, Published DEF TypeInv, TypeOK
  <2>4. Range(wire' \o buffer') = Range(wire') \cup Range(buffer')
    BY <2>3, RangeConcatenation
  <2> QED BY <2>2, <2>3, <2>4 DEF Coming
<1>9. CASE Walking /\ recon'.fetch.hi = recon.fetch.hi /\ i \in 1..last
  BY <1>7, <1>9 DEF GapInv
<1>10. CASE ServeReconPage
  <2>1. recon.st # "idle" /\ last' = last
    BY <1>10 DEF ServeReconPage, server
  <2>2. /\ recon'.st = recon.st /\ recon'.valid = recon.valid /\ recon'.fetch.hi = ReconPage.hi
    <3>1. WithPage(recon.fetch, ReconPage) \in GoodFetch
          /\ WithPage(recon.fetch, ReconPage).hi = ReconPage.hi
      BY <1>1, ReconPages, FilledFetch
    <3>2. recon' = [recon EXCEPT !.fetch = WithPage(recon.fetch, ReconPage)]
      BY <1>10 DEF ServeReconPage
    <3> QED BY <1>1, <3>1, <3>2, ReconFields
  <2>3. CASE ReconPage.hi = last
    BY <1>1, <2>1, <2>2, <2>3
  <2>4. CASE ReconPage.hi # last
    <3>1. ReconPage.hi = recon.fetch.hi /\ recon.st = "pages" /\ recon.pages # 1
      BY <1>1, <2>1, <2>4, ReconPages
    <3>2. recon.pages > 1
      BY <1>1, <3>1, Bounds
    <3> QED BY <1>2, <1>4, <1>9, <2>1, <2>2, <3>1, <3>2 DEF Walking
  <2> QED BY <2>3, <2>4
<1>11. CASE ~ServeReconPage /\ i \in 1..last
  <2>1. CASE recon' = recon
    BY <1>2, <1>4, <1>9, <1>11, <2>1 DEF Walking
  <2>2. CASE /\ recon'.st = recon.st /\ recon'.valid = recon.valid /\ recon'.pages = recon.pages
             /\ recon'.fetch.page = recon.fetch.page /\ recon'.fetch.hi = recon.fetch.hi
    BY <1>2, <1>4, <1>9, <1>11, <2>2 DEF Walking
  <2>3. CASE /\ recon.fetch.page /\ recon.valid /\ recon.st # "idle"
             /\ recon'.fetch.hi = recon.fetch.hi
    BY <1>4, <1>9, <1>11, <2>3 DEF Walking
  <2> QED BY <1>2, <1>3, <1>11, <2>1, <2>2, <2>3, ReconChanges
<1> QED BY <1>8, <1>10, <1>11

\* What the property asks of a reconciliation that ends.
Closes ==
    (ReconArrives /\ recon.valid /\ recon'.st = "idle" /\ link = "up")
    => \A i \in 1..last :
         (i >= oldest' /\ \A j \in recon.pre : i > j) => i \in Range(window') \cup Coming

LEMMA ClosesStep == TypeInv /\ GapInv => Closes
<1> SUFFICES ASSUME TypeInv, GapInv, ReconArrives, recon.valid, recon'.st = "idle", link = "up",
                    NEW i \in 1..last, i >= oldest', \A j \in recon.pre : i > j
             PROVE  i \in Range(window') \cup Coming
  BY DEF Closes
<1> DEFINE f == recon.fetch
<1>1. /\ recon \in GoodRecon /\ f \in GoodFetch /\ window \in Seq(Items) /\ last \in 0..MaxItems
      /\ f.lo \in 1..(MaxItems + 1) /\ f.hi \in 0..MaxItems /\ recon.pre \subseteq Items
  BY DEF TypeInv, TypeOK, GoodRecon, GoodFetch, Fetch
<1>2. recon.st # "idle" /\ f.page
  BY <1>1, ReconOutcome DEF Fetched
<1>3. i > f.hi => i \in Rendered \cup Coming
  BY <1>2 DEF GapInv, Walking
<1>4. i \in Nat /\ i # 0 /\ \A j \in recon.pre : j \in Nat
  BY <1>1, Bounds DEF Items
<1>5. i >= f.lo /\ ~(i > f.hi) => i \in Span(f)
  BY <1>1, <1>4 DEF Span
<1>6. CASE Rehydrate
  <2>1. Range(window') = Span(f) \cup (Rendered \ recon.pre)
    BY <1>6, Rehydrated
  <2>2. i \notin recon.pre
    BY <1>4
  <2>3. oldest' = IF f.hi = 0 THEN 0 ELSE f.lo
    BY <1>6 DEF Rehydrate, Oldest
  <2>4. f.hi # 0 => i >= f.lo
    BY <2>3
  <2>5. f.hi = 0 => i > f.hi
    BY <1>4
  <2> HIDE DEF f
  <2> QED BY <1>3, <1>5, <2>1, <2>2, <2>4, <2>5
<1>7. CASE Covered /\ Backfill
  <2>1. Range(window') = Rendered \cup Span(f)
    BY <1>1, <1>7, PageShown DEF Backfill
  <2>2. i >= f.lo
    <3>1. CASE f.lo = 1
      BY <1>4, <3>1
    <3>2. CASE Span(f) \cap recon.pre # {}
      <4>1. PICK j \in recon.pre : j \in Span(f)
        BY <3>2
      <4>2. j >= f.lo /\ i > j /\ j \in Nat
        BY <1>1, <1>4, <4>1 DEF Span
      <4> QED BY <1>1, <1>4, <4>2
    <3> QED BY <1>7, <3>1, <3>2 DEF Covered
  <2> HIDE DEF f
  <2> QED BY <1>3, <1>5, <2>1, <2>2
<1>8. CASE AskOlder
  BY <1>1, <1>2, <1>8, ReconFields
<1> QED BY <1>1, <1>6, <1>7, <1>8, ReconOutcome

\* A reconciliation that ends well leaves no hole after the items shown
\* before the gap (chatStore.ts, reconcileOnReconnect and
\* rehydrateWindowOnReconnect).
THEOREM GapIsClosed == Spec => ReconnectClosesTheGap
<1>1. Init => LinkInv /\ GapInv
  BY DEF Init, LinkInv, GapInv, Walking, NoRecon
<1>2. TypeInv /\ GapInv /\ [Next]_vars => [Closes]_vars
  BY ClosesStep
<1>3. ReconnectClosesTheGap <=> [][Closes]_vars
  BY DEF ReconnectClosesTheGap, Closes
<1> QED BY InitTyped, StepTyped, LinkStep, GapStep, <1>1, <1>2, <1>3, PTL DEF Spec

-----------------------------------------------------------------------------
(* Verdicts.                                                               *)

Stand == \A e \in posts \cap posts' :
           (view /\ view' /\ cards[e] = "answered") => cards'[e] = "answered"

LEMMA StandStep == TypeInv /\ [Next]_vars => Stand
<1> SUFFICES ASSUME TypeInv, [Next]_vars, NEW e \in posts, e \in posts', view, view',
                    cards[e] = "answered"
             PROVE  cards'[e] = "answered"
  BY DEF Stand
<1>1. e \in Prompts /\ cards \in CardStates /\ window \in Seq(Items) /\ buffer \in Seq(Events)
  BY DEF TypeInv, TypeOK, CardStates
<1>2. CASE cards' = cards
  BY <1>2
<1>3. CASE ReconArrives
  <2>1. recon \in GoodRecon
    BY DEF TypeInv
  <2>2. \A asks : Reconciled(asks)[e] = "answered"
    BY <1>1 DEF Reconciled
  <2> QED BY <1>2, <1>3, <2>1, <2>2, ReconOutcome DEF Rehydrate, Backfill, shown
<1>4. ASSUME NEW b \in Binds, MergeBind(b) PROVE cards'[e] = "answered"
  BY <1>1, <1>4 DEF MergeBind
<1>5. CASE DeliverSession
  BY <1>1, <1>5 DEF DeliverSession, Flipped
<1>6. CASE Frame \/ Drop \/ ServerCloses
  <2>1. Flush
    BY <1>6 DEF Frame, Drop, ServerCloses
  <2> QED BY <1>1, <2>1, Flushed
<1>7. CASE Receive
  BY <1>1, <1>7, ReceiveOutcome
<1>8. ASSUME NEW p \in Prompts, SubmitApproval(p) PROVE cards'[e] = "answered"
  <2>1. p # e /\ cards' = [cards EXCEPT ![p] = "answered"]
    BY <1>8 DEF SubmitApproval
  <2> QED BY <1>1, <2>1 DEF CardStates
<1>9. ASSUME NEW p \in Prompts, NEW r \in BOOLEAN, VerdictFails(p, r) PROVE cards'[e] = "answered"
  <2>1. p # e
    BY <1>9 DEF VerdictFails
  <2> QED BY <1>1, <1>9, <2>1 DEF VerdictFails, CardStates
<1>10. ~SwitchAway
  BY DEF SwitchAway
<1>11. CASE Server
  BY <1>2, <1>11 DEF Server, CommitItem, Park, ResolveElsewhere, shown
<1>12. CASE Requests
  <2>1. CASE \E p \in Prompts : VerdictDelivered(p)
    BY <1>2, <2>1 DEF VerdictDelivered, shown
  <2>2. CASE \E b \in Binds : ServeBindPage(b) \/ FailBindPage(b)
    BY <1>2, <2>2 DEF ServeBindPage, FailBindPage, shown
  <2>3. CASE \/ ServeSession \/ FailSession \/ ServeReconPage
             \/ FailReconPage \/ OlderPageArrives \/ OlderPageFails
    BY <1>2, <2>3 DEF ServeSession, FailSession, ServeReconPage, FailReconPage,
                      OlderPageArrives, OlderPageFails, shown
  <2> QED BY <1>3, <1>4, <1>5, <1>9, <1>12, <2>1, <2>2, <2>3 DEF Requests
<1>13. CASE Pump
  <2>1. CASE Open \/ Refuse \/ LoopGoesOn
    BY <1>2, <2>1 DEF Open, Refuse, LoopGoesOn, shown
  <2> QED BY <1>6, <1>7, <1>13, <2>1 DEF Pump
<1>14. CASE User
  <2>1. CASE SwitchTo \/ Rebind \/ LoadMoreHistory \/ TabBecomesVisible
    BY <1>2, <2>1 DEF SwitchTo, Rebind, LoadMoreHistory, TabBecomesVisible, shown
  <2> QED BY <1>8, <1>10, <1>14, <2>1 DEF User
<1>15. CASE UNCHANGED vars
  BY <1>2, <1>15 DEF vars, shown
<1> QED BY <1>11, <1>12, <1>13, <1>14, <1>15 DEF Next

\* While a verdict is under way its card is not reopened or taken away
\* (chatStore.ts, submitApproval).
THEOREM VerdictsAreKept == Spec => VerdictsStand
<1>1. TypeInv /\ [Next]_vars => [Stand]_vars
  BY StandStep
<1>2. VerdictsStand <=> [][Stand]_vars
  BY DEF VerdictsStand, Stand
<1> QED BY InitTyped, StepTyped, <1>1, <1>2, PTL DEF Spec

-----------------------------------------------------------------------------
(* What the tab has, it keeps.  A reconnect that replaces the window drops  *)
(* only items it had before, which the newest page has or lies after.       *)

Received == {i \in Items : ItemEvent(i) \in Range(wire)}

\* A page was served since the reconnect.
Fetching == recon.st = "window" \/ (recon.st = "pages" /\ (recon.fetch.page \/ recon.pages > 1))

\* Nothing the client has or asked for is newer than the server's last item.
CommitInv ==
    /\ Held \cup Received \subseteq 1..last
    /\ \A b \in Binds : binds[b].fetch.hi \in 0..last
    /\ recon.fetch.hi \in 0..last /\ recon.pre \subseteq 1..last
    /\ more \in 0..last /\ oldest \in 0..last

\* The first page after a reconnect ends behind all that was shown before it.
PreInv == Fetching => recon.pre \subseteq 1..recon.fetch.hi

LEMMA HeldIs ==
    ASSUME TypeInv
    PROVE  /\ Held = Rendered \cup {i \in Items : ItemEvent(i) \in Range(buffer)}
           /\ Rendered \subseteq Items
BY WindowItems DEF Held, TypeInv, TypeOK

\* The server commits one item after the other.
LEMMA LastGrows ==
    ASSUME [Next]_vars
    PROVE  last' = last \/ (CommitItem /\ last' = last + 1)
BY DEF Next, Server, Requests, Pump, User, CommitItem, Park, ResolveElsewhere, ServeSession,
       DeliverSession, FailSession, ServeReconPage, FailReconPage, ReconArrives,
       OlderPageArrives, OlderPageFails, ServeBindPage, FailBindPage, MergeBind,
       VerdictDelivered, VerdictFails, TakeVerdict, Open, Refuse, Receive, Frame, Drop,
       ServerCloses, LoopGoesOn, SwitchTo, Rebind, SwitchAway, LoadMoreHistory,
       TabBecomesVisible, SubmitApproval, vars, server

LEMMA OnlyPublished ==
    ASSUME wire \in Seq(Events), NEW ev \in Events, Publish(ev)
    PROVE  Range(wire') \subseteq Range(wire) \cup {ev}
<1>1. wire' = wire \/ wire' = Append(wire, ev)
  BY DEF Publish
<1>2. Range(Append(wire, ev)) = Range(wire) \cup {ev}
  BY AppendRange
<1> QED BY <1>1, <1>2

LEMMA RestOnly ==
    ASSUME NEW T, NEW s \in Seq(T), s # <<>>
    PROVE  Range(Tail(s)) \subseteq Range(s) /\ Head(s) \in Range(s)
<1> DEFINE t == Tail(s)
<1>1. /\ Len(s) \in Nat \ {0} /\ DOMAIN s = 1..Len(s) /\ t \in Seq(T)
      /\ Len(t) = Len(s) - 1 /\ Head(s) = s[1]
      /\ \A i \in 1..Len(t) : t[i] = s[i + 1]
  BY LenProperties, HeadTailProperties, EmptySeq
<1> HIDE DEF t
<1>2. DOMAIN t = 1..(Len(s) - 1)
  BY <1>1, LenProperties
<1>3. ASSUME NEW n \in DOMAIN t PROVE t[n] \in Range(s)
  <2>1. n + 1 \in DOMAIN s /\ t[n] = s[n + 1]
    BY <1>1, <1>2
  <2> QED BY <2>1 DEF Range
<1>4. 1 \in DOMAIN s
  BY <1>1
<1>5. Range(t) \subseteq Range(s) /\ Head(s) \in Range(s)
  BY <1>1, <1>3, <1>4 DEF Range
<1> QED BY <1>5 DEF t

\* The connection carries only what was committed.
LEMMA WireCommitted ==
    ASSUME TypeInv, [Next]_vars, Received \subseteq 1..last
    PROVE  Received' \subseteq 1..last'
<1>1. wire \in Seq(Events) /\ last \in 0..MaxItems
  BY DEF TypeInv, TypeOK
<1>2. ASSUME Range(wire') \subseteq Range(wire) \/ wire' = <<>> PROVE Received' \subseteq 1..last'
  <2>1. Range(<<>>) = {}
    BY EmptySeq DEF Range
  <2>2. Range(wire') \subseteq Range(wire)
    BY <1>2, <2>1
  <2>3. Received' \subseteq Received
    BY <2>2 DEF Received
  <2>4. 1..last \subseteq 1..last'
    BY <1>1, LastGrows
  <2> QED BY <2>3, <2>4
<1>3. CASE CommitItem
  <2>1. last + 1 \in Items /\ last' = last + 1 /\ Publish(ItemEvent(last + 1))
    BY <1>1, <1>3, Bounds DEF CommitItem, Items
  <2>2. Range(wire') \subseteq Range(wire) \cup {ItemEvent(last + 1)}
    BY <1>1, <2>1, EventTypes, OnlyPublished
  <2>3. \A i \in Items : ItemEvent(i) = ItemEvent(last + 1) => i = last + 1
    BY DEF ItemEvent
  <2>4. Received' \subseteq Received \cup {last + 1}
    BY <2>2, <2>3 DEF Received
  <2> QED BY <1>1, <2>1, <2>4
<1>4. ASSUME NEW e \in Prompts, Park(e) \/ TakeVerdict(e) \/ \E to : ResolveElsewhere(e, to)
      PROVE  Received' \subseteq 1..last'
  <2>1. PICK ev \in {Asked(e), Resolved(e)} : Publish(ev)
    BY <1>4 DEF Park, TakeVerdict, ResolveElsewhere
  <2>2. ev \in Events
    BY EventTypes
  <2>3. Range(wire') \subseteq Range(wire) \cup {ev}
    BY <1>1, <2>1, <2>2, OnlyPublished
  <2>4. \A i \in Items : ItemEvent(i) # ev
    BY DEF ItemEvent, Asked, Resolved
  <2>5. Received' \subseteq Received
    BY <2>3, <2>4 DEF Received
  <2>6. 1..last \subseteq 1..last'
    BY <1>1, LastGrows
  <2> QED BY <2>5, <2>6
<1>5. CASE wire' = wire
  BY <1>2, <1>5
<1>6. CASE Receive
  <2>1. wire # <<>> /\ wire' = Tail(wire)
    BY <1>6 DEF Receive
  <2> QED BY <1>1, <1>2, <2>1, RestOnly
<1>7. CASE wire' = <<>>
  BY <1>2, <1>7
<1>8. CASE Server
  BY <1>3, <1>4, <1>8 DEF Server
<1>9. CASE Requests
  <2>1. CASE \E e \in Prompts : VerdictDelivered(e)
    BY <1>4, <2>1 DEF VerdictDelivered
  <2>2. CASE \E e \in Prompts : \E r \in BOOLEAN : VerdictFails(e, r)
    BY <1>4, <1>5, <2>2 DEF VerdictFails
  <2>3. CASE \E b \in Binds : ServeBindPage(b) \/ FailBindPage(b) \/ MergeBind(b)
    BY <1>5, <2>3 DEF ServeBindPage, FailBindPage, MergeBind
  <2>4. CASE \/ ServeSession \/ DeliverSession \/ FailSession \/ ServeReconPage
             \/ FailReconPage \/ ReconArrives \/ OlderPageArrives \/ OlderPageFails
    BY <1>5, <2>4 DEF ServeSession, DeliverSession, FailSession, ServeReconPage, FailReconPage,
                      ReconArrives, OlderPageArrives, OlderPageFails
  <2> QED BY <1>9, <2>1, <2>2, <2>3, <2>4 DEF Requests
<1>10. CASE Pump
  BY <1>5, <1>6, <1>7, <1>10 DEF Pump, Open, Refuse, Frame, Drop, ServerCloses, LoopGoesOn
<1>11. CASE User
  BY <1>5, <1>7, <1>11 DEF User, SwitchTo, Rebind, SwitchAway, LoadMoreHistory,
                           TabBecomesVisible, SubmitApproval
<1>12. CASE UNCHANGED vars
  BY <1>5, <1>12 DEF vars
<1> QED BY <1>8, <1>9, <1>10, <1>11, <1>12 DEF Next

\* A reconciliation keeps what was shown before it, and the end of its pages.
LEMMA ReconKeeps ==
    ASSUME TypeInv, [Next]_vars
    PROVE  \/ recon'.pre = {} /\ ~Fetching' /\ recon'.fetch.hi = 0
           \/ recon'.pre = Rendered /\ ~Fetching' /\ recon'.fetch.hi = 0
           \/ /\ recon'.pre = recon.pre /\ recon'.fetch.hi = recon.fetch.hi
              /\ Fetching' => Fetching
           \/ recon'.pre = recon.pre /\ recon'.fetch.hi = last
<1> DEFINE Emptied == recon'.pre = {} /\ ~Fetching' /\ recon'.fetch.hi = 0
           Kept    == /\ recon'.pre = recon.pre /\ recon'.fetch.hi = recon.fetch.hi
                      /\ Fetching' => Fetching
<1>1. /\ recon \in GoodRecon /\ recon.fetch \in GoodFetch /\ query \in QueryRecord
      /\ last \in 0..MaxItems
  BY DEF TypeInv, TypeOK, GoodRecon
<1>2. CASE recon' = recon
  BY <1>2 DEF Fetching
<1>3. CASE recon' = NoRecon
  <2>1. Emptied
    BY <1>3 DEF NoRecon, NoFetch, Fetching
  <2> QED BY <2>1
<1>4. CASE recon' = Voided(recon)
  <2>1. Kept
    BY <1>1, <1>4 DEF Voided, GoodRecon, Fetching
  <2> QED BY <2>1
<1>5. ASSUME NEW g \in GoodFetch, recon' = [recon EXCEPT !.fetch = g]
      PROVE  /\ recon'.pre = recon.pre /\ recon'.fetch = g
             /\ recon'.st = recon.st /\ recon'.pages = recon.pages
  BY <1>1, <1>5 DEF GoodRecon
<1>6. CASE DeliverSession
  <2> DEFINE g == WithSession(recon.fetch)
  <2>1. recon' = recon \/ recon' = [recon EXCEPT !.fetch = g]
    BY <1>6 DEF DeliverSession
  <2>2. g \in GoodFetch /\ g.hi = recon.fetch.hi /\ g.page = recon.fetch.page
    BY <1>1, FilledFetch
  <2> HIDE DEF g
  <2>3. CASE recon' = [recon EXCEPT !.fetch = g]
    <3>1. Kept
      BY <1>5, <2>2, <2>3 DEF Fetching
    <3> QED BY <3>1
  <2> QED BY <1>2, <2>1, <2>3
<1>7. CASE ServeReconPage
  <2> DEFINE g == WithPage(recon.fetch, ReconPage)
  <2>1. ReconPage \in GoodPage
    BY <1>1, ReconPages
  <2>2. g \in GoodFetch /\ g.hi = ReconPage.hi
    BY <1>1, <2>1, FilledFetch
  <2>3. recon' = [recon EXCEPT !.fetch = g] /\ recon.st # "idle"
    BY <1>7 DEF ServeReconPage
  <2> HIDE DEF g
  <2>4. recon'.pre = recon.pre /\ recon'.fetch.hi = ReconPage.hi
    BY <1>5, <2>2, <2>3
  <2>5. CASE ReconPage.hi = last
    BY <2>4, <2>5
  <2>6. CASE ReconPage.hi # last
    <3>1. ReconPage.hi = recon.fetch.hi /\ ~(recon.st = "pages" /\ recon.pages = 1)
          /\ recon.st # "window"
      BY <1>1, <2>6, ReconPages
    <3>2. recon.st = "pages" /\ recon.pages > 1
      BY <1>1, <2>3, <3>1, Bounds DEF GoodRecon
    <3> QED BY <2>4, <3>1, <3>2 DEF Fetching
  <2> QED BY <2>5, <2>6
<1>8. CASE Open
  <2>1. CASE connected
    <3>1. recon' = [NoRecon EXCEPT !.st = "pages", !.pre = Rendered, !.valid = TRUE,
                                   !.prePending = CardsIn("pending"),
                                   !.preResolved = CardsIn("elsewhere")]
      BY <1>8, <2>1 DEF Open
    <3>2. /\ recon'.st = "pages" /\ recon'.pages = 1 /\ recon'.fetch = NoFetch
          /\ recon'.pre = Rendered
      BY <3>1 DEF NoRecon
    <3>3. ~Fetching' /\ recon'.fetch.hi = 0
      BY <3>2 DEF Fetching, NoFetch
    <3> QED BY <3>2, <3>3
  <2>2. CASE ~connected
    BY <1>2, <1>8, <2>2 DEF Open
  <2> QED BY <2>1, <2>2
<1>9. CASE ReconArrives
  <2>1. CASE AskOlder
    <3> DEFINE g == [recon.fetch EXCEPT !.page = FALSE]
    <3>1. recon.st # "idle" /\ recon.fetch.page
      BY <1>9 DEF ReconArrives, Fetched
    <3>2. Fetching
      BY <1>1, <3>1 DEF GoodRecon, Fetching
    <3>3. recon' = IF recon.pages < MaxPages
                   THEN [recon EXCEPT !.pages = recon.pages + 1, !.fetch = g]
                   ELSE [recon EXCEPT !.st = "window", !.fetch = g]
      BY <1>1, <2>1 DEF AskOlder, GoodRecon
    <3>4. g.hi = recon.fetch.hi
      BY <1>1 DEF GoodFetch, Fetch
    <3> HIDE DEF g
    <3>5. recon'.pre = recon.pre /\ recon'.fetch.hi = recon.fetch.hi
      BY <1>1, <3>3, <3>4 DEF GoodRecon
    <3> QED BY <3>2, <3>5
  <2>2. CASE recon' = NoRecon
    BY <1>3, <2>2
  <2> QED BY <1>1, <1>9, <2>1, <2>2, ReconOutcome DEF Rehydrate, Backfill
<1>10. ASSUME NEW b \in Binds, MergeBind(b) PROVE recon' = recon \/ recon' = Voided(recon)
  BY <1>10 DEF MergeBind
<1>11. CASE Server
  BY <1>2, <1>11 DEF Server, CommitItem, Park, ResolveElsewhere
<1>12. CASE Requests
  <2>1. CASE \E b \in Binds : MergeBind(b)
    BY <1>2, <1>4, <1>10, <2>1
  <2>2. CASE ~\E b \in Binds : MergeBind(b)
    <3>1. \/ DeliverSession \/ ServeReconPage \/ ReconArrives \/ recon' = NoRecon \/ recon' = recon
      BY <1>12, <2>2
         DEF Requests, ServeSession, FailSession, FailReconPage, OlderPageArrives, OlderPageFails,
             ServeBindPage, FailBindPage, VerdictDelivered, VerdictFails
    <3> QED BY <1>2, <1>3, <1>6, <1>7, <1>9, <3>1
  <2> QED BY <2>1, <2>2
<1>13. CASE Pump
  <2>1. Open \/ recon' = recon
    BY <1>13 DEF Pump, Refuse, Receive, Frame, Drop, ServerCloses, LoopGoesOn
  <2> QED BY <1>2, <1>8, <2>1
<1>14. CASE User
  <2>1. recon' = recon \/ recon' = NoRecon
    BY <1>14
       DEF User, SwitchTo, Rebind, SwitchAway, LoadMoreHistory, TabBecomesVisible, SubmitApproval
  <2> QED BY <1>2, <1>3, <2>1
<1>15. CASE UNCHANGED vars
  BY <1>2, <1>15 DEF vars
<1> QED BY <1>11, <1>12, <1>13, <1>14, <1>15 DEF Next

\* Every page a binding waits for ends with the last item of its time.
LEMMA BindsKeep ==
    ASSUME TypeInv, [Next]_vars, NEW b \in Binds
    PROVE  binds'[b].fetch.hi \in {0, last, binds[b].fetch.hi}
<1>1. /\ binds \in [Binds -> GoodBind] /\ binds[b].fetch \in GoodFetch
      /\ last \in 0..MaxItems /\ NoFetch.hi = 0
  BY DEF TypeInv, TypeOK, GoodBind, NoFetch
<1>2. CASE binds' = binds
  BY <1>2
<1>3. ASSUME NEW c \in Binds, NEW st, binds' = [binds EXCEPT ![c] = [st |-> st, fetch |-> NoFetch]]
      PROVE  binds'[b].fetch.hi \in {0, last, binds[b].fetch.hi}
  <2>1. CASE b = c
    BY <1>1, <1>3, <2>1
  <2>2. CASE b # c
    BY <1>1, <1>3, <2>2
  <2> QED BY <2>1, <2>2
<1>4. ASSUME NEW c \in Binds, ServeBindPage(c)
      PROVE  binds'[b].fetch.hi \in {0, last, binds[b].fetch.hi}
  <2> DEFINE g == WithPage(binds[c].fetch, Newest)
  <2>1. binds[c] \in GoodBind /\ binds[c].fetch \in GoodFetch
    BY <1>1 DEF GoodBind
  <2>2. g.hi = last
    BY <1>1, <2>1, NewestPage, FilledFetch
  <2>3. binds' = [binds EXCEPT ![c] = [binds[c] EXCEPT !.fetch = g]]
    BY <1>4 DEF ServeBindPage
  <2> HIDE DEF g
  <2>4. binds'[b] = IF b = c THEN [binds[c] EXCEPT !.fetch = g] ELSE binds[b]
    BY <1>1, <2>3
  <2>5. [binds[c] EXCEPT !.fetch = g].fetch = g
    BY <2>1 DEF GoodBind
  <2> QED BY <2>2, <2>4, <2>5
<1>5. CASE DeliverSession
  <2> DEFINE g == WithSession(binds[b].fetch)
  <2>1. g.hi = binds[b].fetch.hi
    BY <1>1, FilledFetch
  <2>2. binds'[b] = binds[b] \/ binds'[b] = [binds[b] EXCEPT !.fetch = g]
    BY <1>5 DEF DeliverSession
  <2> HIDE DEF g
  <2>3. [binds[b] EXCEPT !.fetch = g].fetch = g
    BY <1>1 DEF GoodBind
  <2> QED BY <2>1, <2>2, <2>3
<1>6. CASE FailSession
  <2>1. binds'[b] = binds[b] \/ binds'[b] = [st |-> "done", fetch |-> NoFetch]
    BY <1>6 DEF FailSession
  <2> QED BY <1>1, <2>1
<1>7. ASSUME NEW c \in Binds, MergeBind(c) \/ FailBindPage(c) \/ StartBind(c)
      PROVE  binds'[b].fetch.hi \in {0, last, binds[b].fetch.hi}
  BY <1>3, <1>7 DEF MergeBind, FailBindPage, StartBind
<1>8. CASE Server
  BY <1>2, <1>8 DEF Server, CommitItem, Park, ResolveElsewhere
<1>9. CASE Requests
  <2>1. \/ DeliverSession \/ FailSession \/ binds' = binds
        \/ \E c \in Binds : ServeBindPage(c) \/ MergeBind(c) \/ FailBindPage(c)
    BY <1>9
       DEF Requests, ServeSession, ServeReconPage, FailReconPage, ReconArrives, OlderPageArrives,
           OlderPageFails, VerdictDelivered, VerdictFails
  <2> QED BY <1>2, <1>4, <1>5, <1>6, <1>7, <2>1
<1>10. CASE Pump
  BY <1>2, <1>10 DEF Pump, Open, Refuse, Receive, Frame, Drop, ServerCloses, LoopGoesOn
<1>11. CASE User
  <2>1. binds' = binds \/ \E c \in Binds : StartBind(c)
    BY <1>11
       DEF User, SwitchTo, Rebind, SwitchAway, LoadMoreHistory, TabBecomesVisible, SubmitApproval
  <2> QED BY <1>2, <1>7, <2>1
<1>12. CASE UNCHANGED vars
  BY <1>2, <1>12 DEF vars
<1> QED BY <1>8, <1>9, <1>10, <1>11, <1>12 DEF Next

LEMMA PageCommitted ==
    ASSUME NEW f \in GoodFetch, last \in 0..MaxItems, f.hi \in 0..last
    PROVE  Span(f) \subseteq 1..last /\ Oldest(f) \in 0..last
<1>1. f.lo \in 1..(MaxItems + 1) /\ (f.hi = 0 \/ f.lo <= f.hi)
  BY DEF GoodFetch, Fetch
<1> QED BY <1>1, Bounds DEF Span, Oldest

\* The cursor of the window and that of the page asked for stay committed.
LEMMA CursorsCommitted ==
    ASSUME TypeInv, CommitInv, [Next]_vars
    PROVE  more' \in 0..last /\ oldest' \in 0..last
<1>1. /\ last \in 0..MaxItems /\ more \in 0..last /\ oldest \in 0..last /\ NoPage(more) = 0
      /\ recon \in GoodRecon /\ recon.fetch \in GoodFetch /\ recon.fetch.hi \in 0..last
      /\ \A b \in Binds : binds[b].fetch \in GoodFetch /\ binds[b].fetch.hi \in 0..last
  BY DEF TypeInv, TypeOK, CommitInv, GoodRecon, GoodBind, NoPage
<1>2. 0 \in 0..last
  BY <1>1, Bounds
<1>3. CASE UNCHANGED <<more, oldest>>
  BY <1>1, <1>3
<1>4. CASE ReconArrives
  <2>1. CASE Rehydrate
    <3>1. oldest' = Oldest(recon.fetch) /\ more' = 0
      BY <1>1, <2>1 DEF Rehydrate
    <3> QED BY <1>1, <1>2, <3>1, PageCommitted
  <2>2. CASE Backfill \/ UNCHANGED shown
    BY <1>3, <2>2 DEF Backfill, shown
  <2> QED BY <1>1, <1>4, <2>1, <2>2, ReconOutcome
<1>5. ASSUME NEW b \in Binds, MergeBind(b) PROVE more' \in 0..last /\ oldest' \in 0..last
  <2>1. CASE view
    <3>1. oldest' = Oldest(binds[b].fetch) /\ more' = 0
      BY <1>1, <1>5, <2>1 DEF MergeBind
    <3> QED BY <1>1, <1>2, <3>1, PageCommitted
  <2>2. CASE ~view
    BY <1>3, <1>5, <2>2 DEF MergeBind, shown
  <2> QED BY <2>1, <2>2
<1>6. CASE OlderPageArrives
  <2>1. oldest' = Before(more) /\ more' = 0 /\ more # 0
    BY <1>6 DEF OlderPageArrives
  <2>2. Before(more) \in 1..more
    <3>1. more \in 1..(MaxItems + 1)
      BY <1>1, <2>1, Bounds
    <3> QED BY <3>1, OlderPage
  <2> QED BY <1>1, <2>1, <2>2, Bounds
<1>7. CASE OlderPageFails \/ LoadMoreHistory \/ SwitchAway
  BY <1>1, <1>2, <1>7 DEF OlderPageFails, LoadMoreHistory, SwitchAway
<1>8. CASE Frame \/ Drop \/ ServerCloses
  BY <1>3, <1>8 DEF Frame, Drop, ServerCloses, Flush
<1>9. CASE Server
  BY <1>3, <1>9 DEF Server, CommitItem, Park, ResolveElsewhere, shown
<1>10. CASE Requests
  BY <1>3, <1>4, <1>5, <1>6, <1>7, <1>10
     DEF Requests, ServeSession, DeliverSession, FailSession, ServeReconPage, FailReconPage,
         ServeBindPage, FailBindPage, VerdictDelivered, VerdictFails, shown
<1>11. CASE Pump
  BY <1>3, <1>8, <1>11 DEF Pump, Open, Refuse, Receive, LoopGoesOn, shown
<1>12. CASE User
  BY <1>3, <1>7, <1>12 DEF User, SwitchTo, Rebind, TabBecomesVisible, SubmitApproval, shown
<1>13. CASE UNCHANGED vars
  BY <1>3, <1>13 DEF vars, shown
<1> QED BY <1>9, <1>10, <1>11, <1>12, <1>13 DEF Next

\* What each step puts in the window and the buffer, and what it leaves there.
LEMMA HeldChanges ==
    ASSUME TypeInv, TypeInv', [Next]_vars
    PROVE  \/ Held' \subseteq Held \cup Received /\ Held \subseteq Held'
           \/ SwitchAway /\ Held' = {}
           \/ Rehydrate /\ ReconArrives /\ Held' \subseteq Held \cup Span(recon.fetch)
              /\ Held \subseteq Held' \cup recon.pre /\ Span(recon.fetch) \subseteq Held'
           \/ Backfill /\ Held' = Held \cup Span(recon.fetch)
           \/ \E b \in Binds : MergeBind(b) /\ Held' = Held \cup Span(binds[b].fetch)
           \/ more # 0 /\ Held' = Held \cup Span([lo |-> Before(more), hi |-> more - 1])
<1> DEFINE queued == {i \in Items : ItemEvent(i) \in Range(buffer)}
           left   == {i \in Items : ItemEvent(i) \in Range(buffer')}
<1>1. /\ window \in Seq(Items) /\ wire \in Seq(Events) /\ buffer \in Seq(Events)
      /\ cards \in CardStates /\ recon \in GoodRecon /\ recon.fetch \in GoodFetch
      /\ Rendered \subseteq Items
  BY HeldIs DEF TypeInv, TypeOK, CardStates, GoodRecon
<1>2. Held = Rendered \cup queued
  BY HeldIs
<1>3. Held' = Range(window') \cup left
  <2>1. window' \in Seq(Items)
    BY DEF TypeInv, TypeOK
  <2>2. \A n \in 1..Len(window') : window'[n] \in Items
    BY <2>1, ElementOfSeq
  <2>3. Range(window') \subseteq Items
    BY <2>1, <2>2, LenProperties DEF Range
  <2> QED BY <2>3 DEF Held, Rendered
<1>4. Range(<<>>) = {}
  BY EmptySeq DEF Range
<1>5. CASE UNCHANGED <<window, buffer>>
  BY <1>2, <1>3, <1>5 DEF Rendered
<1>6. CASE Receive
  <2> DEFINE ev == Head(wire)
  <2>1. /\ wire # <<>> /\ ev \in Events /\ window' = window
        /\ buffer' = buffer \/ buffer' = Append(buffer, ev)
    BY <1>6, ReceiveOutcome DEF Receive
  <2>2. ev \in Range(wire)
    BY <1>1, <2>1, RestOnly
  <2> HIDE DEF ev
  <2>3. Range(Append(buffer, ev)) = Range(buffer) \cup {ev}
    BY <1>1, <2>1, AppendRange
  <2>4. /\ \A i \in left : i \in queued \/ i \in Received
        /\ queued \subseteq left
    BY <2>1, <2>2, <2>3 DEF Received
  <2> HIDE DEF queued, left
  <2> QED BY <1>2, <1>3, <2>1, <2>4 DEF Rendered
<1>7. CASE Frame \/ Drop \/ ServerCloses
  <2>1. Flush
    BY <1>7 DEF Frame, Drop, ServerCloses
  <2>2. Range(window') = Rendered \cup Arriving /\ buffer' = <<>>
    BY <1>1, <2>1, Flushed
  <2>3. left = {}
    BY <1>4, <2>2
  <2>4. Rendered \cup Arriving = Rendered \cup queued
    BY DEF Arriving
  <2> HIDE DEF queued, left
  <2> QED BY <1>2, <1>3, <2>2, <2>3, <2>4
<1>8. CASE SwitchAway
  <2>1. window' = <<>> /\ buffer' = <<>>
    BY <1>8 DEF SwitchAway
  <2> QED BY <1>3, <1>4, <1>8, <2>1
<1>9. CASE ReconArrives
  <2>1. buffer' = buffer /\ left = queued
    BY <1>9 DEF ReconArrives
  <2> HIDE DEF queued, left
  <2>2. CASE Rehydrate
    <3>1. Range(window') = Span(recon.fetch) \cup (Rendered \ recon.pre)
      BY <2>2, Rehydrated
    <3> QED BY <1>2, <1>3, <1>9, <2>1, <2>2, <3>1
  <2>3. CASE Backfill
    <3>1. Range(window') = Rendered \cup Span(recon.fetch)
      BY <1>1, <2>3, PageShown DEF Backfill
    <3> QED BY <1>2, <1>3, <2>1, <2>3, <3>1
  <2>4. CASE UNCHANGED shown
    BY <1>5, <2>1, <2>4 DEF shown
  <2> QED BY <1>1, <1>9, <2>2, <2>3, <2>4, ReconOutcome
<1>10. CASE OlderPageArrives
  <2> DEFINE page == [lo |-> Before(more), hi |-> more - 1]
  <2>1. page \in GoodPage /\ more # 0
    BY <1>10, MorePage DEF OlderPageArrives
  <2>2. window' = InOrder(Unseen(page)) \o window /\ buffer' = buffer
    BY <1>10 DEF OlderPageArrives, Unseen
  <2> HIDE DEF page
  <2>3. Range(window') = Rendered \cup Span(page) /\ left = queued
    BY <1>1, <2>1, <2>2, PageShown
  <2> HIDE DEF queued, left
  <2>4. Held' = Held \cup Span(page)
    BY <1>2, <1>3, <2>3
  <2> QED BY <2>1, <2>4 DEF page
<1>11. ASSUME NEW b \in Binds, MergeBind(b)
       PROVE  UNCHANGED <<window, buffer>> \/ Held' = Held \cup Span(binds[b].fetch)
  <2>1. binds[b].fetch \in GoodFetch /\ buffer' = buffer
    BY <1>11 DEF MergeBind, TypeInv, GoodBind
  <2>2. CASE view
    <3>1. window' = InOrder(Unseen(binds[b].fetch)) \o window
      BY <1>11, <2>2 DEF MergeBind
    <3>2. Range(window') = Rendered \cup Span(binds[b].fetch) /\ left = queued
      BY <1>1, <2>1, <3>1, PageShown
    <3> HIDE DEF queued, left
    <3> QED BY <1>2, <1>3, <3>2
  <2>3. CASE ~view
    BY <1>11, <2>1, <2>3 DEF MergeBind, shown
  <2> QED BY <2>2, <2>3
<1>12. CASE \E b \in Binds : MergeBind(b)
  BY <1>5, <1>11, <1>12
<1> QED BY <1>5, <1>6, <1>7, <1>8, <1>9, <1>10, <1>12, QuietSteps

LEMMA CommitStep ==
    TypeInv /\ TypeInv' /\ CommitInv /\ PreInv /\ [Next]_vars => CommitInv' /\ PreInv'
<1> SUFFICES ASSUME TypeInv, TypeInv', CommitInv, PreInv, [Next]_vars
             PROVE  CommitInv' /\ PreInv'
  OBVIOUS
<1>1. /\ last \in 0..MaxItems /\ more \in 0..last /\ oldest \in 0..last
      /\ Held \cup Received \subseteq 1..last
      /\ recon.fetch \in GoodFetch /\ recon.fetch.hi \in 0..last /\ recon.pre \subseteq 1..last
      /\ \A b \in Binds : binds[b].fetch \in GoodFetch /\ binds[b].fetch.hi \in 0..last
      /\ Rendered \subseteq Held
  BY HeldIs DEF TypeInv, TypeOK, CommitInv, GoodRecon, GoodBind
<1>2. last' \in {last, last + 1}
  BY LastGrows
<1>3. 1..last \subseteq 1..last' /\ 0..last \subseteq 0..last' /\ 0 \in 0..last' /\ last \in 0..last'
  BY <1>1, <1>2, Bounds
<1>4. Held' \subseteq 1..last
  <2>1. Span(recon.fetch) \subseteq 1..last /\ \A b \in Binds : Span(binds[b].fetch) \subseteq 1..last
    BY <1>1, PageCommitted
  <2>2. more # 0 => Span([lo |-> Before(more), hi |-> more - 1]) \subseteq 1..last
    <3> SUFFICES ASSUME more # 0 PROVE Before(more)..(more - 1) \subseteq 1..last
      BY DEF Span
    <3>1. more \in 1..(MaxItems + 1)
      BY <1>1, Bounds
    <3>2. Before(more) \in 1..more
      BY <3>1, OlderPage
    <3> QED BY <1>1, <3>1, <3>2, Bounds
  <2> QED BY <1>1, <2>1, <2>2, HeldChanges
<1>5. Received' \subseteq 1..last'
  BY <1>1, WireCommitted
<1>6. \A b \in Binds : binds'[b].fetch.hi \in 0..last'
  BY <1>1, <1>3, BindsKeep
<1>7. more' \in 0..last' /\ oldest' \in 0..last'
  BY <1>3, CursorsCommitted
<1>8. recon'.fetch.hi \in 0..last' /\ recon'.pre \subseteq 1..last' /\ PreInv'
  BY <1>1, <1>3, ReconKeeps DEF PreInv
<1> QED BY <1>3, <1>4, <1>5, <1>6, <1>7, <1>8 DEF CommitInv

\* What the property asks of a step.
Keeps == (view /\ view') => \A i \in Held : i >= oldest' => i \in Held'

LEMMA KeepsStep == TypeInv /\ TypeInv' /\ CommitInv /\ PreInv /\ [Next]_vars => Keeps
<1> SUFFICES ASSUME TypeInv, TypeInv', CommitInv, PreInv, [Next]_vars, view, view',
                    NEW i \in Held, i >= oldest'
             PROVE  i \in Held'
  BY DEF Keeps
<1>1. ~SwitchAway
  BY DEF SwitchAway
<1>2. ASSUME Rehydrate, ReconArrives, i \in recon.pre PROVE i \in Span(recon.fetch)
  <2>1. recon \in GoodRecon /\ recon.fetch \in GoodFetch
    BY DEF TypeInv, GoodRecon
  <2>2. recon.st # "idle" /\ recon.fetch.page
    BY <1>2 DEF ReconArrives, Fetched
  <2>3. i \in 1..recon.fetch.hi
    BY <1>2, <2>1, <2>2 DEF PreInv, Fetching, GoodRecon
  <2>4. oldest' = Oldest(recon.fetch)
    BY <1>2 DEF Rehydrate
  <2>5. recon.fetch.hi \in Nat /\ recon.fetch.lo \in Nat
    BY <2>1, Bounds DEF GoodFetch, Fetch
  <2> QED BY <2>3, <2>4, <2>5 DEF Oldest, Span
<1> QED BY <1>1, <1>2, HeldChanges

\* An item the tab has leaves it only above the scroll cursor (chatStore.ts,
\* bindStream, rehydrateWindowOnReconnect, the flush of pumpStreamEvents).
THEOREM NothingHeldIsLost == Spec => HeldItemsStay
<1>1. Init => CommitInv /\ PreInv
  <2> SUFFICES ASSUME Init PROVE CommitInv /\ PreInv
    OBVIOUS
  <2>1. Range(<<>>) = {} /\ 0 \in 0..0
    BY EmptySeq DEF Range
  <2>2. Held = {} /\ Received = {}
    BY <2>1 DEF Init, Held, Received, Rendered
  <2>3. /\ recon.fetch.hi = 0 /\ recon.pre = {} /\ ~Fetching
        /\ \A b \in Binds : binds[b].fetch.hi = 0
    BY DEF Init, NoRecon, NoFetch, Fetching
  <2> QED BY <2>1, <2>2, <2>3 DEF Init, CommitInv, PreInv
<1>2. TypeInv /\ TypeInv' /\ CommitInv /\ PreInv /\ [Next]_vars => [Keeps]_vars
  BY KeepsStep
<1>3. HeldItemsStay <=> [][Keeps]_vars
  BY DEF HeldItemsStay, Keeps
<1> QED BY InitTyped, StepTyped, CommitStep, <1>1, <1>2, <1>3, PTL DEF Spec
=============================================================================
