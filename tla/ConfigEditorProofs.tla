------------------------- MODULE ConfigEditorProofs -------------------------
(* Theorems about ConfigEditor, for any names, texts, ports, files and      *)
(* bounds, on disks that fill up as well.                                   *)
EXTENDS ConfigEditor, FiniteSetTheorems, WellFoundedInduction, TLAPS

-----------------------------------------------------------------------------
(* The address check.                                                       *)

\* Without a dot at the end getline() yields every part of a text.
LEMMA TokensOfText ==
    ASSUME NEW ip \in Texts, Last(ip) # EmptyPart
    PROVE  Tokens(ip) = ip
  BY DEF Tokens

\* IsValidIpv4() and make_address() agree on every part.
LEMMA OctetExact ==
    ASSUME NEW p \in Parts
    PROVE  IsOctet(p) <=> /\ p.digits /\ p.size > 0 /\ p.value \in 0..255
                          /\ p.zero => p.size = 1
  BY DEF Parts, IsOctet, EmptyPart, Number

\* The hand-written check takes exactly the addresses of make_address(), of
\* all texts: ValidateInput() lets nothing through that the load balancer
\* would end on.
THEOREM ValidIpv4IsAddress ==
    ASSUME NEW ip \in Texts
    PROVE  IsValidIpv4(ip) <=> MakeAddress(ip)
<1> /\ Len(ip) \in Nat /\ DOMAIN ip = 1..Len(ip)
    /\ \A i \in 1..Len(ip) : ip[i] \in Parts
  BY DEF Texts
<1>1. ASSUME IsValidIpv4(ip) PROVE MakeAddress(ip)
  <2>1. Tokens(ip) = ip
    BY <1>1, TokensOfText DEF IsValidIpv4
  <2>2. Len(ip) = 4 /\ \A i \in DOMAIN ip : IsOctet(ip[i])
    BY <1>1, <2>1 DEF IsValidIpv4
  <2> QED BY <2>2, OctetExact DEF MakeAddress
<1>2. ASSUME MakeAddress(ip) PROVE IsValidIpv4(ip)
  <2>1. Len(ip) = 4 /\ \A i \in 1..4 : IsOctet(ip[i])
    BY <1>2, OctetExact DEF MakeAddress
  <2>2. Last(ip) # EmptyPart
    BY <2>1 DEF Last, IsOctet, EmptyPart, Number
  <2> QED BY <2>1, <2>2, TokensOfText DEF IsValidIpv4
<1> QED BY <1>1, <1>2

\* The same of ValidateInput(), as an invariant of the tool whatever texts its
\* users type: a service with a name and a port is taken exactly if the load
\* balancer takes its address.
THEOREM AddressCheckExact == Spec => []Ipv4CheckExact
<1>1. Ipv4CheckExact
  <2> SUFFICES ASSUME NEW s \in TypedServices, s.name # NoName, s.port \in 1..MaxPort
               PROVE  ValidateInput(s) <=> MakeAddress(s.ip)
    BY DEF Ipv4CheckExact
  <2>1. s.ip \in Texts
    BY ConfigEditorAssumption DEF TypedServices
  <2>2. IsValidIpv4(s.ip) <=> MakeAddress(s.ip)
    BY <2>1, ValidIpv4IsAddress
  <2> QED BY <2>2 DEF ValidateInput
<1> QED BY <1>1, PTL

-----------------------------------------------------------------------------
(* Types.                                                                   *)

\* Numbers of 16 bits
LEMMA PortRange == MaxPort \in Nat /\ 8080 \in 1..MaxPort
  BY SMT DEF MaxPort

\* static_cast<uint16_t> of any number is a port, and of a port the port.
LEMMA Narrowed ==
    ASSUME NEW n \in Int
    PROVE  n % 65536 \in 0..MaxPort /\ (n \in 0..MaxPort => n % 65536 = n)
<1>1. n % 65536 \in 0..MaxPort
  BY SMT DEF MaxPort
<1>2. ASSUME 0 <= n, n < 65536 PROVE n % 65536 = n
  BY SMT, <1>2
<1>3. n \in 0..MaxPort => 0 <= n /\ n < 65536
  BY SMT DEF MaxPort
<1> QED BY <1>1, <1>2, <1>3

\* A key that is there, and one that is not
LEMMA OptionalFacts ==
    ASSUME NEW S
    PROVE  /\ <<>> \in Optional(S)
           /\ \A x \in S : <<x>> \in Optional(S)
           /\ \A k \in Optional(S) : k # <<>> => k[1] \in S
           /\ \A k \in Optional(S), d \in S : ValueOr(k, d) \in S
<1>1. <<>> \in Optional(S)
  BY DEF Optional
<1>2. ASSUME NEW x \in S PROVE <<x>> \in Optional(S)
  BY DEF Optional
<1>3. ASSUME NEW k \in Optional(S), k # <<>> PROVE k[1] \in S
  <2>1. k \in Seq(S)
    BY DEF Optional
  <2> QED BY <1>3, <2>1
<1>4. ASSUME NEW k \in Optional(S), NEW d \in S PROVE ValueOr(k, d) \in S
  BY <1>3 DEF ValueOr
<1> QED BY <1>1, <1>2, <1>3, <1>4

\* The markers for what does not convert are no port and no service.
LEMMA Markers == Unreadable \notin Optional(0..MaxPort) /\ BadEntry \notin Service
<1>1. 65536 \notin 0..MaxPort
  BY SMT DEF MaxPort
<1> HIDE DEF MaxPort
<1>2. Unreadable[1] = 65536 /\ Unreadable # <<>> /\ BadEntry.port = 65536
  BY SMT DEF Unreadable, BadEntry
<1>3. \A k \in Optional(0..MaxPort) : k # <<>> => k[1] \in 0..MaxPort
  BY OptionalFacts
<1>4. \A s \in Service : s.port \in 0..MaxPort
  BY DEF Service
<1> QED BY <1>1, <1>2, <1>3, <1>4

\* Texts
LEMMA TextFacts == EmptyPart \in Parts /\ <<EmptyPart>> \in Texts /\ AnyAddress \in Texts
<1>1. EmptyPart \in Parts /\ Number(1, TRUE, 0) \in Parts
  BY DEF EmptyPart, Number, Parts
<1>2. <<EmptyPart>> \in Texts
  BY <1>1 DEF Texts
<1>3. AnyAddress \in Texts
  <2> DEFINE zero == Number(1, TRUE, 0)
  <2> HIDE DEF zero
  <2>1. zero \in Parts
    BY <1>1 DEF zero
  <2>2. AnyAddress = [i \in 1..4 |-> zero]
    BY DEF AnyAddress, zero
  <2>3. AnyAddress \in Seq(Parts) /\ Len(AnyAddress) = 4
    BY <2>1, <2>2
  <2>4. AnyAddress # <<>>
    BY <2>3
  <2> QED BY <2>3, <2>4 DEF Texts
<1> QED BY <1>1, <1>2, <1>3

\* The built-in configuration, and the defaults of any settings file
LEMMA DefaultTypes ==
    /\ BuiltInSettings \in Settings /\ BuiltIn \in Configs
    /\ \A t \in TomlFiles : LoadFromFile(t) \in Settings
<1>1. BuiltInSettings \in Settings
  <2>1. 8080 \in 0..MaxPort
    BY SMT DEF MaxPort
  <2>2. "p2c" \in AlgorithmTexts
    BY ConfigEditorAssumption DEF Algorithms
  <2> QED BY <2>1, <2>2, TextFacts DEF BuiltInSettings, Settings
<1>2. BuiltIn \in Configs
  BY <1>1 DEF BuiltIn, Configs
<1>3. ASSUME NEW t \in TomlFiles PROVE LoadFromFile(t) \in Settings
  <2>1. /\ t.keys.address \in Optional(Texts) /\ t.keys.port \in Optional(Int)
        /\ t.keys.algorithm \in Optional(AlgorithmTexts)
    BY DEF TomlFiles
  <2>2. /\ BuiltInSettings.address \in Texts /\ BuiltInSettings.port \in Int
        /\ BuiltInSettings.algorithm \in AlgorithmTexts
    BY <1>1, SMT DEF Settings
  <2>3. /\ ValueOr(t.keys.address, BuiltInSettings.address) \in Texts
        /\ ValueOr(t.keys.port, BuiltInSettings.port) \in Int
        /\ ValueOr(t.keys.algorithm, BuiltInSettings.algorithm) \in AlgorithmTexts
    BY <2>1, <2>2, OptionalFacts
  <2>4. ValueOr(t.keys.port, BuiltInSettings.port) % 65536 \in 0..MaxPort
    BY <2>3, Narrowed
  <2> QED BY <2>3, <2>4 DEF LoadFromFile, Settings
<1> QED BY <1>1, <1>2, <1>3

\* A set of indices that is not empty has a smallest one.
LEMMA SmallestIndex ==
    ASSUME NEW S \in SUBSET Nat, S # {}
    PROVE  \E w \in S : \A x \in S : w <= x
<1>1. PICK w \in S : \A x \in S : ~(<<x, w>> \in OpToRel(<, Nat))
  BY NatLessThanWellFounded, WFMin, Zenon
<1>2. \A x \in S : ~(x < w)
  BY <1>1 DEF OpToRel
<1> QED BY <1>2

\* What is loaded stops in front of the first entry that does not convert.
LEMMA ConvertedType ==
    ASSUME NEW entries \in Seq(Service \cup {BadEntry})
    PROVE  /\ Converted(entries) \in Seq(Service)
           /\ entries \in Seq(Service) => Converted(entries) = entries
<1> DEFINE I == {i \in 1..Len(entries) : entries[i] = BadEntry}
<1>1. SelectInSeq(entries, LAMBDA e : e = BadEntry) = IF I # {} THEN Min(I) ELSE 0
  BY DEF SelectInSeq
<1>2. Len(entries) \in Nat /\ \A i \in 1..Len(entries) : entries[i] \in Service \cup {BadEntry}
  OBVIOUS
<1>3. CASE I = {}
  <2>1. Converted(entries) = entries
    BY <1>1, <1>3 DEF Converted
  <2>2. \A i \in 1..Len(entries) : entries[i] \in Service
    BY <1>2, <1>3
  <2>3. entries \in Seq(Service)
    BY <2>2
  <2> QED BY <2>1, <2>3
<1>4. CASE I # {}
  <2>1. Min(I) \in I /\ \A x \in I : Min(I) <= x
    <3>1. I \in SUBSET Nat
      BY <1>2
    <3> HIDE DEF I
    <3>2. \E w \in I : \A x \in I : w <= x
      BY <1>4, <3>1, SmallestIndex
    <3> QED BY <3>2 DEF Min
  <2>2. PICK m \in I : m = Min(I) /\ \A x \in I : m <= x
    BY <2>1
  <2>3. m \in 1..Len(entries) /\ entries[m] = BadEntry
    OBVIOUS
  <2>a. \A x \in 1..(m - 1) : entries[x] # BadEntry
    BY <1>2, <2>2, <2>3
  <2>b. Converted(entries) = SubSeq(entries, 1, m - 1)
    <3> DEFINE bad == SelectInSeq(entries, LAMBDA e : e = BadEntry)
    <3>1. Converted(entries) = IF bad = 0 THEN entries ELSE SubSeq(entries, 1, bad - 1)
      BY DEF Converted
    <3>2. bad = m
      <4> HIDE DEF I
      <4> QED BY <1>1, <1>4, <2>2
    <3> HIDE DEF bad
    <3> QED BY <1>2, <2>3, <3>1, <3>2
  <2>4. SubSeq(entries, 1, m - 1) \in Seq(Service)
    <3>1. \A x \in 1..(m - 1) : entries[x] \in Service
      BY <1>2, <2>3, <2>a
    <3> QED BY <1>2, <2>3, <3>1
  <2>5. entries \notin Seq(Service)
    BY <2>3, Markers
  <2> QED BY <2>b, <2>4, <2>5
<1> QED BY <1>3, <1>4

-----------------------------------------------------------------------------
(* The loop of OnRemoveService().                                           *)

\* erase() closes the gap.
LEMMA RemoveServiceFacts ==
    ASSUME NEW S, NEW s \in Seq(S), NEW i \in 1..Len(s)
    PROVE  /\ RemoveService(s, i) \in Seq(S)
           /\ Len(RemoveService(s, i)) = Len(s) - 1
           /\ \A j \in 1..(Len(s) - 1) :
                RemoveService(s, i)[j] = IF j < i THEN s[j] ELSE s[j + 1]
<1>1. RemoveService(s, i) = SubSeq(s, 1, i - 1) \o SubSeq(s, i + 1, Len(s))
  <2>1. RemoveService(s, i) = RemoveAt(s, i)
    BY DEF RemoveService
  <2> QED BY <2>1, Zenon DEF RemoveAt
<1>2. /\ SubSeq(s, 1, i - 1) \in Seq(S) /\ Len(SubSeq(s, 1, i - 1)) = i - 1
      /\ \A j \in 1..(i - 1) : SubSeq(s, 1, i - 1)[j] = s[j]
  OBVIOUS
<1>3. /\ SubSeq(s, i + 1, Len(s)) \in Seq(S) /\ Len(SubSeq(s, i + 1, Len(s))) = Len(s) - i
      /\ \A j \in 1..(Len(s) - i) : SubSeq(s, i + 1, Len(s))[j] = s[j + i]
  OBVIOUS
<1> DEFINE a == SubSeq(s, 1, i - 1)
           b == SubSeq(s, i + 1, Len(s))
<1> HIDE DEF a, b
<1>4. a \in Seq(S) /\ b \in Seq(S) /\ Len(a) = i - 1 /\ Len(b) = Len(s) - i
  BY <1>2, <1>3 DEF a, b
<1>5. a \o b \in Seq(S) /\ Len(a \o b) = Len(s) - 1
  BY <1>4
<1>6. ASSUME NEW j \in 1..(Len(s) - 1)
      PROVE  (a \o b)[j] = IF j < i THEN s[j] ELSE s[j + 1]
  <2>1. CASE j < i
    BY <1>2, <1>4, <2>1 DEF a
  <2>2. CASE ~(j < i)
    <3>1. (a \o b)[j] = b[j - (i - 1)]
      BY <1>4, <2>2
    <3>2. b[j - (i - 1)] = s[j - (i - 1) + i]
      BY <1>3, <2>2 DEF b
    <3> QED BY <2>2, <3>1, <3>2
  <2> QED BY <2>1, <2>2
<1> QED BY <1>1, <1>5, <1>6 DEF a, b

\* after[i] is what the loop has left when it is done with the rows from i on.
LEMMA RemoveLoop ==
    ASSUME NEW services \in Seq(Service), NEW selected
    PROVE  \E after :
             /\ RemoveSelected(services, selected) = after[1]
             /\ after[Len(services) + 1] = services
             /\ \A i \in 1..Len(services) :
                  after[i] = IF i \in selected THEN RemoveService(after[i + 1], i)
                             ELSE after[i + 1]
<1> DEFINE N == Len(services)
           Body(g, i) == IF i > N THEN services
                         ELSE IF i \in selected THEN RemoveService(g[i + 1], i) ELSE g[i + 1]
           From(m) == \E g : g = [i \in m..(N + 1) |-> Body(g, i)]
           Bad == {k \in 0..N : ~From(N + 1 - k)}
<1>1. N \in Nat
  OBVIOUS
<1>2. From(N + 1)
  <2> DEFINE g == [i \in (N + 1)..(N + 1) |-> services]
  <2>1. g = [i \in (N + 1)..(N + 1) |-> Body(g, i)]
    BY <1>1
  <2> QED BY <2>1
<1>3. ASSUME NEW m \in 1..N, From(m + 1) PROVE From(m)
  <2> PICK g : g = [i \in (m + 1)..(N + 1) |-> Body(g, i)]
    BY <1>3
  <2> DEFINE h == [i \in m..(N + 1) |-> IF i = m THEN Body(g, i) ELSE g[i]]
  <2>1. ASSUME NEW i \in m..(N + 1) PROVE h[i] = Body(h, i)
    <3>1. CASE i = m
      <4>1. h[m + 1] = g[m + 1] /\ h[m] = Body(g, m)
        BY <1>1
      <4> QED BY <1>1, <3>1, <4>1
    <3>2. CASE i # m
      <4>1. i \in (m + 1)..(N + 1) /\ h[i] = g[i] /\ g[i] = Body(g, i)
        BY <1>1, <3>2
      <4>2. i <= N => h[i + 1] = g[i + 1]
        BY <1>1, <3>2
      <4> QED BY <1>1, <4>1, <4>2
    <3> QED BY <3>1, <3>2
  <2>2. h = [i \in m..(N + 1) |-> h[i]]
    OBVIOUS
  <2>3. h = [i \in m..(N + 1) |-> Body(h, i)]
    <3> HIDE DEF h, Body
    <3> QED BY <2>1, <2>2
  <2> QED BY <2>3
<1>4. From(1)
  <2> SUFFICES ASSUME ~From(1) PROVE FALSE
    OBVIOUS
  <2> HIDE DEF From
  <2>1. N \in Bad
    BY <1>1
  <2>2. Bad \in SUBSET Nat
    BY <1>1
  <2>3. PICK k \in Bad : \A x \in Bad : k <= x
    <3> HIDE DEF Bad
    <3> QED BY <2>1, <2>2, SmallestIndex
  <2>4. k \in 0..N /\ ~From(N + 1 - k)
    OBVIOUS
  <2>5. k # 0
    <3>1. N + 1 - 0 = N + 1
      BY <1>1
    <3> QED BY <1>2, <2>4, <3>1
  <2>6. k - 1 \in 0..N /\ k - 1 \notin Bad
    BY <1>1, <2>3, <2>4, <2>5
  <2>7. From(N + 1 - (k - 1))
    BY <2>6
  <2>8. N + 1 - (k - 1) = (N + 1 - k) + 1 /\ N + 1 - k \in 1..N
    BY <1>1, <2>4, <2>5
  <2> QED BY <1>3, <2>4, <2>7, <2>8
<1> DEFINE after == CHOOSE g : g = [i \in 1..(N + 1) |-> Body(g, i)]
<1>5. after = [i \in 1..(N + 1) |-> Body(after, i)]
  BY <1>4
<1>6. RemoveSelected(services, selected) = after[1]
  BY DEF RemoveSelected
<1> HIDE DEF after
<1>7. \A i \in 1..(N + 1) : after[i] = Body(after, i)
  BY <1>5
<1> QED BY <1>1, <1>6, <1>7

\* What every single removal preserves, the loop preserves.
LEMMA RemoveSelectedKeeps ==
    ASSUME NEW services \in Seq(Service), NEW selected,
           NEW Good \in SUBSET Seq(Service), services \in Good,
           \A s \in Good : \A i \in 1..Len(s) : RemoveService(s, i) \in Good
    PROVE  RemoveSelected(services, selected) \in Good
<1> DEFINE N == Len(services)
<1>1. PICK after :
        /\ RemoveSelected(services, selected) = after[1]
        /\ after[N + 1] = services
        /\ \A i \in 1..N : after[i] = IF i \in selected THEN RemoveService(after[i + 1], i)
                                      ELSE after[i + 1]
  BY RemoveLoop
<1>2. N \in Nat
  OBVIOUS
<1>3. ASSUME NEW s \in Good, NEW i \in Nat PROVE RemoveService(s, i) \in Good
  <2>1. CASE i \in 1..Len(s)
    BY <2>1
  <2>2. CASE i \notin 1..Len(s)
    <3>1. s \in Seq(Service)
      OBVIOUS
    <3>2. i \notin DOMAIN s
      BY <2>2, <3>1
    <3> QED BY <3>2 DEF RemoveService
  <2> QED BY <2>1, <2>2
<1> DEFINE Bad == {k \in 0..N : after[N + 1 - k] \notin Good}
<1>4. Bad = {}
  <2> SUFFICES ASSUME Bad # {} PROVE FALSE
    OBVIOUS
  <2>1. Bad \in SUBSET Nat
    BY <1>2
  <2>2. PICK k \in Bad : \A x \in Bad : k <= x
    <3> HIDE DEF Bad
    <3> QED BY <2>1, SmallestIndex
  <2>3. k \in 0..N /\ after[N + 1 - k] \notin Good
    OBVIOUS
  <2>4. k # 0
    <3>1. N + 1 - 0 = N + 1
      BY <1>2
    <3> QED BY <1>1, <2>3, <3>1
  <2>5. k - 1 \in 0..N /\ k - 1 \notin Bad
    <3> HIDE DEF Bad
    <3> QED BY <1>2, <2>2, <2>3, <2>4
  <2>6. after[N + 1 - (k - 1)] \in Good
    BY <2>5
  <2> DEFINE m == N + 1 - k
  <2>7. N + 1 - (k - 1) = m + 1 /\ m \in 1..N /\ m \in Nat
    BY <1>2, <2>3, <2>4
  <2>8. after[m] \notin Good
    BY <2>3
  <2> HIDE DEF m, Bad, N
  <2>9. after[m + 1] \in Good
    BY <2>6, <2>7
  <2>10. RemoveService(after[m + 1], m) \in Good
    BY <1>3, <2>7, <2>9
  <2> QED BY <1>1, <2>7, <2>8, <2>9, <2>10
<1>5. N \in 0..N /\ N + 1 - N = 1
  BY <1>2
<1> QED BY <1>1, <1>4, <1>5

\* The loop's invariant: rows in front of i are untouched, and of the rows
\* from i on those that stay follow in their order.
RowsFrom(services, selected, i) == {j \in i..Len(services) : j \notin selected}

LoopInv(services, selected, i, left) ==
    /\ left \in Seq(Service)
    /\ Len(left) = i - 1 + Cardinality(RowsFrom(services, selected, i))
    /\ \A j \in 1..(i - 1) : left[j] = services[j]
    /\ \A j \in RowsFrom(services, selected, i) :
         left[i - 1 + Cardinality({x \in RowsFrom(services, selected, i) : x <= j})]
           = services[j]

\* Rows are finitely many.
LEMMA RowsFinite ==
    ASSUME NEW services \in Seq(Service), NEW selected, NEW i \in Nat,
           NEW T \in SUBSET RowsFrom(services, selected, i)
    PROVE  IsFiniteSet(T) /\ Cardinality(T) \in Nat
<1>1. IsFiniteSet(i..Len(services))
  BY FS_Interval
<1>2. T \in SUBSET (i..Len(services))
  BY DEF RowsFrom
<1> QED BY <1>1, <1>2, FS_Subset, FS_CardinalityType

\* A row that stays is counted in front of the later ones.
LEMMA LoopKeepsRow ==
    ASSUME NEW services \in Seq(Service), NEW selected, NEW i \in 1..Len(services),
           i \notin selected, NEW left, LoopInv(services, selected, i + 1, left)
    PROVE  LoopInv(services, selected, i, left)
<1> DEFINE old == RowsFrom(services, selected, i + 1)
<1>2. /\ left \in Seq(Service)
      /\ Len(left) = i + Cardinality(old)
      /\ \A j \in 1..(i) : left[j] = services[j]
      /\ \A j \in old : left[i + Cardinality({x \in old : x <= j})] = services[j]
  <2> DEFINE k == i + 1
  <2>1. LoopInv(services, selected, k, left)
    OBVIOUS
  <2> HIDE DEF k
  <2>2. /\ left \in Seq(Service)
        /\ Len(left) = k - 1 + Cardinality(RowsFrom(services, selected, k))
        /\ \A j \in 1..(k - 1) : left[j] = services[j]
        /\ \A j \in RowsFrom(services, selected, k) :
             left[k - 1 + Cardinality({x \in RowsFrom(services, selected, k) : x <= j})]
               = services[j]
    BY <2>1 DEF LoopInv
  <2>3. k - 1 = i /\ old = RowsFrom(services, selected, k)
    BY DEF k
  <2> HIDE DEF old
  <2> QED BY <2>2, <2>3
<1> DEFINE new == RowsFrom(services, selected, i)
<1>1. new = old \cup {i} /\ i \notin old /\ \A j \in old : j \in Nat /\ j > i
  BY DEF RowsFrom
<1>3. ASSUME NEW T \in SUBSET old
      PROVE  Cardinality(T) \in Nat /\ Cardinality(T \cup {i}) = Cardinality(T) + 1
  <2>1. IsFiniteSet(T) /\ Cardinality(T) \in Nat
    BY RowsFinite
  <2>2. i \notin T
    BY <1>1
  <2> QED BY <2>1, <2>2, FS_AddElement
<1> HIDE DEF old, new
<1>4. Len(left) = i - 1 + Cardinality(new)
  BY <1>1, <1>2, <1>3
<1>5. ASSUME NEW j \in new
      PROVE  left[i - 1 + Cardinality({x \in new : x <= j})] = services[j]
  <2>1. CASE j = i
    <3>1. {x \in new : x <= j} = {} \cup {i}
      <4>1. ASSUME NEW x \in old PROVE ~(x <= i)
        BY <1>1
      <4>2. i <= i
        OBVIOUS
      <4> QED BY <1>1, <2>1, <4>1, <4>2, Zenon
    <3>2. Cardinality({} \cup {i}) = 1
      BY <1>3, FS_EmptySet
    <3>3. i - 1 + 1 = i /\ i \in 1..(i)
      OBVIOUS
    <3>4. left[i] = services[i]
      BY <1>2, <3>3
    <3> QED BY <2>1, <3>1, <3>2, <3>3, <3>4
  <2>2. CASE j \in old
    <3> DEFINE T == {x \in old : x <= j}
    <3>1. {x \in new : x <= j} = T \cup {i}
      BY <1>1, <2>2
    <3>2. Cardinality(T) \in Nat /\ Cardinality(T \cup {i}) = Cardinality(T) + 1
      BY <1>3
    <3>3. left[i + Cardinality(T)] = services[j]
      BY <1>2, <2>2
    <3> HIDE DEF T
    <3>4. i - 1 + Cardinality(T \cup {i}) = i + Cardinality(T)
      BY <3>2
    <3> QED BY <3>1, <3>3, <3>4
  <2> QED BY <1>1, <2>1, <2>2
<1>6. \A j \in 1..(i - 1) : left[j] = services[j]
  BY <1>2
<1> QED BY <1>2, <1>4, <1>5, <1>6 DEF LoopInv, new

\* A row that goes moves the later ones up by one.
LEMMA LoopRemovesRow ==
    ASSUME NEW services \in Seq(Service), NEW selected, NEW i \in 1..Len(services),
           i \in selected, NEW left, LoopInv(services, selected, i + 1, left)
    PROVE  LoopInv(services, selected, i, RemoveService(left, i))
<1> DEFINE kept == RowsFrom(services, selected, i + 1)
           r == RemoveService(left, i)
<1>1. RowsFrom(services, selected, i) = kept
  BY DEF RowsFrom
<1>2. /\ left \in Seq(Service)
      /\ Len(left) = i + 1 - 1 + Cardinality(kept)
      /\ \A j \in 1..(i + 1 - 1) : left[j] = services[j]
      /\ \A j \in kept : left[i + 1 - 1 + Cardinality({x \in kept : x <= j})] = services[j]
  BY DEF LoopInv
<1>3. \A T \in SUBSET kept : IsFiniteSet(T) /\ Cardinality(T) \in Nat
  BY RowsFinite
<1>4. \A j \in kept : j \in Nat
  BY DEF RowsFrom
<1> HIDE DEF kept
<1>5. Cardinality(kept) \in Nat /\ i \in 1..Len(left)
  BY <1>2, <1>3
<1>6. /\ r \in Seq(Service)
      /\ Len(r) = Len(left) - 1
      /\ \A j \in 1..(Len(left) - 1) : r[j] = IF j < i THEN left[j] ELSE left[j + 1]
  BY <1>2, <1>5, RemoveServiceFacts
<1> HIDE DEF r
<1>7. Len(r) = i - 1 + Cardinality(kept)
  BY <1>2, <1>5, <1>6
<1>8. ASSUME NEW j \in 1..(i - 1) PROVE r[j] = services[j]
  BY <1>2, <1>5, <1>6
<1>9. ASSUME NEW j \in kept
      PROVE  r[i - 1 + Cardinality({x \in kept : x <= j})] = services[j]
  <2> DEFINE T == {x \in kept : x <= j}
             n == Cardinality(T)
  <2>1. IsFiniteSet(T) /\ n \in Nat /\ j \in T
    BY <1>3, <1>4
  <2>2. n # 0
    BY <2>1, FS_EmptySet
  <2>3. n <= Cardinality(kept)
    <3>1. IsFiniteSet(kept)
      BY <1>3
    <3> QED BY <3>1, FS_Subset
  <2>4. left[i + 1 - 1 + n] = services[j]
    BY <1>2
  <2> HIDE DEF n
  <2>5. r[i - 1 + n] = left[i - 1 + n + 1]
    BY <1>2, <1>5, <1>6, <2>1, <2>2, <2>3
  <2>6. i - 1 + n + 1 = i + 1 - 1 + n
    BY <2>1
  <2> QED BY <2>4, <2>5, <2>6 DEF n
<1> QED BY <1>1, <1>6, <1>7, <1>8, <1>9 DEF LoopInv, r

\* What is left are the rows that were not selected, in their order.
LEMMA RemoveSelectedExact ==
    ASSUME NEW services \in Seq(Service), NEW selected
    PROVE  LoopInv(services, selected, 1, RemoveSelected(services, selected))
<1> DEFINE N == Len(services)
<1>1. PICK after :
        /\ RemoveSelected(services, selected) = after[1]
        /\ after[N + 1] = services
        /\ \A i \in 1..N : after[i] = IF i \in selected THEN RemoveService(after[i + 1], i)
                                      ELSE after[i + 1]
  BY RemoveLoop
<1>2. N \in Nat
  OBVIOUS
<1> DEFINE Inv(i) == LoopInv(services, selected, i, after[i])
<1>3. Inv(N + 1)
  <2>1. RowsFrom(services, selected, N + 1) = {}
    BY <1>2 DEF RowsFrom
  <2>2. Cardinality({}) = 0
    BY FS_EmptySet
  <2> DEFINE k == N + 1
  <2>3. k - 1 = N /\ RowsFrom(services, selected, k) = {}
    BY <1>2, <2>1
  <2>4. LoopInv(services, selected, k, services)
    <3> HIDE DEF k
    <3>1. N = k - 1 + Cardinality(RowsFrom(services, selected, k))
      BY <1>2, <2>2, <2>3
    <3> QED BY <2>3, <3>1 DEF LoopInv
  <2> QED BY <1>1, <2>4
<1>4. ASSUME NEW i \in 1..N, Inv(i + 1) PROVE Inv(i)
  <2>1. CASE i \in selected
    BY <1>1, <1>4, <2>1, LoopRemovesRow
  <2>2. CASE i \notin selected
    BY <1>1, <1>4, <2>2, LoopKeepsRow
  <2> QED BY <2>1, <2>2
<1> HIDE DEF Inv
<1> DEFINE Bad == {k \in 0..N : ~Inv(N + 1 - k)}
<1>5. Bad = {}
  <2> SUFFICES ASSUME Bad # {} PROVE FALSE
    OBVIOUS
  <2>1. Bad \in SUBSET Nat
    BY <1>2
  <2>2. PICK k \in Bad : \A x \in Bad : k <= x
    <3> HIDE DEF Bad
    <3> QED BY <2>1, SmallestIndex
  <2>3. k \in 0..N /\ ~Inv(N + 1 - k)
    OBVIOUS
  <2>4. k # 0
    <3>1. N + 1 - 0 = N + 1
      BY <1>2
    <3> QED BY <1>3, <2>3, <3>1
  <2>5. k - 1 \in 0..N /\ k - 1 \notin Bad
    <3> HIDE DEF Bad
    <3> QED BY <1>2, <2>2, <2>3, <2>4
  <2>6. Inv(N + 1 - (k - 1))
    BY <2>5
  <2>7. N + 1 - (k - 1) = (N + 1 - k) + 1 /\ N + 1 - k \in 1..N
    BY <1>2, <2>3, <2>4
  <2> QED BY <1>4, <2>3, <2>6, <2>7
<1>6. N \in 0..N /\ N + 1 - N = 1
  BY <1>2
<1>7. Inv(1)
  BY <1>5, <1>6
<1> QED BY <1>1, <1>7 DEF Inv

-----------------------------------------------------------------------------
(* The invariant of the tool.                                               *)

\* A window that is closed has no edits to lose: Start() finds no mark.
EditorInv == TypeOK /\ (~open => ~unsaved)

\* Load() of a file of any kind fills a configuration with what converts.
LEMMA LoadType ==
    ASSUME file \in Files, NEW into \in Configs
    PROVE  Load(into).config \in Configs
<1> DEFINE old       == into.settings
           address   == ValueOr(file.keys.address, old.address)
           port      == ValueOr(file.keys.port, old.port)
           algorithm == ValueOr(file.keys.algorithm, old.algorithm)
           services  == Converted(file.entries)
<1>1. old \in Settings /\ old.address \in Texts /\ old.port \in 0..MaxPort
      /\ old.algorithm \in AlgorithmTexts
  BY DEF Configs, Settings
<1>2. services \in Seq(Service)
  BY ConvertedType DEF Files
<1>3. /\ file.keys.address \in Optional(Texts) /\ file.keys.algorithm \in Optional(AlgorithmTexts)
      /\ file.keys.port # Unreadable => file.keys.port \in Optional(0..MaxPort)
  BY DEF Files, FileKeys
<1>4. /\ address \in Texts /\ algorithm \in AlgorithmTexts
      /\ file.keys.port # Unreadable => port \in 0..MaxPort
  BY <1>1, <1>3, OptionalFacts
<1> HIDE DEF address, port, algorithm, services
<1>5. CASE file.kind # "yaml"
  BY <1>5 DEF Load
<1>6. CASE file.kind = "yaml" /\ file.keys.port = Unreadable
  <2>1. Load(into).config = [settings |-> [old EXCEPT !.address = address], services |-> <<>>]
    BY <1>6 DEF Load, address
  <2>2. [old EXCEPT !.address = address] \in Settings
    BY <1>1, <1>4 DEF Settings
  <2>3. <<>> \in Seq(Service)
    OBVIOUS
  <2> QED BY <2>1, <2>2, <2>3 DEF Configs
<1>7. CASE file.kind = "yaml" /\ file.keys.port # Unreadable
  <2> DEFINE settings == [address |-> address, port |-> port, algorithm |-> algorithm]
  <2>1. Load(into).config = [settings |-> settings, services |-> services]
    BY <1>7 DEF Load, address, port, algorithm, services
  <2>2. settings \in Settings
    BY <1>4, <1>7 DEF Settings
  <2> HIDE DEF settings
  <2> QED BY <1>2, <2>1, <2>2 DEF Configs
<1> QED BY <1>5, <1>6, <1>7

\* What is left of a text is a text.
LEMMA CutTextType ==
    ASSUME NEW ip \in Texts, NEW t \in CutText(ip)
    PROVE  t \in Texts
<1> DEFINE last == Last(ip)
           cut == IF last.size \in 2..3 THEN [last EXCEPT !.size = @ - 1, !.value = @ \div 10]
                  ELSE EmptyPart
<1>1. ip \in Seq(Parts) /\ Len(ip) \in Nat /\ Len(ip) > 0
  BY DEF Texts
<1>2. last \in Parts
  BY <1>1 DEF Last
<1>3. cut \in Parts
  <2> HIDE DEF last
  <2>1. CASE last.size \in 2..3
    <3> DEFINE v == last.value \div 10
    <3>1. last.value \in Nat /\ v \in Nat
      BY <1>2 DEF Parts
    <3>2. last = [size |-> last.size, digits |-> last.digits, zero |-> last.zero,
                  value |-> last.value]
          /\ last.digits \in BOOLEAN /\ last.zero \in BOOLEAN
      BY <1>2 DEF Parts
    <3>3. cut = [size |-> last.size - 1, digits |-> last.digits, zero |-> last.zero, value |-> v]
      BY <2>1, <3>2
    <3>4. last.size - 1 \in 1..2
      BY <2>1
    <3> HIDE DEF cut, v
    <3> QED BY <3>1, <3>2, <3>3, <3>4 DEF Parts
  <2>2. CASE last.size \notin 2..3
    BY <2>2, TextFacts
  <2> QED BY <2>1, <2>2
<1>4. CutText(ip) = {<<EmptyPart>>, Front(ip) \o <<cut>>}
  BY DEF CutText
<1> HIDE DEF cut
<1>5. Front(ip) \in Seq(Parts)
  BY <1>1 DEF Front
<1>6. Front(ip) \o <<cut>> \in Seq(Parts) /\ Len(Front(ip) \o <<cut>>) > 0
  <2> DEFINE f == Front(ip)
  <2> HIDE DEF f
  <2>1. f \in Seq(Parts) /\ <<cut>> \in Seq(Parts) /\ Len(<<cut>>) = 1
    BY <1>3, <1>5 DEF f
  <2>2. f \o <<cut>> \in Seq(Parts) /\ Len(f \o <<cut>>) = Len(f) + 1 /\ Len(f) \in Nat
    BY <2>1
  <2> QED BY <2>2 DEF f
<1>7. Front(ip) \o <<cut>> \in Texts
  <2> DEFINE g == Front(ip) \o <<cut>>
  <2> HIDE DEF g
  <2>1. g \in Seq(Parts) /\ Len(g) > 0
    BY <1>6 DEF g
  <2>2. g \in Texts
    BY <2>1 DEF Texts
  <2> QED BY <2>2 DEF g
<1> QED BY <1>4, <1>7, TextFacts

\* What is left of a number is one, or does not convert.
LEMMA CutNumberType ==
    ASSUME NEW n \in 0..MaxPort
    PROVE  /\ <<CutNumber(n)>> \in Optional(0..MaxPort) \cup {Unreadable}
           /\ ~(n < 10) => CutNumber(n) \in 0..MaxPort
<1>1. MaxPort \in Nat
  BY PortRange
<1>2. ~(n < 10) => CutNumber(n) = n \div 10
  BY <1>1 DEF CutNumber
<1>3. n < 10 => <<CutNumber(n)>> = Unreadable
  BY <1>1 DEF CutNumber, Unreadable
<1>4. n \div 10 \in 0..MaxPort
  <2> HIDE DEF MaxPort
  <2> QED BY <1>1
<1>5. ~(n < 10) => CutNumber(n) \in 0..MaxPort
  BY <1>2, <1>4
<1>6. ~(n < 10) => <<CutNumber(n)>> \in Optional(0..MaxPort)
  BY <1>5, OptionalFacts
<1> QED BY <1>3, <1>5, <1>6

\* What is left of the settings, and of a service
LEMMA CutTypes ==
    /\ \A s \in Settings : AllKeys(s) \in FileKeys /\ CutKeys(s) \subseteq FileKeys
    /\ \A s \in Service : CutEntries(s) \subseteq Service \cup {BadEntry}
<1>1. ASSUME NEW a \in Optional(Texts), NEW p \in Optional(0..MaxPort) \cup {Unreadable},
             NEW g \in Optional(AlgorithmTexts)
      PROVE  Keys(a, p, g) \in FileKeys
  BY DEF Keys, FileKeys
<1>2. ASSUME NEW s \in Settings
      PROVE  /\ AllKeys(s) \in FileKeys
             /\ CutKeys(s) \subseteq FileKeys
  <2>1. /\ <<s.address>> \in Optional(Texts) /\ <<>> \in Optional(Texts)
        /\ <<s.port>> \in Optional(0..MaxPort) /\ <<>> \in Optional(0..MaxPort)
        /\ <<s.algorithm>> \in Optional(AlgorithmTexts) /\ <<>> \in Optional(AlgorithmTexts)
        /\ \A text \in AlgorithmTexts : <<text>> \in Optional(AlgorithmTexts)
    <3>1. s.address \in Texts /\ s.port \in 0..MaxPort /\ s.algorithm \in AlgorithmTexts
      BY DEF Settings
    <3> QED BY <3>1, OptionalFacts
  <2>2. <<CutNumber(s.port)>> \in Optional(0..MaxPort) \cup {Unreadable}
    BY CutNumberType DEF Settings
  <2>3. \A text \in CutText(s.address) : <<text>> \in Optional(Texts)
    BY CutTextType, OptionalFacts DEF Settings
  <2>4. AllKeys(s) \in FileKeys
    BY <1>1, <2>1 DEF AllKeys
  <2>5. NoKeys \in FileKeys
    BY <1>1, <2>1 DEF NoKeys
  <2>6. /\ Keys(<<s.address>>, <<CutNumber(s.port)>>, <<>>) \in FileKeys
        /\ Keys(<<s.address>>, <<s.port>>, <<>>) \in FileKeys
        /\ \A text \in CutText(s.address) : Keys(<<text>>, <<>>, <<>>) \in FileKeys
        /\ \A text \in AlgorithmTexts : Keys(<<s.address>>, <<s.port>>, <<text>>) \in FileKeys
    BY <1>1, <2>1, <2>2, <2>3
  <2> QED BY <2>4, <2>5, <2>6, Zenon DEF CutKeys
<1>3. ASSUME NEW s \in Service PROVE CutEntries(s) \subseteq Service \cup {BadEntry}
  <2>1. /\ s.name \in Names \cup {NoName} /\ s.ip \in Texts /\ s.port \in 0..MaxPort
        /\ s = [name |-> s.name, ip |-> s.ip, port |-> s.port]
    BY DEF Service
  <2>2. 0 \in 0..MaxPort
    BY PortRange
  <2>3. [name |-> NoName, ip |-> <<EmptyPart>>, port |-> 0] \in Service
    BY <2>2, TextFacts DEF Service
  <2>4. ~(s.port < 10) => [s EXCEPT !.port = CutNumber(@)] \in Service
    <3>1. ~(s.port < 10) => CutNumber(s.port) \in 0..MaxPort
      BY <2>1, CutNumberType
    <3>2. [s EXCEPT !.port = CutNumber(@)] =
            [name |-> s.name, ip |-> s.ip, port |-> CutNumber(s.port)]
      BY <2>1
    <3> QED BY <2>1, <3>1, <3>2 DEF Service
  <2>5. ASSUME NEW text \in CutText(s.ip)
        PROVE  [s EXCEPT !.ip = text, !.port = 0] \in Service
    <3>1. text \in Texts
      BY <2>1, CutTextType
    <3> QED BY <2>2, <3>1 DEF Service
  <2> QED BY <2>3, <2>4, <2>5, Zenon DEF CutEntries
<1> QED BY <1>2, <1>3

\* Every file the tool meets: written by hand, saved, or cut off
LEMMA FileTypes ==
    /\ HandWrittenFiles \subseteq Files
    /\ config \in Configs => Yaml(AllKeys(config.settings), config.services) \in Files
    /\ config \in Configs => Truncated \subseteq Files
<1>1. Absent \in Files /\ Garbage \in Files
  <2>1. NoKeys \in FileKeys
    BY OptionalFacts DEF NoKeys, Keys, FileKeys
  <2> QED BY <2>1 DEF Absent, Garbage, Files
<1>2. ASSUME NEW k \in FileKeys, NEW e \in Seq(Service \cup {BadEntry})
      PROVE  Yaml(k, e) \in Files
  BY DEF Yaml, Files
<1>3. HandWrittenFiles \subseteq Files
  <2>1. BoundedSeq(HandWritten \cup {BadEntry}, MaxHandWritten) \subseteq Seq(Service \cup {BadEntry})
    BY HandWrittenAssumption, ConfigEditorAssumption DEF BoundedSeq, SeqOf
  <2>2. ASSUME NEW k \in HandKeys,
               NEW e \in BoundedSeq(HandWritten \cup {BadEntry}, MaxHandWritten)
        PROVE  Yaml(k, e) \in Files
    BY <1>2, <2>1, HandWrittenAssumption
  <2> QED BY <1>1, <2>2 DEF HandWrittenFiles
<1>4. ASSUME config \in Configs
      PROVE  /\ config.settings \in Settings
             /\ config.services \in Seq(Service)
             /\ config.services \in Seq(Service \cup {BadEntry})
  BY <1>4 DEF Configs
<1>5. ASSUME config \in Configs PROVE Yaml(AllKeys(config.settings), config.services) \in Files
  BY <1>2, <1>4, <1>5, CutTypes
<1>6. ASSUME config \in Configs PROVE Truncated \subseteq Files
  <2> DEFINE S == Service \cup {BadEntry}
             services == config.services
             whole(i) == SubSeq(services, 1, i - 1)
             rest(i) == {<<>>} \cup {<<e>> : e \in CutEntries(services[i])}
  <2>1. ASSUME NEW k \in CutKeys(config.settings) PROVE Yaml(k, <<>>) \in Files
    <3>1. k \in FileKeys
      BY <1>4, <1>6, CutTypes
    <3>2. <<>> \in Seq(S)
      OBVIOUS
    <3> QED BY <1>2, <3>1, <3>2
  <2>2. ASSUME NEW i \in 1..Len(services), NEW cut \in rest(i)
        PROVE  Yaml(AllKeys(config.settings), whole(i) \o cut) \in Files
    <3>1. services \in Seq(Service) /\ services[i] \in Service /\ i \in Nat
      BY <1>4, <1>6
    <3>2. \A e \in CutEntries(services[i]) : e \in S
      BY <3>1, CutTypes
    <3>3. cut \in Seq(S)
      <4> HIDE DEF S
      <4>1. CASE cut = <<>>
        BY <4>1
      <4>2. ASSUME NEW e \in CutEntries(services[i]), cut = <<e>> PROVE cut \in Seq(S)
        BY <3>2, <4>2
      <4> QED BY <4>1, <4>2
    <3>4. whole(i) \in Seq(S)
      <4>1. services \in Seq(S) /\ i - 1 \in 0..Len(services)
        BY <1>4, <1>6
      <4> HIDE DEF S, services
      <4> QED BY <4>1
    <3> DEFINE w == whole(i)
    <3> HIDE DEF w, S
    <3>5. w \o cut \in Seq(S)
      BY <3>3, <3>4 DEF w
    <3>6. Yaml(AllKeys(config.settings), w \o cut) \in Files
      BY <1>2, <1>4, <1>6, <3>5, CutTypes DEF S
    <3> QED BY <3>6 DEF w
  <2>3. ASSUME NEW f \in Truncated PROVE f \in Files
    <3>1. \/ f = Garbage
          \/ \E k \in CutKeys(config.settings) : f = Yaml(k, <<>>)
          \/ \E i \in 1..Len(services) : \E cut \in rest(i) :
               f = Yaml(AllKeys(config.settings), whole(i) \o cut)
      BY <2>3, Zenon DEF Truncated
    <3> QED BY <1>1, <2>1, <2>2, <3>1
  <2> QED BY <2>3
<1> QED BY <1>3, <1>5, <1>6

\* The window starts with the built-in configuration, and so it does again
\* after every end.
LEMMA EditorInitInv == Init => EditorInv
<1> SUFFICES ASSUME Init PROVE EditorInv
  OBVIOUS
<1>1. config \in Configs
  BY DefaultTypes DEF Init
<1>2. rows \in Seq(Service)
  BY DEF Init
<1>3. file \in Files
  <2>1. NoKeys \in FileKeys
    BY OptionalFacts DEF NoKeys, Keys, FileKeys
  <2>2. Absent \in Files /\ Garbage \in Files
    BY <2>1 DEF Absent, Garbage, Files
  <2> QED BY <2>2 DEF Init
<1>4. toml \in TomlFiles
  BY HandWrittenAssumption DEF Init
<1> QED BY <1>1, <1>2, <1>3, <1>4 DEF Init, EditorInv, TypeOK

\* One step per action of the tool and of the world outside.
LEMMA EditorNextInv == EditorInv /\ [Next]_vars => EditorInv'
<1> SUFFICES ASSUME EditorInv, [Next]_vars PROVE EditorInv'
  OBVIOUS
<1>t. /\ open \in BOOLEAN /\ unsaved \in BOOLEAN /\ (~open => ~unsaved)
      /\ config \in Configs /\ rows \in Seq(Service) /\ file \in Files /\ toml \in TomlFiles
  BY DEF EditorInv, TypeOK
\* The window goes, in one of three ways.
<1>e. ASSUME open' = FALSE, config' = BuiltIn, rows' = <<>>, unsaved' = FALSE,
             file' \in Files, UNCHANGED toml
      PROVE  EditorInv'
  <2>1. config' \in Configs /\ rows' \in Seq(Service)
    BY <1>e, DefaultTypes
  <2> QED BY <1>e, <1>t, <2>1 DEF EditorInv, TypeOK
<1>1. CASE UNCHANGED vars
  BY <1>1, <1>t DEF vars, EditorInv, TypeOK
<1>2. ASSUME NEW f \in HandWrittenFiles, EditByHand(f) PROVE EditorInv'
  <2>1. f \in Files
    BY FileTypes
  <2> QED BY <1>2, <1>t, <2>1 DEF EditByHand, EditorInv, TypeOK
<1>3. ASSUME NEW t \in HandToml, EditSettings(t) PROVE EditorInv'
  <2>1. t \in TomlFiles
    BY HandWrittenAssumption
  <2> QED BY <1>3, <1>t, <2>1 DEF EditSettings, EditorInv, TypeOK
<1>4. CASE Close
  BY <1>4, <1>t, <1>e DEF Close
<1>5. CASE DieWhileSaving
  <2>1. file' \in Files
    BY <1>5, <1>t, FileTypes DEF DieWhileSaving
  <2> QED BY <1>5, <1>e, <2>1 DEF DieWhileSaving
<1>6. CASE Start
  <2>1. ApplyDefaultConfig \in Configs
    BY <1>t, DefaultTypes DEF ApplyDefaultConfig, Configs
  <2>2. Load(ApplyDefaultConfig).config \in Configs
    BY <1>t, <2>1, LoadType
  <2>3. Load(ApplyDefaultConfig).config.services \in Seq(Service)
    BY <2>2 DEF Configs
  <2>4. config' \in Configs /\ rows' \in Seq(Service)
    <3>1. <<>> \in Seq(Service)
      OBVIOUS
    <3> QED BY <1>6, <2>2, <2>3, <3>1 DEF Start, LoadExistingConfig
  <2>5. toml' \in TomlFiles
    <3>1. SaveToFile(BuiltInSettings) \in TomlFiles
      <4>1. /\ BuiltInSettings.address \in Texts /\ BuiltInSettings.port \in Int
            /\ BuiltInSettings.algorithm \in AlgorithmTexts
        BY DefaultTypes, SMT DEF Settings
      <4>2. /\ <<BuiltInSettings.address>> \in Optional(Texts)
            /\ <<BuiltInSettings.port>> \in Optional(Int)
            /\ <<BuiltInSettings.algorithm>> \in Optional(AlgorithmTexts)
        BY <4>1, OptionalFacts
      <4> QED BY <4>2 DEF SaveToFile, Toml, TomlFiles, AllKeys, Keys
    <3>2. NoToml \in TomlFiles
      BY OptionalFacts DEF NoToml, NoKeys, Keys, TomlFiles
    <3> QED BY <1>6, <1>t, <3>1, <3>2 DEF Start, OnInit
  <2> QED BY <1>6, <1>t, <2>4, <2>5 DEF Start, MarkSaved, EditorInv, TypeOK
<1>7. ASSUME NEW in \in TypedServices, OnAddService(in) PROVE EditorInv'
  <2>1. Stored(in) \in Service
    <3>1. in.name \in Names /\ in.ip \in Texts /\ in.port \in Int
      BY <1>7, ConfigEditorAssumption DEF OnAddService, ValidateInput, TypedServices
    <3>2. in.port % 65536 \in 0..MaxPort
      BY <3>1, Narrowed
    <3>3. in = [name |-> in.name, ip |-> in.ip, port |-> in.port]
      BY DEF TypedServices
    <3>4. Stored(in) = [name |-> in.name, ip |-> in.ip, port |-> in.port % 65536]
      BY <3>3 DEF Stored
    <3> QED BY <3>1, <3>2, <3>4 DEF Service
  <2>2. config' = [settings |-> config.settings, services |-> Append(config.services, Stored(in))]
    BY <1>7, <1>t DEF OnAddService, Configs
  <2>3. config.settings \in Settings /\ Append(config.services, Stored(in)) \in Seq(Service)
    BY <1>t, <2>1 DEF Configs
  <2>4. config' \in Configs /\ config'.services \in Seq(Service)
    BY <2>2, <2>3 DEF Configs
  <2> QED BY <1>7, <1>t, <2>4
          DEF OnAddService, RefreshServiceList, MarkUnsaved, EditorInv, TypeOK
<1>8. ASSUME NEW selected \in SUBSET DOMAIN rows, OnRemoveService(selected) PROVE EditorInv'
  <2>1. config.settings \in Settings /\ config.services \in Seq(Service)
    BY <1>t DEF Configs
  <2>2. RemoveSelected(config.services, selected) \in Seq(Service)
    BY <2>1, RemoveSelectedExact DEF LoopInv
  <2>3. config' = [settings |-> config.settings,
                   services |-> RemoveSelected(config.services, selected)]
    BY <1>8, <1>t DEF OnRemoveService, Configs
  <2>4. config' \in Configs /\ config'.services \in Seq(Service)
    BY <2>1, <2>2, <2>3 DEF Configs
  <2> QED BY <1>8, <1>t, <2>4
          DEF OnRemoveService, RefreshServiceList, MarkUnsaved, EditorInv, TypeOK
<1>9. CASE OnLoadConfig
  <2>1. Load(BuiltIn).config \in Configs
    BY <1>t, DefaultTypes, LoadType
  <2>2. config' \in Configs
    <3>1. LoadedAfresh.config = Load(BuiltIn).config \/ LoadedAfresh.config = config
      BY DEF LoadedAfresh
    <3> QED BY <1>9, <1>t, <2>1, <3>1 DEF OnLoadConfig
  <2>3. config'.services \in Seq(Service)
    BY <2>2 DEF Configs
  <2>4. rows' \in Seq(Service) /\ unsaved' \in BOOLEAN
    BY <1>9, <1>t, <2>3 DEF OnLoadConfig, RefreshServiceList, MarkSaved
  <2> QED BY <1>9, <1>t, <2>2, <2>4 DEF OnLoadConfig, EditorInv, TypeOK
<1>10. CASE OnSaveConfig
  <2>1. PICK o \in SaveOutcomes :
          /\ file' = o.file
          /\ IF o.result = "throws"
             THEN open' = FALSE /\ config' = BuiltIn /\ rows' = <<>> /\ unsaved' = FALSE
             ELSE MarkAfterSave(o.result) /\ UNCHANGED <<open, config, rows>>
    BY <1>10 DEF OnSaveConfig
  <2>2. o.file \in Files
    <3>1. ASSUME NEW f \in Truncated PROVE f \in Files
      BY <1>t, FileTypes
    <3>2. \/ o.file = Yaml(AllKeys(config.settings), config.services)
          \/ o.file = file
          \/ o.file \in Truncated
      BY <2>1 DEF SaveOutcomes
    <3> QED BY <1>t, <3>1, <3>2, FileTypes
  <2>3. CASE o.result = "throws"
    BY <1>10, <1>e, <2>1, <2>2, <2>3 DEF OnSaveConfig
  <2>4. CASE o.result # "throws"
    <3>1. unsaved' \in BOOLEAN /\ UNCHANGED <<open, config, rows, toml>>
      BY <1>10, <1>t, <2>1, <2>4 DEF OnSaveConfig, MarkAfterSave, MarkSaved
    <3>2. open /\ file' \in Files
      BY <1>10, <2>1, <2>2 DEF OnSaveConfig
    <3> QED BY <1>t, <3>1, <3>2 DEF EditorInv, TypeOK
  <2> QED BY <2>3, <2>4
<1> QED BY <1>1, <1>2, <1>3, <1>4, <1>5, <1>6, <1>7, <1>8, <1>9, <1>10 DEF Next

\* The invariant holds in every state the tool reaches.
LEMMA EditorInvariant == Spec => []EditorInv
  BY EditorInitInv, EditorNextInv, PTL DEF Spec

\* Type correctness: whatever is typed, loaded half way, removed or found on
\* the disk, the configuration holds ports of 16 bits and services that were
\* converted.
THEOREM EditorTypeCorrect == Spec => []TypeOK
  BY EditorInvariant, PTL DEF EditorInv

-----------------------------------------------------------------------------
(* Rows and services.                                                       *)

\* Each step keeps the rows equal to the services, or empty.
LEMMA RowsStep == RowsAreServices /\ [Next]_vars => RowsAreServices'
<1> SUFFICES ASSUME RowsAreServices, [Next]_vars PROVE RowsAreServices'
  OBVIOUS
<1>1. CASE UNCHANGED vars
  BY <1>1 DEF vars, RowsAreServices
<1>2. ASSUME NEW f \in HandWrittenFiles, EditByHand(f) PROVE RowsAreServices'
  BY <1>2 DEF EditByHand, RowsAreServices
<1>3. ASSUME NEW t \in HandToml, EditSettings(t) PROVE RowsAreServices'
  BY <1>3 DEF EditSettings, RowsAreServices
<1>4. CASE Close \/ DieWhileSaving
  BY <1>4 DEF Close, DieWhileSaving, RowsAreServices
<1>5. CASE Start
  BY <1>5 DEF Start, LoadExistingConfig, RowsAreServices
<1>6. ASSUME NEW in \in TypedServices, OnAddService(in) PROVE RowsAreServices'
  BY <1>6 DEF OnAddService, RefreshServiceList, RowsAreServices
<1>7. ASSUME NEW selected \in SUBSET DOMAIN rows, OnRemoveService(selected)
      PROVE RowsAreServices'
  BY <1>7 DEF OnRemoveService, RefreshServiceList, RowsAreServices
<1>8. CASE OnLoadConfig
  <2>1. CASE LoadedAfresh.ok
    BY <1>8, <2>1 DEF OnLoadConfig, RefreshServiceList, RowsAreServices
  <2>2. CASE ~LoadedAfresh.ok
    <3>1. LoadedAfresh.config = config
      BY <2>2 DEF LoadedAfresh
    <3> QED BY <1>8, <2>2, <3>1 DEF OnLoadConfig, RowsAreServices
  <2> QED BY <2>1, <2>2
<1>9. CASE OnSaveConfig
  BY <1>9 DEF OnSaveConfig, RowsAreServices
<1> QED BY <1>1, <1>2, <1>3, <1>4, <1>5, <1>6, <1>7, <1>8, <1>9 DEF Next

\* The row numbers that OnRemoveService() takes from the list are indices of
\* the services shown, after any sequence of edits, loads, failed loads,
\* saves, crashes and restarts.
THEOREM RowsIndexServices == Spec => []RowsAreServices
<1>1. Init => RowsAreServices
  BY DEF Init, RowsAreServices
<1> QED BY <1>1, RowsStep, PTL DEF Spec

-----------------------------------------------------------------------------
(* Removing.                                                                *)

\* One click of Remove, whatever rows are selected
LEMMA RemovalExact ==
    ASSUME EditorInv, RowsAreServices,
           NEW selected \in SUBSET DOMAIN rows, OnRemoveService(selected)
    PROVE  LET kept == DOMAIN rows \ selected
           IN  /\ Len(config'.services) = Cardinality(kept)
               /\ \A i \in kept :
                    config'.services[Cardinality({j \in kept : j <= i})] = rows[i]
<1> DEFINE kept == DOMAIN rows \ selected
<1>1. config \in Configs /\ rows \in Seq(Service) /\ config.services \in Seq(Service)
  BY DEF EditorInv, TypeOK, Configs
<1>2. rows = config.services
  <2>1. selected # {} /\ DOMAIN <<>> = {}
    BY DEF OnRemoveService
  <2>2. rows # <<>>
    BY <2>1
  <2> QED BY <2>2 DEF RowsAreServices
<1>3. config'.services = RemoveSelected(config.services, selected)
  BY <1>1 DEF OnRemoveService, Configs
<1>4. LoopInv(rows, selected, 1, config'.services)
  BY <1>1, <1>2, <1>3, RemoveSelectedExact
<1>5. RowsFrom(rows, selected, 1) = kept
  BY <1>1 DEF RowsFrom
<1>6. \A T \in SUBSET kept : Cardinality(T) \in Nat
  BY <1>1, <1>5, RowsFinite
<1> HIDE DEF kept
<1>7. /\ Len(config'.services) = 1 - 1 + Cardinality(kept)
      /\ \A i \in kept :
           config'.services[1 - 1 + Cardinality({j \in kept : j <= i})] = rows[i]
  BY <1>4, <1>5 DEF LoopInv
<1>8. Len(config'.services) = Cardinality(kept)
  BY <1>6, <1>7
<1>9. ASSUME NEW i \in kept
      PROVE  config'.services[Cardinality({j \in kept : j <= i})] = rows[i]
  <2> DEFINE n == Cardinality({j \in kept : j <= i})
  <2>1. n \in Nat /\ config'.services[1 - 1 + n] = rows[i]
    BY <1>6, <1>7
  <2> HIDE DEF n
  <2>2. 1 - 1 + n = n
    BY <2>1
  <2> QED BY <2>1, <2>2 DEF n
<1> QED BY <1>8, <1>9 DEF kept

\* The loop over the selected rows, for lists of any length: it takes away
\* the services of the selected rows and keeps the order of the others.
THEOREM RemovesSelected == Spec => RemovesWhatIsSelected
<1>1. EditorInv /\ RowsAreServices /\ [Next]_vars =>
        [ \A selected \in SUBSET DOMAIN rows : OnRemoveService(selected) =>
            LET kept == DOMAIN rows \ selected
            IN  /\ Len(config'.services) = Cardinality(kept)
                /\ \A i \in kept :
                     config'.services[Cardinality({j \in kept : j <= i})] = rows[i] ]_vars
  BY RemovalExact, Zenon
<1> QED BY <1>1, EditorInvariant, RowsIndexServices, PTL DEF Spec, RemovesWhatIsSelected

-----------------------------------------------------------------------------
(* Editing.                                                                 *)

\* The services a load balancer of the algorithm serves with, none included
Fit(algorithm) ==
    {s \in Seq(Service) :
       /\ \A i \in 1..Len(s) : MakeAddress(s[i].ip) /\ s[i].port # 0
       /\ \A i, j \in 1..Len(s) : i # j =>
            /\ s[i].ip # s[j].ip \/ s[i].port # s[j].port
            /\ algorithm = "consistent-hash" => s[i].name # s[j].name}

\* What main() asks for, check by check
LEMMA UsableIsFit ==
    ASSUME NEW c \in Configs
    PROVE  Usable(c) <=> /\ MakeAddress(c.settings.address)
                         /\ c.settings.algorithm \in Algorithms
                         /\ c.services \in Fit(c.settings.algorithm)
<1> DEFINE s == c.services
           a == c.settings.algorithm
<1>1. s \in Seq(Service) /\ DOMAIN s = 1..Len(s)
  BY DEF Configs
<1>2. CASE s = <<>>
  <2>1. s \in Fit(a)
    BY <1>1, <1>2 DEF Fit
  <2> QED BY <1>2, <2>1 DEF Usable, CannotListen
<1>3. CASE s # <<>>
  <2> DEFINE loaded == [ok |-> TRUE, config |-> c]
  <2>1. loaded.ok = TRUE /\ loaded.config = c
    OBVIOUS
  <2> HIDE DEF loaded
  <2>2. Refused(loaded) <=> a \notin Algorithms \/ (a = "consistent-hash" /\ RingCollides(s))
    BY <1>3, <2>1 DEF Refused
  <2>3. Main(loaded, TRUE) = "serves" <=> /\ ~Refused(loaded)
                                          /\ MakeAddress(c.settings.address)
                                          /\ \A i \in 1..Len(s) : MakeAddress(s[i].ip)
    BY <1>1, <2>1 DEF Main, CannotListen
  <2>4. RingCollides(s) <=> \E i, j \in 1..Len(s) : i # j /\ s[i].name = s[j].name
    BY <1>1 DEF RingCollides
  <2>5. Usable(c) <=> /\ Main(loaded, TRUE) = "serves"
                      /\ \A i, j \in 1..Len(s) :
                           /\ s[i].port # 0
                           /\ i # j => <<s[i].ip, s[i].port>> # <<s[j].ip, s[j].port>>
    BY <1>1, <1>3 DEF Usable, loaded
  <2>6. s \in Fit(a) <=>
          /\ \A i \in 1..Len(s) : MakeAddress(s[i].ip) /\ s[i].port # 0
          /\ \A i, j \in 1..Len(s) : i # j =>
               /\ s[i].ip # s[j].ip \/ s[i].port # s[j].port
               /\ a = "consistent-hash" => s[i].name # s[j].name
    BY <1>1 DEF Fit
  <2> HIDE DEF s, a
  <2>7. \A i, j \in 1..Len(s) : <<s[i].ip, s[i].port>> # <<s[j].ip, s[j].port>>
                                <=> s[i].ip # s[j].ip \/ s[i].port # s[j].port
    OBVIOUS
  <2> QED BY <2>2, <2>3, <2>4, <2>5, <2>6, <2>7 DEF s, a
<1> QED BY <1>2, <1>3

\* Removing a service keeps the others fit.
LEMMA FitRemove ==
    ASSUME NEW a, NEW s \in Fit(a), NEW i \in 1..Len(s)
    PROVE  RemoveService(s, i) \in Fit(a)
<1> DEFINE r == RemoveService(s, i)
           Old(j) == IF j < i THEN j ELSE j + 1
<1>1. /\ s \in Seq(Service) /\ Len(s) \in Nat
      /\ \A x \in 1..Len(s) : MakeAddress(s[x].ip) /\ s[x].port # 0
      /\ \A x, y \in 1..Len(s) : x # y =>
           /\ s[x].ip # s[y].ip \/ s[x].port # s[y].port
           /\ a = "consistent-hash" => s[x].name # s[y].name
  BY DEF Fit
<1>2. /\ r \in Seq(Service) /\ Len(r) = Len(s) - 1
      /\ \A j \in 1..(Len(s) - 1) : r[j] = IF j < i THEN s[j] ELSE s[j + 1]
  BY <1>1, RemoveServiceFacts
<1>3. ASSUME NEW j \in 1..Len(r) PROVE Old(j) \in 1..Len(s) /\ r[j] = s[Old(j)]
  BY <1>1, <1>2
<1>4. ASSUME NEW j \in 1..Len(r), NEW k \in 1..Len(r), j # k PROVE Old(j) # Old(k)
  BY <1>1, <1>2, <1>4
<1> HIDE DEF r, Old
<1>5. ASSUME NEW j \in 1..Len(r) PROVE MakeAddress(r[j].ip) /\ r[j].port # 0
  BY <1>1, <1>3
<1>6. ASSUME NEW j \in 1..Len(r), NEW k \in 1..Len(r), j # k
      PROVE  /\ r[j].ip # r[k].ip \/ r[j].port # r[k].port
             /\ a = "consistent-hash" => r[j].name # r[k].name
  <2>1. Old(j) \in 1..Len(s) /\ Old(k) \in 1..Len(s) /\ Old(j) # Old(k)
    BY <1>3, <1>4, <1>6
  <2>2. r[j] = s[Old(j)] /\ r[k] = s[Old(k)]
    BY <1>3
  <2> QED BY <1>1, <2>1, <2>2
<1>7. r \in Fit(a)
  BY <1>2, <1>5, <1>6 DEF Fit
<1> QED BY <1>7 DEF r

\* So does adding one that differs from all of them.
LEMMA FitAppend ==
    ASSUME NEW a, NEW s \in Fit(a), NEW t \in Service, MakeAddress(t.ip), t.port # 0,
           \A i \in 1..Len(s) : s[i].name # t.name /\ (s[i].ip # t.ip \/ s[i].port # t.port)
    PROVE  Append(s, t) \in Fit(a)
<1> DEFINE r == Append(s, t)
<1>1. /\ s \in Seq(Service) /\ Len(s) \in Nat
      /\ \A x \in 1..Len(s) : MakeAddress(s[x].ip) /\ s[x].port # 0
      /\ \A x, y \in 1..Len(s) : x # y =>
           /\ s[x].ip # s[y].ip \/ s[x].port # s[y].port
           /\ a = "consistent-hash" => s[x].name # s[y].name
  BY DEF Fit
<1>2. /\ r \in Seq(Service) /\ Len(r) = Len(s) + 1 /\ r[Len(s) + 1] = t
      /\ \A j \in 1..Len(s) : r[j] = s[j]
  BY <1>1
<1> HIDE DEF r
<1>3. \A j \in 1..Len(r) : j \in 1..Len(s) \/ j = Len(s) + 1
  BY <1>1, <1>2
<1>4. ASSUME NEW j \in 1..Len(r) PROVE MakeAddress(r[j].ip) /\ r[j].port # 0
  BY <1>1, <1>2, <1>3
<1>5. ASSUME NEW j \in 1..Len(r), NEW k \in 1..Len(r), j # k
      PROVE  /\ r[j].ip # r[k].ip \/ r[j].port # r[k].port
             /\ a = "consistent-hash" => r[j].name # r[k].name
  <2>1. CASE j \in 1..Len(s) /\ k \in 1..Len(s)
    BY <1>1, <1>2, <1>5, <2>1
  <2>2. CASE j \in 1..Len(s) /\ k = Len(s) + 1
    BY <1>2, <2>2
  <2>3. CASE j = Len(s) + 1 /\ k \in 1..Len(s)
    BY <1>2, <2>3
  <2> QED BY <1>3, <1>5, <2>1, <2>2, <2>3
<1>6. r \in Fit(a)
  BY <1>2, <1>4, <1>5 DEF Fit
<1> QED BY <1>6 DEF r

\* What ValidateInput() lets through is stored as it is.
LEMMA StoredAsTyped ==
    ASSUME NEW in \in TypedServices, ValidateInput(in)
    PROVE  Stored(in) = in
<1>1. in.port \in 0..MaxPort
  <2>1. in.port \in Nat /\ in.port <= MaxPort
    BY ConfigEditorAssumption DEF ValidateInput, TypedServices
  <2> QED BY <2>1, PortRange
<1>2. in.port % 65536 = in.port
  <2>1. in.port \in Int
    BY <1>1, PortRange
  <2> QED BY <1>1, <2>1, Narrowed
<1>3. in = [name |-> in.name, ip |-> in.ip, port |-> in.port]
  BY DEF TypedServices
<1>4. Stored(in) = [name |-> in.name, ip |-> in.ip, port |-> in.port % 65536]
  BY <1>3 DEF Stored
<1> QED BY <1>2, <1>3, <1>4

\* The step that adds a service, whatever numbers users type
LEMMA AddStep ==
    ASSUME EditorInv, NEW in \in TypedServices, OnAddService(in)
    PROVE  /\ config'.settings = config.settings
           /\ config'.services = Append(config.services, in)
           /\ Last(config'.services) = in
<1>1. config \in Configs /\ config.services \in Seq(Service)
  BY DEF EditorInv, TypeOK, Configs
<1>2. config' = [settings |-> config.settings, services |-> Append(config.services, in)]
  <2>1. Stored(in) = in
    BY StoredAsTyped DEF OnAddService
  <2> QED BY <1>1, <2>1 DEF OnAddService, Configs
<1>3. Last(Append(config.services, in)) = in
  BY <1>1 DEF Last
<1> QED BY <1>2, <1>3

\* For numbers of any size: no service is stored, shown, saved or compared
\* with another port than the one that was typed.
THEOREM AddsAsTyped == Spec => AddedAsTyped
<1>1. EditorInv /\ [Next]_vars =>
        [ unsaved' /\ Len(config'.services) > Len(config.services) =>
            \A in \in TypedServices : OnAddService(in) => Last(config'.services) = in ]_vars
  BY AddStep, Zenon
<1> QED BY <1>1, EditorInvariant, PTL DEF Spec, AddedAsTyped

\* A service the window accepts is what main() and the sessions ask for.
LEMMA AddKeepsUsable ==
    ASSUME EditorInv, Usable(config), NEW in \in TypedServices, OnAddService(in)
    PROVE  Usable(config')
<1> DEFINE t == Stored(in)
           a == config.settings.algorithm
<1>1. config \in Configs /\ config.settings \in Settings /\ config.services \in Seq(Service)
  BY DEF EditorInv, TypeOK, Configs
<1>2. /\ in.name \in Names /\ in.ip \in Ips /\ in.ip \in Texts /\ in.port \in Nat
      /\ in.port # 0 /\ in.port <= MaxPort /\ IsValidIpv4(in.ip)
  BY ConfigEditorAssumption DEF OnAddService, ValidateInput, TypedServices
<1>3. in.port % 65536 = in.port /\ in.port \in 0..MaxPort
  <2>1. in.port \in 0..MaxPort
    BY <1>2, PortRange
  <2> QED BY <1>2, <2>1, Narrowed
<1>4. t = [name |-> in.name, ip |-> in.ip, port |-> in.port]
  <2>1. in = [name |-> in.name, ip |-> in.ip, port |-> in.port]
    BY DEF TypedServices
  <2>2. t = [name |-> in.name, ip |-> in.ip, port |-> in.port % 65536]
    BY <2>1 DEF Stored
  <2> QED BY <1>3, <2>2
<1>5. \A i \in 1..Len(config.services) :
        /\ config.services[i].name # t.name
        /\ config.services[i].ip # t.ip \/ config.services[i].port # t.port
  BY DEF OnAddService, Duplicate
<1>6. config' = [settings |-> config.settings, services |-> Append(config.services, t)]
  BY <1>1 DEF OnAddService, Configs
<1> HIDE DEF t
<1>7. t \in Service /\ MakeAddress(t.ip) /\ t.port # 0
  BY <1>2, <1>3, <1>4, ValidIpv4IsAddress DEF Service
<1>8. /\ MakeAddress(config.settings.address) /\ a \in Algorithms
      /\ config.services \in Fit(a)
  BY <1>1, UsableIsFit
<1>9. Append(config.services, t) \in Fit(a)
  BY <1>5, <1>7, <1>8, FitAppend
<1>10. config' \in Configs /\ config'.settings = config.settings
       /\ config'.services = Append(config.services, t)
  BY <1>1, <1>6, <1>7 DEF Configs
<1> QED BY <1>8, <1>9, <1>10, UsableIsFit

\* Whatever rows are removed, the services that stay are still fit.
LEMMA RemoveKeepsUsable ==
    ASSUME EditorInv, Usable(config), NEW selected, OnRemoveService(selected)
    PROVE  Usable(config')
<1> DEFINE a == config.settings.algorithm
           left == RemoveSelected(config.services, selected)
<1>1. config \in Configs /\ config.settings \in Settings /\ config.services \in Seq(Service)
  BY DEF EditorInv, TypeOK, Configs
<1>2. /\ MakeAddress(config.settings.address) /\ a \in Algorithms
      /\ config.services \in Fit(a)
  BY <1>1, UsableIsFit
<1>3. left \in Fit(a)
  <2>1. Fit(a) \in SUBSET Seq(Service)
    BY DEF Fit
  <2> HIDE DEF a
  <2> QED BY <1>1, <1>2, <2>1, FitRemove, RemoveSelectedKeeps
<1>4. config' = [settings |-> config.settings, services |-> left]
  BY <1>1 DEF OnRemoveService, Configs
<1>5. left \in Seq(Service)
  BY <1>3 DEF Fit
<1> HIDE DEF left
<1>6. config' \in Configs /\ config'.settings = config.settings /\ config'.services = left
  BY <1>1, <1>4, <1>5 DEF Configs
<1> QED BY <1>2, <1>3, <1>6, UsableIsFit

\* For every configuration, file and sequence of edits: what the window lets
\* a user do never makes a configuration that the load balancer serves with
\* into one it refuses, fails on, or serves a service of twice.
THEOREM EditsStayUsable == Spec => EditsKeepUsable
<1>1. EditorInv /\ [Next]_vars => [open /\ unsaved' /\ Usable(config) => Usable(config')]_vars
  <2> SUFFICES ASSUME EditorInv, Next, open, unsaved', Usable(config) PROVE Usable(config')
    OBVIOUS
  <2>1. ASSUME NEW f \in HandWrittenFiles, EditByHand(f) PROVE config' = config
    BY <2>1 DEF EditByHand
  <2>2. ASSUME NEW t \in HandToml, EditSettings(t) PROVE config' = config
    BY <2>2 DEF EditSettings
  <2>3. ~(Close \/ DieWhileSaving \/ Start)
    BY DEF Close, DieWhileSaving, Start
  <2>4. ASSUME NEW in \in TypedServices, OnAddService(in) PROVE Usable(config')
    BY <2>4, AddKeepsUsable
  <2>5. ASSUME NEW selected \in SUBSET DOMAIN rows, OnRemoveService(selected)
        PROVE  Usable(config')
    BY <2>5, RemoveKeepsUsable
  <2>6. CASE OnLoadConfig
    <3>1. ~LoadedAfresh.ok
      BY <2>6 DEF OnLoadConfig, MarkSaved
    <3>2. LoadedAfresh.config = config
      BY <3>1 DEF LoadedAfresh
    <3> QED BY <2>6, <3>2 DEF OnLoadConfig
  <2>7. CASE OnSaveConfig
    BY <2>7 DEF OnSaveConfig
  <2> QED BY <2>1, <2>2, <2>3, <2>4, <2>5, <2>6, <2>7 DEF Next
<1> QED BY <1>1, EditorInvariant, PTL DEF Spec, EditsKeepUsable

-----------------------------------------------------------------------------
(* Saving and loading.                                                      *)

\* What Save() has written, Load() of a new configuration reads back.
LEMMA StoredLoads ==
    config \in Configs /\ file = Yaml(AllKeys(config.settings), config.services)
    => Load(BuiltIn) = [ok |-> TRUE, config |-> config]
<1> SUFFICES ASSUME config \in Configs, file = Yaml(AllKeys(config.settings), config.services)
             PROVE  Load(BuiltIn) = [ok |-> TRUE, config |-> config]
  OBVIOUS
<1> DEFINE s == config.settings
<1>1. /\ s \in Settings /\ config.services \in Seq(Service)
      /\ config = [settings |-> s, services |-> config.services]
      /\ s = [address |-> s.address, port |-> s.port, algorithm |-> s.algorithm]
  BY DEF Configs, Settings
<1>2. /\ file.kind = "yaml" /\ file.entries = config.services
      /\ file.keys.address = <<s.address>> /\ file.keys.port = <<s.port>>
      /\ file.keys.algorithm = <<s.algorithm>>
  BY DEF Yaml, AllKeys, Keys
<1>3. Converted(file.entries) = file.entries
  <2>1. config.services \in Seq(Service \cup {BadEntry})
    BY <1>1
  <2> QED BY <1>1, <1>2, <2>1, ConvertedType
<1>4. file.keys.port # Unreadable
  <2>1. <<s.port>> \in Optional(0..MaxPort)
    BY <1>1, OptionalFacts DEF Settings
  <2> QED BY <1>2, <2>1, Markers
<1> HIDE DEF s
<1>5. ASSUME NEW x, NEW d PROVE ValueOr(<<x>>, d) = x
  BY DEF ValueOr
<1>6. Load(BuiltIn) =
        [ok |-> Converted(file.entries) = file.entries,
         config |-> [settings |-> [address |-> s.address, port |-> s.port,
                                   algorithm |-> s.algorithm],
                     services |-> Converted(file.entries)]]
  BY <1>2, <1>4, <1>5 DEF Load
<1>7. (Converted(file.entries) = file.entries) = TRUE
  BY <1>3
<1> QED BY <1>1, <1>2, <1>3, <1>6, <1>7

\* The outcome of a Load() that succeeds
LEMMA LoadOk ==
    ASSUME NEW into, Load(into).ok
    PROVE  Load(into) = [ok |-> TRUE, config |-> Load(into).config]
<1> DEFINE services == Converted(file.entries)
           settings == [address |-> ValueOr(file.keys.address, into.settings.address),
                        port |-> ValueOr(file.keys.port, into.settings.port),
                        algorithm |-> ValueOr(file.keys.algorithm, into.settings.algorithm)]
<1> HIDE DEF settings, services
<1>1. Load(into) = [ok |-> services = file.entries,
                    config |-> [settings |-> settings, services |-> services]]
  BY DEF Load, settings, services
<1>2. services = file.entries
  <2> SUFFICES ASSUME services # file.entries PROVE FALSE
    OBVIOUS
  <2>1. (services = file.entries) = FALSE
    OBVIOUS
  <2>2. Load(into) = [ok |-> FALSE, config |-> [settings |-> settings, services |-> services]]
    BY <1>1, <2>1
  <2> QED BY <2>2
<1>3. (services = file.entries) = TRUE
  BY <1>2
<1> QED BY <1>1, <1>3

\* Whatever a file holds and whether or not there are edits to lose, an open
\* window takes over all of the file or nothing of it.
THEOREM LoadsAllOrNothing == Spec => NoPartialLoad
<1>1. EditorInv /\ [Next]_vars =>
        [ open /\ open' /\ config' # config =>
            /\ rows' = config'.services
            /\ IF unsaved' THEN Edited
               ELSE Load(BuiltIn) = [ok |-> TRUE, config |-> config'] ]_vars
  <2> SUFFICES ASSUME EditorInv, Next, open, open', config' # config
               PROVE  /\ rows' = config'.services
                      /\ IF unsaved' THEN Edited
                         ELSE Load(BuiltIn) = [ok |-> TRUE, config |-> config']
    OBVIOUS
  <2>1. ASSUME NEW f \in HandWrittenFiles, EditByHand(f) PROVE FALSE
    BY <2>1 DEF EditByHand
  <2>2. ASSUME NEW t \in HandToml, EditSettings(t) PROVE FALSE
    BY <2>2 DEF EditSettings
  <2>3. ~(Close \/ DieWhileSaving \/ Start)
    BY DEF Close, DieWhileSaving, Start
  <2>4. ASSUME NEW in \in TypedServices, OnAddService(in)
        PROVE  rows' = config'.services /\ unsaved' /\ Edited
    <3>1. rows' = config'.services /\ unsaved'
      BY <2>4 DEF OnAddService, RefreshServiceList, MarkUnsaved
    <3>2. config'.settings = config.settings /\ config'.services = Append(config.services, in)
      BY <2>4, AddStep
    <3> QED BY <3>1, <3>2, Zenon DEF Edited
  <2>5. ASSUME NEW selected \in SUBSET DOMAIN rows, OnRemoveService(selected)
        PROVE  rows' = config'.services /\ unsaved' /\ Edited
    <3>1. rows' = config'.services /\ unsaved'
      BY <2>5 DEF OnRemoveService, RefreshServiceList, MarkUnsaved
    <3>2. /\ config'.settings = config.settings
          /\ config'.services = RemoveSelected(config.services, selected)
      BY <2>5 DEF OnRemoveService, EditorInv, TypeOK, Configs
    <3> QED BY <3>1, <3>2, Zenon DEF Edited
  <2>6. ASSUME OnLoadConfig
        PROVE  /\ rows' = config'.services /\ ~unsaved'
               /\ Load(BuiltIn) = [ok |-> TRUE, config |-> config']
    <3>1. LoadedAfresh.ok
      BY <2>6 DEF OnLoadConfig, LoadedAfresh
    <3>2. LoadedAfresh = Load(BuiltIn)
      BY <3>1 DEF LoadedAfresh
    <3>3. Load(BuiltIn) = [ok |-> TRUE, config |-> Load(BuiltIn).config]
      BY <3>1, <3>2, LoadOk
    <3>4. config' = Load(BuiltIn).config /\ rows' = config'.services /\ ~unsaved'
      BY <2>6, <3>1, <3>2 DEF OnLoadConfig, RefreshServiceList, MarkSaved
    <3> QED BY <3>3, <3>4
  <2>7. ASSUME OnSaveConfig PROVE FALSE
    BY <2>7 DEF OnSaveConfig
  <2>8. \/ \E in \in TypedServices : OnAddService(in)
        \/ \E selected \in SUBSET DOMAIN rows : OnRemoveService(selected)
        \/ OnLoadConfig
    BY <2>1, <2>2, <2>3, <2>7 DEF Next
  <2>9. \/ rows' = config'.services /\ unsaved' /\ Edited
        \/ /\ rows' = config'.services /\ ~unsaved'
           /\ Load(BuiltIn) = [ok |-> TRUE, config |-> config']
    BY <2>4, <2>5, <2>6, <2>8, Zenon
  <2> HIDE DEF Edited
  <2> QED BY <2>9, Zenon
<1> QED BY <1>1, EditorInvariant, PTL DEF Spec, NoPartialLoad

\* On disks that take every write: the mark goes only when the file holds all
\* that is on display, and a save that does not succeed changes no file.  With
\* a disk that fills up it does not hold, as the run of MCConfigEditorWrite
\* shows.
THEOREM SavedIsStored ==
    ASSUME ~WritesMayFail
    PROVE  Spec => SavedMeansStored
<1> DEFINE Loaded == open' /\ ~unsaved' =>
                       Load(BuiltIn)' = [ok |-> TRUE, config |-> config']
           Written == OnSaveConfig /\ file' # file =>
                        open' /\ ~unsaved' /\ Load(BuiltIn)' = [ok |-> TRUE, config |-> config]
<1>1. (config \in Configs /\ file = Yaml(AllKeys(config.settings), config.services)
       => Load(BuiltIn) = [ok |-> TRUE, config |-> config])'
  BY StoredLoads, PTL
<1>2. ASSUME EditorInv, OnSaveConfig
      PROVE  \/ open' = FALSE /\ file' = file
             \/ open' /\ unsaved' = unsaved /\ file' = file
             \/ open' /\ ~unsaved' /\ config' = config
                /\ Load(BuiltIn)' = [ok |-> TRUE, config |-> config']
  <2>1. PICK o \in SaveOutcomes :
          /\ file' = o.file
          /\ IF o.result = "throws"
             THEN open' = FALSE /\ config' = BuiltIn /\ rows' = <<>> /\ unsaved' = FALSE
             ELSE MarkAfterSave(o.result) /\ UNCHANGED <<open, config, rows>>
    BY <1>2 DEF OnSaveConfig
  <2>2. \/ o.file = Yaml(AllKeys(config.settings), config.services) /\ o.result = "ok"
        \/ o.file = file /\ o.result = "error"
        \/ o.file = file /\ o.result = "throws"
    BY <2>1 DEF SaveOutcomes
  <2>3. CASE o.file = Yaml(AllKeys(config.settings), config.services) /\ o.result = "ok"
    <3>1. file' = Yaml(AllKeys(config.settings), config.services) /\ config' = config
          /\ unsaved' = FALSE /\ open'
      BY <1>2, <2>1, <2>3 DEF MarkAfterSave, MarkSaved, OnSaveConfig
    <3>2. config' \in Configs /\ file' = Yaml(AllKeys(config'.settings), config'.services)
      BY <1>2, <3>1 DEF EditorInv, TypeOK
    <3>3. Load(BuiltIn)' = [ok |-> TRUE, config |-> config']
      BY <1>1, <3>2
    <3> QED BY <3>1, <3>3
  <2>4. CASE o.file = file /\ o.result = "error"
    BY <1>2, <2>1, <2>4 DEF MarkAfterSave, OnSaveConfig
  <2>5. CASE o.file = file /\ o.result = "throws"
    BY <2>1, <2>5
  <2> QED BY <2>2, <2>3, <2>4, <2>5
<1>3. ASSUME EditorInv, Next, open', unsaved, ~unsaved'
      PROVE  Load(BuiltIn)' = [ok |-> TRUE, config |-> config']
  <2>1. ASSUME NEW f \in HandWrittenFiles, EditByHand(f) PROVE FALSE
    BY <1>3, <2>1 DEF EditByHand
  <2>2. ASSUME NEW t \in HandToml, EditSettings(t) PROVE FALSE
    BY <1>3, <2>2 DEF EditSettings
  <2>3. ~(Close \/ DieWhileSaving \/ Start)
    BY <1>3 DEF Close, DieWhileSaving, Start, EditorInv
  <2>4. ASSUME NEW in \in TypedServices, OnAddService(in) PROVE FALSE
    BY <1>3, <2>4 DEF OnAddService, MarkUnsaved
  <2>5. ASSUME NEW selected \in SUBSET DOMAIN rows, OnRemoveService(selected) PROVE FALSE
    BY <1>3, <2>5 DEF OnRemoveService, MarkUnsaved
  <2>6. CASE OnLoadConfig
    <3>1. LoadedAfresh.ok
      BY <1>3, <2>6 DEF OnLoadConfig
    <3>2. LoadedAfresh = Load(BuiltIn)
      BY <3>1 DEF LoadedAfresh
    <3>3. config' = Load(BuiltIn).config /\ file' = file
      BY <2>6, <3>2 DEF OnLoadConfig
    <3>4. Load(BuiltIn)' = Load(BuiltIn)
      BY <3>3 DEF Load, BuiltIn
    <3>5. Load(BuiltIn) = [ok |-> TRUE, config |-> Load(BuiltIn).config]
      BY <3>1, <3>2, LoadOk
    <3> QED BY <3>3, <3>4, <3>5
  <2>7. CASE OnSaveConfig
    BY <1>2, <1>3, <2>7
  <2> QED BY <1>3, <2>1, <2>2, <2>3, <2>4, <2>5, <2>6, <2>7 DEF Next
<1>4. ASSUME EditorInv PROVE Written
  BY <1>2, <1>4
<1>5. EditorInv /\ [Next]_vars => [unsaved => Loaded /\ Written]_vars
  <2>1. EditorInv /\ Next /\ unsaved => Loaded
    BY <1>3
  <2> HIDE DEF Loaded, Written
  <2> QED BY <1>4, <2>1
<1> QED BY <1>5, EditorInvariant, PTL DEF Spec, SavedMeansStored
=============================================================================
