-------------------------- MODULE AlgorithmsProofs --------------------------
(* Theorems about the functions of Algorithms for any names, routes, zones, containers and   *)
(* files.                                                                                   *)
EXTENDS Algorithms, FlattenProofs

\* What is returned is what the function makes of its input.
CallInv ==
    call # Nothing =>
      \/ /\ call.function = "record" /\ call.args \in HostInputs
         /\ result = Record(call.args.host, call.args.answers)
      \/ call.function = "rename" /\ call.args \in RouteInputs
      \/ /\ call.function = "certificate"
         /\ call.args.zones \in ZoneInputs /\ call.args.host \in ServedHosts
         /\ ZonesValid(call.args.zones)
         /\ result = GetCertificate(LoadCertificates(BuildCertificateRequests(call.args.zones)),
                                    call.args.host)
      \/ /\ call.function = "load" /\ call.args \in FileInputs
         /\ result = UnmarshalYAML(call.args)
      \/ /\ call.function = "discover" /\ call.args \in ContainerInputs
         /\ \E last \in Protocol :
              result = DiscoverRoute(call.args.source, call.args.zones, call.args.container, last)

-----------------------------------------------------------------------------
(* Suffixes.                                                                *)

\* A suffix, label by label.
LEMMA SuffixIff ==
    ASSUME NEW S, NEW s \in Seq(S), NEW t \in Seq(S)
    PROVE  IsSuffix(s, t) <=> /\ Len(s) <= Len(t)
                              /\ \A k \in 1 .. Len(s) : s[k] = t[Len(t) - Len(s) + k]
<1>0. Len(s) \in Nat /\ Len(t) \in Nat
  OBVIOUS
<1> DEFINE m == Len(s)
           n == Len(t)
           rs == Reverse(s)
           rt == Reverse(t)
<1>1. /\ rs \in Seq(S) /\ Len(rs) = m /\ \A i \in 1 .. m : rs[i] = s[m - i + 1]
      /\ rt \in Seq(S) /\ Len(rt) = n /\ \A i \in 1 .. n : rt[i] = t[n - i + 1]
  <2>1. /\ \A i \in 1 .. m : m - i + 1 \in 1 .. m
        /\ \A i \in 1 .. n : n - i + 1 \in 1 .. n
    BY <1>0
  <2> QED
    BY <1>0, <2>1 DEF Reverse
<1> HIDE DEF rs, rt
<1>2. IsSuffix(s, t) <=> m <= n /\ rs = SubSeq(rt, 1, m)
  BY <1>1, SubSeqFull DEF IsSuffix, IsPrefix, rs, rt
<1> SUFFICES ASSUME m <= n
             PROVE  rs = SubSeq(rt, 1, m) <=> \A k \in 1 .. m : s[k] = t[n - m + k]
  BY <1>2
<1>3. /\ SubSeq(rt, 1, m) \in Seq(S) /\ Len(SubSeq(rt, 1, m)) = m
      /\ \A i \in 1 .. m : SubSeq(rt, 1, m)[i] = rt[i]
  BY <1>0, <1>1, SubSeqProperties
<1>4. ASSUME rs = SubSeq(rt, 1, m), NEW k \in 1 .. m PROVE s[k] = t[n - m + k]
  <2> DEFINE i == m - k + 1
  <2>1. i \in 1 .. m /\ i \in 1 .. n /\ m - i + 1 = k /\ n - i + 1 = n - m + k
    BY <1>0
  <2> QED
    BY <1>1, <1>3, <1>4, <2>1
<1>5. ASSUME \A k \in 1 .. m : s[k] = t[n - m + k] PROVE rs = SubSeq(rt, 1, m)
  <2>1. ASSUME NEW i \in 1 .. m PROVE rs[i] = SubSeq(rt, 1, m)[i]
    <3> DEFINE k == m - i + 1
    <3>1. k \in 1 .. m /\ i \in 1 .. n /\ n - m + k = n - i + 1
      BY <1>0
    <3>2. rs[i] = s[k] /\ SubSeq(rt, 1, m)[i] = t[n - i + 1]
      BY <1>1, <1>3, <3>1
    <3>3. s[k] = t[n - m + k]
      BY <1>5, <3>1
    <3> QED
      BY <3>1, <3>2, <3>3
  <2> QED
    BY <1>1, <1>3, <2>1, SeqEqual
<1> QED
  BY <1>4, <1>5

\* The labels from the i-th on are a suffix, and every suffix that has a label is that.
LEMMA SuffixIsSubSeq ==
    ASSUME NEW S, NEW s \in Seq(S), NEW t \in Seq(S), s # <<>>
    PROVE  IsSuffix(s, t) <=> \E i \in 1 .. Len(t) : s = SubSeq(t, i, Len(t))
<1>0. Len(s) \in Nat \ {0} /\ Len(t) \in Nat
  BY EmptySeq
<1>1. ASSUME IsSuffix(s, t) PROVE \E i \in 1 .. Len(t) : s = SubSeq(t, i, Len(t))
  <2> DEFINE i == Len(t) - Len(s) + 1
  <2>1. Len(s) <= Len(t) /\ \A k \in 1 .. Len(s) : s[k] = t[Len(t) - Len(s) + k]
    BY <1>1, SuffixIff
  <2>2. i \in 1 .. Len(t) /\ Len(t) - i + 1 = Len(s) /\ i <= Len(t)
    BY <1>0, <2>1
  <2>3. /\ SubSeq(t, i, Len(t)) \in Seq(S) /\ Len(SubSeq(t, i, Len(t))) = Len(s)
        /\ \A k \in 1 .. Len(s) : SubSeq(t, i, Len(t))[k] = t[i + k - 1]
    BY <1>0, <2>2, SubSeqProperties
  <2>4. \A k \in 1 .. Len(s) : s[k] = SubSeq(t, i, Len(t))[k]
    BY <1>0, <2>1, <2>3
  <2> QED
    BY <2>2, <2>3, <2>4, SeqEqual
<1>2. ASSUME NEW i \in 1 .. Len(t), s = SubSeq(t, i, Len(t)) PROVE IsSuffix(s, t)
  <2>1. Len(s) = Len(t) - i + 1 /\ \A k \in 1 .. Len(s) : s[k] = t[i + k - 1]
    BY <1>0, <1>2, SubSeqProperties
  <2>2. Len(s) <= Len(t) /\ \A k \in 1 .. Len(s) : i + k - 1 = Len(t) - Len(s) + k
    BY <1>0, <2>1
  <2>3. \A k \in 1 .. Len(s) : s[k] = t[Len(t) - Len(s) + k]
    BY <2>1, <2>2
  <2> QED
    BY <2>2, <2>3, SuffixIff
<1> QED
  BY <1>1, <1>2

\* Without its wildcard a name is a suffix of itself.
LEMMA WithoutStarFacts ==
    ASSUME NEW S, NEW t \in Seq(S)
    PROVE  /\ WithoutStar(t) \in Seq(S)
           /\ t # <<>> => IsSuffix(WithoutStar(t), t)
           /\ t = <<>> => WithoutStar(t) = <<>>
<1>1. CASE t # <<>> /\ Head(t) = Star
  <2>1. /\ WithoutStar(t) = Tail(t) /\ Tail(t) \in Seq(S) /\ Len(Tail(t)) = Len(t) - 1
        /\ \A k \in 1 .. Len(Tail(t)) : Tail(t)[k] = t[k + 1]
    BY <1>1, HeadTailProperties DEF WithoutStar
  <2>2. Len(t) \in Nat
    OBVIOUS
  <2>3. /\ Len(Tail(t)) <= Len(t)
        /\ \A k \in 1 .. Len(Tail(t)) : k + 1 = Len(t) - Len(Tail(t)) + k
    BY <2>1, <2>2
  <2>4. \A k \in 1 .. Len(Tail(t)) : Tail(t)[k] = t[Len(t) - Len(Tail(t)) + k]
    BY <2>1, <2>3
  <2>5. IsSuffix(Tail(t), t)
    BY <2>1, <2>3, <2>4, SuffixIff
  <2> QED
    BY <1>1, <2>1, <2>5
<1>2. CASE ~ (t # <<>> /\ Head(t) = Star)
  <2>1. WithoutStar(t) = t
    BY <1>2 DEF WithoutStar
  <2>2. IsSuffix(t, t)
    BY SuffixIff
  <2> QED
    BY <2>1, <2>2
<1> QED
  BY <1>1, <1>2

-----------------------------------------------------------------------------
(* DDNS records.                                                            *)

\* What syncRecord writes for any host and any zones that answer.
LEMMA RecordCorrect ==
    ASSUME NEW host \in Seq(Label), NEW answers \in SUBSET Seq(Label)
    PROVE  WrittenWhereServed(host, answers, Record(host, answers))
<1> DEFINE w == WithoutStar(host)
           cand == CandidateZones(w)
           hits == {i \in DOMAIN cand : cand[i] \in answers}
           above == {z \in answers : z # <<>> /\ IsSuffix(z, w)}
           zone == ResolveAuthZone(host, answers)
           name == ResolveRecordName(zone, host)
<1>1. w \in Seq(Label) /\ Len(w) \in Nat
  BY WithoutStarFacts
<1>2. /\ DOMAIN cand = 1 .. Len(w)
      /\ \A i \in 1 .. Len(w) : cand[i] = SubSeq(w, i, Len(w))
  BY DEF CandidateZones
<1>3. ASSUME NEW i \in 1 .. Len(w)
      PROVE  /\ cand[i] \in Seq(Label) /\ Len(cand[i]) = Len(w) - i + 1 /\ cand[i] # <<>>
             /\ \A k \in 1 .. Len(w) - i + 1 : cand[i][k] = w[i + k - 1]
  <2> HIDE DEF w, cand
  <2>1. \A k \in i .. Len(w) : w[k] \in Label
    BY <1>1
  <2>2. i \in Int /\ Len(w) \in Int /\ i <= Len(w)
    BY <1>1
  <2>3. /\ SubSeq(w, i, Len(w)) \in Seq(Label) /\ Len(SubSeq(w, i, Len(w))) = Len(w) - i + 1
        /\ \A k \in 1 .. Len(w) - i + 1 : SubSeq(w, i, Len(w))[k] = w[i + k - 1]
    BY <2>1, <2>2, SubSeqProperties
  <2>4. cand[i] = SubSeq(w, i, Len(w)) /\ Len(w) - i + 1 # 0
    BY <1>1, <1>2
  <2>5. SubSeq(w, i, Len(w)) # <<>>
    BY <2>3, <2>4
  <2> QED
    BY <2>3, <2>4, <2>5
<1>4. zone = IF hits = {} THEN <<>> ELSE cand[Min(hits)]
  BY DEF ResolveAuthZone
<1>5. Record(host, answers) = [zone |-> zone, name |-> name]
  BY DEF Record
<1> HIDE DEF w, cand, zone, name
<1>6. ASSUME NEW z \in above PROVE \E i \in hits : z = cand[i]
  <2>1. z \in Seq(Label) /\ z # <<>> /\ IsSuffix(z, w)
    OBVIOUS
  <2>2. PICK i \in 1 .. Len(w) : z = SubSeq(w, i, Len(w))
    BY <1>1, <2>1, SuffixIsSubSeq
  <2> QED
    BY <1>2, <2>2
<1>7. \A i \in hits : cand[i] \in above
  BY <1>1, <1>2, <1>3, SuffixIsSubSeq
<1>8. CASE hits = {}
  <2>1. above = {} /\ zone = <<>>
    BY <1>4, <1>6, <1>8
  <2>2. ~ name.ok
    BY <2>1 DEF name, ResolveRecordName
  <2> QED
    BY <1>5, <2>1, <2>2 DEF WrittenWhereServed, w
<1>9. CASE hits # {}
  <2> DEFINE i == Min(hits)
  <2>1. i \in hits /\ \A j \in hits : i <= j
    <3>1. hits \subseteq Nat
      BY <1>1, <1>2
    <3> QED
      BY <1>9, <3>1, MinFacts
  <2> HIDE DEF i
  <2>2. /\ zone = cand[i] /\ zone \in above /\ above # {} /\ zone # <<>>
        /\ zone \in Seq(Label) /\ Len(zone) = Len(w) - i + 1
    BY <1>2, <1>3, <1>4, <1>7, <1>9, <2>1 DEF i
  <2>3. ASSUME NEW z \in above PROVE IsSuffix(z, zone)
    <3>1. PICK j \in hits : z = cand[j]
      BY <1>6
    <3>2. j \in 1 .. Len(w) /\ i \in 1 .. Len(w) /\ i <= j
      BY <1>2, <2>1
    <3>3. /\ Len(z) = Len(w) - j + 1 /\ \A k \in 1 .. Len(z) : z[k] = w[j + k - 1]
          /\ \A k \in 1 .. Len(zone) : zone[k] = w[i + k - 1]
          /\ z \in Seq(Label)
      BY <1>3, <2>2, <3>1, <3>2
    <3> DEFINE m == Len(z)
               n == Len(zone)
               l == Len(w)
    <3>a. /\ m = l - j + 1 /\ n = l - i + 1 /\ l \in Nat /\ j \in 1 .. l /\ i \in 1 .. l
          /\ i <= j
      BY <1>1, <2>2, <3>2, <3>3
    <3>b. /\ m <= n
          /\ \A k \in 1 .. m : n - m + k \in 1 .. n /\ i + (n - m + k) - 1 = j + k - 1
      <4> HIDE DEF m, n, l
      <4> QED
        BY <3>a
    <3>4. /\ Len(z) <= Len(zone)
          /\ \A k \in 1 .. Len(z) : /\ Len(zone) - Len(z) + k \in 1 .. Len(zone)
                                    /\ i + (Len(zone) - Len(z) + k) - 1 = j + k - 1
      BY <3>b
    <3>5. \A k \in 1 .. Len(z) : z[k] = zone[Len(zone) - Len(z) + k]
      BY <3>3, <3>4
    <3> QED
      BY <2>2, <3>3, <3>4, <3>5, SuffixIff
  <2>4. /\ Len(zone) <= Len(host)
        /\ \A k \in 1 .. Len(zone) : zone[k] = host[Len(host) - Len(zone) + k]
    <3>1. host # <<>>
      <4> SUFFICES ASSUME host = <<>> PROVE FALSE
        OBVIOUS
      <4>1. w = <<>>
        BY WithoutStarFacts DEF w
      <4> QED
        BY <1>2, <1>9, <4>1
    <3>2. IsSuffix(w, host) /\ IsSuffix(zone, w)
      BY <2>2, <3>1, WithoutStarFacts DEF w
    <3>3. Len(w) <= Len(host) /\ \A k \in 1 .. Len(w) : w[k] = host[Len(host) - Len(w) + k]
      BY <1>1, <3>2, SuffixIff
    <3>4. Len(zone) <= Len(w) /\ \A k \in 1 .. Len(zone) : zone[k] = w[Len(w) - Len(zone) + k]
      BY <1>1, <2>2, <3>2, SuffixIff
    <3>5. Len(host) \in Nat /\ Len(zone) \in Nat
      BY <2>2
    <3>6. ASSUME NEW k \in 1 .. Len(zone) PROVE zone[k] = host[Len(host) - Len(zone) + k]
      <4>1. /\ Len(w) - Len(zone) + k \in 1 .. Len(w)
            /\ Len(host) - Len(w) + (Len(w) - Len(zone) + k) = Len(host) - Len(zone) + k
        BY <1>1, <3>3, <3>4, <3>5
      <4> QED
        BY <3>3, <3>4, <4>1
    <3> QED
      BY <1>1, <3>3, <3>4, <3>5, <3>6
  <2>5. IsSuffix(zone, host)
    BY <2>2, <2>4, SuffixIff
  <2>6. name = [ok |-> TRUE, relative |-> SubSeq(host, 1, Len(host) - Len(zone))]
    BY <2>2, <2>5 DEF name, ResolveRecordName
  <2> DEFINE rel == SubSeq(host, 1, Len(host) - Len(zone))
  <2>7. rel \o zone = host
    <3>1. Len(host) \in Nat /\ Len(zone) \in Nat /\ Len(host) - Len(zone) \in Nat
      BY <2>2, <2>4
    <3>2. \A k \in 1 .. Len(host) - Len(zone) : host[k] \in Label
      BY <3>1
    <3>3. /\ rel \in Seq(Label) /\ Len(rel) = Len(host) - Len(zone)
          /\ \A k \in 1 .. Len(rel) : rel[k] = host[k]
      BY <3>1, <3>2, SubSeqProperties
    <3> HIDE DEF rel
    <3>4. /\ rel \o zone \in Seq(Label) /\ Len(rel \o zone) = Len(host)
          /\ \A k \in 1 .. Len(host) :
               (rel \o zone)[k] = IF k <= Len(rel) THEN rel[k] ELSE zone[k - Len(rel)]
      <4>1. zone \in Seq(Label)
        BY <2>2
      <4>2. /\ rel \o zone \in Seq(Label) /\ Len(rel \o zone) = Len(rel) + Len(zone)
            /\ \A k \in 1 .. Len(rel) + Len(zone) :
                 (rel \o zone)[k] = IF k <= Len(rel) THEN rel[k] ELSE zone[k - Len(rel)]
        BY ONLY <3>3, <4>1, ConcatProperties
      <4>3. Len(rel) + Len(zone) = Len(host)
        BY <3>1, <3>3
      <4> QED
        BY <4>2, <4>3
    <3>5. ASSUME NEW k \in 1 .. Len(host) PROVE (rel \o zone)[k] = host[k]
      <4>1. CASE k <= Len(rel)
        BY <3>3, <3>4, <4>1
      <4>2. CASE ~ (k <= Len(rel))
        <5>1. /\ k - Len(rel) \in 1 .. Len(zone)
              /\ Len(host) - Len(zone) + (k - Len(rel)) = k
          BY <3>1, <3>3, <4>2
        <5>2. zone[k - Len(rel)] = host[k]
          BY <2>4, <5>1
        <5> QED
          BY <3>4, <4>2, <5>2
      <4> QED
        BY <4>1, <4>2
    <3> QED
      BY <3>4, <3>5, SeqEqual
  <2> HIDE DEF rel
  <2>8. name.ok /\ name.relative \o zone = host
    BY <2>6, <2>7 DEF rel
  <2> DEFINE rec == Record(host, answers)
  <2>9. rec.zone = zone /\ rec.name = name
    BY <1>5
  <2>10. /\ rec.name.ok /\ rec.name.relative \o rec.zone = host
         /\ rec.zone \in above /\ \A z \in above : IsSuffix(z, rec.zone)
    BY <2>2, <2>3, <2>8, <2>9
  <2> HIDE DEF rec
  <2>11. WrittenWhereServed(host, answers, rec)
    BY <2>2, <2>10 DEF WrittenWhereServed, w
  <2> QED
    BY <2>11 DEF rec
<1> QED
  BY <1>8, <1>9

-----------------------------------------------------------------------------
(* Custom apps.                                                             *)

\* Where an app of any loaded file is served.
LEMMA AppsCorrect ==
    ASSUME NEW file \in FileInputs
    PROVE  ServedInItsZone(UnmarshalYAML(file))
<1> DEFINE c == UnmarshalYAML(file)
<1>1. 0 \notin DOMAIN c.zones
  <2>1. DOMAIN file.domains = 1 .. Len(file.domains) /\ DOMAIN file.zones = 1 .. Len(file.zones)
    BY AlgorithmsAssumption
  <2>2. DOMAIN c.zones = DOMAIN file.domains \/ DOMAIN c.zones = DOMAIN file.zones
    BY DEF UnmarshalYAML
  <2>3. 0 \notin 1 .. Len(file.domains) /\ 0 \notin 1 .. Len(file.zones)
    OBVIOUS
  <2> QED
    BY <2>1, <2>2, <2>3
<1>2. DOMAIN c.zones \subseteq Nat
  <2>1. DOMAIN file.domains \subseteq Nat /\ DOMAIN file.zones \subseteq Nat
    BY AlgorithmsAssumption
  <2> QED
    BY <2>1 DEF UnmarshalYAML
<1> HIDE DEF c
<1> SUFFICES ASSUME Validate(c),
                    \A i, j \in DOMAIN c.zones : c.zones[i].name = c.zones[j].domain => i = j,
                    NEW k \in DOMAIN c.apps
             PROVE  LET z == ZoneOfApp(c, c.apps[k])
                    IN z # 0 /\ c.zones[z].domain = AppDomain(c.apps[k])
  BY DEF ServedInItsZone, c
<1> DEFINE a == AppDomain(c.apps[k])
           named == {i \in DOMAIN c.zones : a \in {c.zones[i].name, c.zones[i].domain}}
<1>3. PICK j \in DOMAIN c.zones : c.zones[j].domain = a
  BY DEF Validate
<1>4. \A i \in DOMAIN c.zones : c.zones[i].domain = a => i = j
  BY <1>3 DEF Validate
<1>5. named = {j}
  BY <1>3, <1>4
<1>6. ZoneOfApp(c, c.apps[k]) =
        IF named = {} THEN 0 ELSE CHOOSE i \in named : \A l \in named : l <= i
  BY DEF ZoneOfApp
<1>7. (CHOOSE i \in {j} : \A l \in {j} : l <= i) = j
  BY <1>2, <1>3
<1>8. ZoneOfApp(c, c.apps[k]) = j
  <2> HIDE DEF named
  <2> QED
    BY <1>5, <1>6, <1>7
<1> QED
  BY <1>1, <1>3, <1>8

-----------------------------------------------------------------------------
(* Certificates of planned hosts.                                           *)

\* The tokens that a name is stored under, one by one.
Stored(name) ==
    [i \in DOMAIN name |-> IF name[i] = ":" THEN <<"_", "_">> ELSE <<name[i]>>]

\* A name without a slash is its own last element.
LEMMA StorageOfElement ==
    ASSUME NEW S, NEW name \in Seq(S), name # <<>>, \A i \in DOMAIN name : name[i] # "/"
    PROVE  StorageNameForBundle(name) = FlattenSeq(Stored(name))
<1> DEFINE n == Len(name)
           solid == {i \in DOMAIN name : name[i] # "/"}
           last == Max(solid)
           slashes == {0} \cup {i \in 1 .. last : name[i] = "/"}
           element == SubSeq(name, Max(slashes) + 1, last)
<1>1. n \in Nat \ {0} /\ DOMAIN name = 1 .. n
  BY EmptySeq
<1>2. solid = 1 .. n
  BY <1>1
<1>3. last = n
  <2>1. solid \subseteq 0 .. n /\ n \in solid
    BY <1>1, <1>2
  <2> HIDE DEF solid, n
  <2>2. last \in solid /\ last >= n
    BY <1>1, <2>1, MaxFacts
  <2> QED
    BY <1>1, <1>2, <2>2
<1>4. slashes = {0}
  <2> HIDE DEF last
  <2> QED
    BY <1>1, <1>3
<1>5. Max(slashes) = 0
  <2> HIDE DEF slashes
  <2>1. slashes \subseteq 0 .. 0 /\ slashes # {} /\ 0 \in Nat
    BY <1>4
  <2>2. Max(slashes) \in slashes
    BY <2>1, MaxFacts
  <2> QED
    BY <1>4, <2>2
<1>6. element = name
  <2> HIDE DEF slashes, last
  <2>1. element = SubSeq(name, 1, n)
    BY <1>3, <1>5
  <2> QED
    BY <2>1, SubSeqFull
<1>7. StorageNameForBundle(name)
        = IF solid = {} THEN <<"default">>
          ELSE FlattenSeq([i \in DOMAIN element |->
                             IF element[i] = ":" THEN <<"_", "_">> ELSE <<element[i]>>])
  BY DEF StorageNameForBundle
<1>8. solid # {}
  BY <1>1, <1>2
<1> HIDE DEF element, solid
<1> QED
  BY <1>6, <1>7, <1>8 DEF Stored

\* The words a name of the configuration is made of.
Token == STRING \cup {":", "_"}

\* One token for each, two for a colon.
LEMMA StoredFacts ==
    ASSUME NEW name \in Seq(Token)
    PROVE  /\ Stored(name) \in Seq(Seq(Token)) /\ Len(Stored(name)) = Len(name)
           /\ \A i \in 1 .. Len(name) :
                /\ name[i] = ":" => Len(Stored(name)[i]) = 2
                /\ name[i] # ":" => Len(Stored(name)[i]) = 1 /\ Stored(name)[i][1] = name[i]
<1> DEFINE n == Len(name)
           s == Stored(name)
           two == <<"_", "_">>
<1>1. n \in Nat /\ DOMAIN name = 1 .. n /\ \A i \in 1 .. n : name[i] \in Token
  OBVIOUS
<1>2. s = [i \in 1 .. n |-> IF name[i] = ":" THEN two ELSE <<name[i]>>]
  BY <1>1 DEF Stored
<1>3. two \in Seq(Token) /\ Len(two) = 2
  <2>1. "_" \in Token
    BY DEF Token
  <2>2. \A t \in Token : <<t, t>> \in Seq(Token) /\ Len(<<t, t>>) = 2
    OBVIOUS
  <2> QED
    BY <2>1, <2>2
<1> HIDE DEF two, s, n
<1>4. \A i \in 1 .. n : <<name[i]>> \in Seq(Token) /\ Len(<<name[i]>>) = 1 /\ <<name[i]>>[1] = name[i]
  BY <1>1
<1>5. s \in [1 .. n -> Seq(Token)]
  BY <1>2, <1>3, <1>4
<1>6. s \in Seq(Seq(Token)) /\ Len(s) = n
  BY <1>1, <1>2, <1>5
<1>7. \A i \in 1 .. n : /\ name[i] = ":" => Len(s[i]) = 2
                        /\ name[i] # ":" => Len(s[i]) = 1 /\ s[i][1] = name[i]
  BY <1>2, <1>3, <1>4
<1> QED
  BY <1>6, <1>7 DEF s, n

\* c is a and then b.
Joined(S, a, b, c) ==
    /\ c \in Seq(S) /\ Len(c) = Len(a) + Len(b)
    /\ \A k \in 1 .. Len(a) : c[k] = a[k]
    /\ \A k \in 1 .. Len(b) : c[Len(a) + k] = b[k]

\* Where the elements of two sequences are when one follows the other.
LEMMA ConcatElements ==
    ASSUME NEW S, NEW a \in Seq(S), NEW b \in Seq(S)
    PROVE  Joined(S, a, b, a \o b)
<1> DEFINE m == Len(a)
           n == Len(b)
           c == a \o b
<1>1. m \in Nat /\ n \in Nat
  OBVIOUS
<1>2. /\ c \in Seq(S) /\ Len(c) = m + n
      /\ \A k \in 1 .. m + n : c[k] = IF k <= m THEN a[k] ELSE b[k - m]
  BY ConcatProperties, Zenon
<1> HIDE DEF m, n, c
<1>3. \A k \in 1 .. m : k \in 1 .. m + n /\ k <= m
  BY <1>1
<1>5. \A k \in 1 .. m : c[k] = a[k]
  BY <1>2, <1>3
<1>6. ASSUME NEW k \in 1 .. n PROVE c[m + k] = b[k]
  <2> DEFINE j == m + k
  <2>1. j \in 1 .. m + n /\ ~ (j <= m) /\ j - m = k
    BY <1>1
  <2> HIDE DEF j
  <2>2. c[j] = b[j - m]
    BY <1>2, <2>1
  <2> QED
    BY <2>1, <2>2 DEF j
<1> QED
  BY <1>2, <1>5, <1>6 DEF m, n, c, Joined

\* A single word is stored under itself.
LEMMA StorageOfWord ==
    ASSUME NEW name \in Seq(Token), Len(name) = 1, name[1] \notin {"/", ":"}
    PROVE  LET d == StorageNameForBundle(name) IN d \in Seq(Token) /\ Len(d) = 1 /\ d[1] = name[1]
<1> DEFINE s == Stored(name)
<1>1. name # <<>> /\ DOMAIN name = 1 .. 1 /\ \A i \in 1 .. 1 : i = 1
  <2>1. name # <<>>
    <3>1. Len(<<>>) = 0 /\ 0 # 1
      OBVIOUS
    <3> QED
      BY <3>1, Zenon
  <2>2. DOMAIN name = 1 .. 1
    BY LenProperties
  <2>3. \A i \in 1 .. 1 : i = 1
    OBVIOUS
  <2> QED
    BY <2>1, <2>2, <2>3
<1>2. StorageNameForBundle(name) = FlattenSeq(s)
  <2>1. \A i \in DOMAIN name : name[i] # "/"
    BY <1>1
  <2> HIDE DEF s
  <2> QED
    BY <1>1, <2>1, StorageOfElement DEF s
<1>3. s \in Seq(Seq(Token)) /\ Len(s) = 1 /\ Len(s[1]) = 1 /\ s[1][1] = name[1]
  BY <1>1, StoredFacts
<1> HIDE DEF s
<1>4. s[1] \in Seq(Token)
  BY <1>3
<1>5. PICK g : Parts(Token, s, g)
  BY <1>3, PartsExist
<1>6. g[0] = <<>> /\ g[1] = g[0] \o s[1] /\ FlattenSeq(s) = g[1]
  <2>1. FlattenSeq(s) = g[Len(s)]
    BY <1>3, <1>5, FlattenIsLastPart
  <2>2. 1 \in 1 .. Len(s) /\ 1 - 1 = 0
    BY <1>3
  <2> QED
    BY <1>3, <1>5, <2>1, <2>2 DEF Parts
<1>7. g[1] = s[1]
  BY <1>4, <1>6
<1> QED
  BY <1>2, <1>3, <1>4, <1>6, <1>7

\* Two words and a colon are stored under four tokens.
LEMMA StorageOfPair ==
    ASSUME NEW name \in Seq(Token), Len(name) = 3, name[2] = ":",
           name[1] \notin {"/", ":"}, name[3] \notin {"/", ":"}
    PROVE  LET d == StorageNameForBundle(name) IN
           d \in Seq(Token) /\ Len(d) = 4 /\ d[1] = name[1] /\ d[4] = name[3]
<1> DEFINE s == Stored(name)
<1>1. /\ name # <<>> /\ DOMAIN name = 1 .. 3 /\ \A i \in 1 .. 3 : i = 1 \/ i = 2 \/ i = 3
      /\ 1 \in 1 .. 3 /\ 2 \in 1 .. 3 /\ 3 \in 1 .. 3
  OBVIOUS
<1>2. StorageNameForBundle(name) = FlattenSeq(s)
  <2>1. \A i \in DOMAIN name : name[i] # "/"
    BY <1>1
  <2> HIDE DEF s
  <2> QED
    BY <1>1, <2>1, StorageOfElement DEF s
<1>3. /\ s \in Seq(Seq(Token)) /\ Len(s) = 3
      /\ Len(s[1]) = 1 /\ s[1][1] = name[1] /\ Len(s[2]) = 2
      /\ Len(s[3]) = 1 /\ s[3][1] = name[3]
  BY <1>1, StoredFacts
<1> HIDE DEF s
<1>4. s[1] \in Seq(Token) /\ s[2] \in Seq(Token) /\ s[3] \in Seq(Token)
  BY <1>3, SMTT(30)
<1>5. PICK g : Parts(Token, s, g)
  BY <1>3, PartsExist
<1>6. /\ g[0] = <<>> /\ g[1] = g[0] \o s[1] /\ g[2] = g[1] \o s[2] /\ g[3] = g[2] \o s[3]
      /\ FlattenSeq(s) = g[3] /\ g[2] \in Seq(Token) /\ g[3] \in Seq(Token)
  <2>1. FlattenSeq(s) = g[Len(s)]
    BY <1>3, <1>5, FlattenIsLastPart
  <2>2. /\ \A i \in 1 .. 3 : g[i] = g[i - 1] \o s[i]
        /\ g[0] = <<>> /\ g \in [0 .. 3 -> Seq(Token)]
    BY <1>3, <1>5 DEF Parts
  <2>3. 1 - 1 = 0 /\ 2 - 1 = 1 /\ 3 - 1 = 2 /\ 2 \in 0 .. 3 /\ 3 \in 0 .. 3
    OBVIOUS
  <2> QED
    BY <1>1, <1>3, <2>1, <2>2, <2>3
<1>7. g[1] = s[1]
  BY <1>4, <1>6
<1>8. Len(g[2]) = 3 /\ g[2][1] = name[1]
  <2> DEFINE a == s[1]
             b == s[2]
  <2>1. a \in Seq(Token) /\ b \in Seq(Token) /\ Len(a) = 1 /\ Len(b) = 2 /\ a[1] = name[1]
    BY <1>3, <1>4
  <2>2. g[2] = a \o b
    BY <1>6, <1>7
  <2> HIDE DEF a, b
  <2>3. Len(a \o b) = 3 /\ (a \o b)[1] = a[1]
    BY <2>1, ConcatProperties, SMTT(30)
  <2> QED
    BY <2>1, <2>2, <2>3
<1>9. Len(g[3]) = 4 /\ g[3][1] = name[1] /\ g[3][4] = name[3]
  <2> DEFINE a == g[2]
             b == s[3]
  <2>1. /\ a \in Seq(Token) /\ b \in Seq(Token) /\ Len(a) = 3 /\ Len(b) = 1
        /\ a[1] = name[1] /\ b[1] = name[3]
    BY <1>3, <1>4, <1>6, <1>8
  <2>2. g[3] = a \o b
    BY <1>6
  <2> HIDE DEF a, b
  <2>3. Len(a \o b) = 4 /\ (a \o b)[1] = a[1] /\ (a \o b)[4] = b[1]
    <3>1. /\ Len(a \o b) = Len(a) + Len(b)
          /\ \A k \in 1 .. Len(a) : (a \o b)[k] = a[k]
          /\ \A k \in 1 .. Len(b) : (a \o b)[Len(a) + k] = b[k]
      <4>1. Joined(Token, a, b, a \o b)
        BY <2>1, ConcatElements
      <4> QED
        BY <4>1 DEF Joined
    <3>2. 1 \in 1 .. 3 /\ 1 \in 1 .. 1 /\ 3 + 1 = 4
      OBVIOUS
    <3> QED
      BY <2>1, <3>1, <3>2
  <2> QED
    BY <2>1, <2>2, <2>3
<1> QED
  BY <1>2, <1>6, <1>9

\* A plan's name and what it is stored under, in a zone named plainly: the zone's word, or
\* the zone's and the bundle's.
PlainPlan(name, z) ==
    LET d == StorageNameForBundle(name) IN
    \/ name = z.name /\ Len(d) = 1 /\ d[1] = z.name[1]
    \/ \E v \in STRING : /\ name = z.name \o <<":">> \o <<v>>
                         /\ Len(d) = 4 /\ d[1] = z.name[1] /\ d[4] = v

\* Every name that QualifiedBundleName makes of plain words is such a one.
LEMMA PlainPlanFacts ==
    ASSUME NEW zones \in ZoneInputs, NamedPlainly(zones), NEW i \in DOMAIN zones
    PROVE  /\ zones[i].name = <<zones[i].name[1]>>
           /\ PlainPlan(zones[i].name, zones[i])
           /\ \A k \in DOMAIN zones[i].bundles :
                PlainPlan(QualifiedBundleName(zones[i].name, zones[i].bundles[k].name), zones[i])
<1> DEFINE z == zones[i]
           w == z.name[1]
<1>1. /\ z.name \in Seq(STRING) /\ Len(z.name) = 1 /\ z.name[1] \notin {"/", ":", "_"}
      /\ \A k \in DOMAIN z.bundles :
           /\ z.bundles[k].name \in Seq(STRING) /\ Len(z.bundles[k].name) = 1
           /\ z.bundles[k].name[1] \notin {"/", ":", "_"}
  BY AlgorithmsAssumption DEF NamedPlainly
<1> HIDE DEF z
<1>2. \A n \in Seq(STRING) : Len(n) = 1 => n = <<n[1]>> /\ n[1] \in STRING
  <2> SUFFICES ASSUME NEW n \in Seq(STRING), Len(n) = 1 PROVE n = <<n[1]>> /\ n[1] \in STRING
    OBVIOUS
  <2>1. n[1] \in STRING /\ <<n[1]>> \in Seq(STRING) /\ Len(<<n[1]>>) = 1
    OBVIOUS
  <2>2. \A k \in 1 .. 1 : n[k] = <<n[1]>>[k]
    OBVIOUS
  <2> QED
    BY <2>1, <2>2, SeqEqual
<1>3. z.name = <<w>> /\ w \in STRING
  BY <1>1, <1>2
<1>4. STRING \subseteq Token /\ ":" \in Token
  BY DEF Token
<1>t. z.name \in Seq(Token)
  BY <1>1, <1>4, SeqMonotonic
<1>5. PlainPlan(z.name, z)
  BY <1>1, <1>t, StorageOfWord DEF PlainPlan
<1> HIDE DEF w
<1>6. ASSUME NEW k \in DOMAIN z.bundles
      PROVE  PlainPlan(QualifiedBundleName(z.name, z.bundles[k].name), z)
  <2> DEFINE b == z.bundles[k].name
             v == b[1]
             zc == z.name \o <<":">>
             name == zc \o <<v>>
  <2>1. b = <<v>> /\ v \in STRING /\ v \notin {"/", ":"}
    BY <1>1, <1>2
  <2> HIDE DEF b
  <2>2. CASE b = z.name
    BY <1>5, <2>2 DEF QualifiedBundleName, b
  <2>3. CASE b # z.name
    <3>1. QualifiedBundleName(z.name, b) = name
      <4>1. Len(<<v>>) = 1 /\ Len(<<>>) = 0
        OBVIOUS
      <4> HIDE DEF v
      <4>2. b # <<>>
        BY <2>1, <4>1
      <4>3. QualifiedBundleName(z.name, b) = z.name \o <<":">> \o b
        BY <2>3, <4>2 DEF QualifiedBundleName
      <4> QED
        BY <2>1, <4>3
    <3> DEFINE colon == <<":">>
               vv == <<v>>
    <3>2. /\ colon \in Seq(Token) /\ Len(colon) = 1 /\ colon[1] = ":"
          /\ vv \in Seq(Token) /\ Len(vv) = 1 /\ vv[1] = v
      <4>1. \A t \in Token : <<t>> \in Seq(Token) /\ Len(<<t>>) = 1 /\ <<t>>[1] = t
        OBVIOUS
      <4>2. v \in Token
        BY <1>4, <2>1
      <4> HIDE DEF v
      <4> QED
        BY <1>4, <4>1, <4>2
    <3> HIDE DEF colon, vv, v
    <3>3. zc = z.name \o colon /\ name = zc \o vv
      BY DEF colon, vv
    <3> HIDE DEF zc, name
    <3>4. zc \in Seq(Token) /\ Len(zc) = 2 /\ zc[1] = z.name[1] /\ zc[2] = ":"
      <4> DEFINE a == z.name
      <4>1. a \in Seq(Token) /\ Len(a) = 1
        BY <1>1, <1>t
      <4> HIDE DEF a
      <4>2. /\ a \o colon \in Seq(Token) /\ Len(a \o colon) = Len(a) + Len(colon)
            /\ \A j \in 1 .. Len(a) : (a \o colon)[j] = a[j]
            /\ \A j \in 1 .. Len(colon) : (a \o colon)[Len(a) + j] = colon[j]
        <5>1. Joined(Token, a, colon, a \o colon)
          BY <3>2, <4>1, ConcatElements
        <5> QED
          BY <5>1 DEF Joined
      <4>3. zc = a \o colon /\ 1 \in 1 .. 1 /\ 1 + 1 = 2
        BY <3>3 DEF a
      <4>4. zc \in Seq(Token) /\ Len(zc) = 2 /\ zc[1] = a[1] /\ zc[2] = ":"
        BY <3>2, <4>1, <4>2, <4>3
      <4> QED
        BY <4>4 DEF a
    <3>5. /\ name \in Seq(Token) /\ Len(name) = 3 /\ name[1] = z.name[1] /\ name[2] = ":"
          /\ name[3] = v
      <4>1. /\ zc \o vv \in Seq(Token) /\ Len(zc \o vv) = Len(zc) + Len(vv)
            /\ \A j \in 1 .. Len(zc) : (zc \o vv)[j] = zc[j]
            /\ \A j \in 1 .. Len(vv) : (zc \o vv)[Len(zc) + j] = vv[j]
        <5>1. Joined(Token, zc, vv, zc \o vv)
          BY <3>2, <3>4, ConcatElements
        <5> QED
          BY <5>1 DEF Joined
      <4>2. name = zc \o vv /\ 1 \in 1 .. 1 /\ 1 \in 1 .. 2 /\ 2 \in 1 .. 2 /\ 2 + 1 = 3
        BY <3>3
      <4> QED
        BY <3>2, <3>4, <4>1, <4>2
    <3>6. LET d == StorageNameForBundle(name) IN
          Len(d) = 4 /\ d[1] = z.name[1] /\ d[4] = v
      <4>1. name[1] \notin {"/", ":"} /\ name[3] \notin {"/", ":"}
        BY <1>1, <2>1, <3>5
      <4>2. LET d == StorageNameForBundle(name) IN
            d \in Seq(Token) /\ Len(d) = 4 /\ d[1] = name[1] /\ d[4] = name[3]
        BY <3>5, <4>1, StorageOfPair
      <4> QED
        BY <3>5, <4>2
    <3>7. name = z.name \o <<":">> \o <<v>>
      BY DEF name, zc
    <3>8. PlainPlan(name, z)
      BY <2>1, <3>6, <3>7 DEF PlainPlan
    <3> QED
      BY <3>1, <3>8 DEF b
  <2> QED
    BY <2>2, <2>3
<1> QED
  BY <1>3, <1>5, <1>6 DEF z, w

\* Plans of zones that are named plainly have a directory of their own.
LEMMA PlanStorage ==
    ASSUME NEW zones \in ZoneInputs, ZonesValid(zones), NamedPlainly(zones),
           NEW q \in BuildCertificateRequests(zones), NEW r \in BuildCertificateRequests(zones),
           StorageNameForBundle(q.name) = StorageNameForBundle(r.name)
    PROVE  q = r
<1> DEFINE Of(s, z) == \/ /\ z.bundles = <<>>
                          /\ s = [name |-> z.name, domains |-> DomainsForManagedZone(z)]
                       \/ \E i \in DOMAIN z.bundles :
                            s = [name |-> QualifiedBundleName(z.name, z.bundles[i].name),
                                 domains |-> PlanDomains(z, z.bundles[i])]
<1>1. ASSUME NEW s \in BuildCertificateRequests(zones)
      PROVE  \E i \in DOMAIN zones : zones[i].enabled /\ Of(s, zones[i])
  <2>1. PICK i \in DOMAIN zones : s \in CertificatePlans(zones[i])
    BY DEF BuildCertificateRequests
  <2> QED
    BY <2>1 DEF CertificatePlans, ToSet
<1>2. ASSUME NEW s, NEW i \in DOMAIN zones, Of(s, zones[i]) PROVE PlainPlan(s.name, zones[i])
  <2>1. /\ PlainPlan(zones[i].name, zones[i])
        /\ \A k \in DOMAIN zones[i].bundles :
             PlainPlan(QualifiedBundleName(zones[i].name, zones[i].bundles[k].name), zones[i])
    BY PlainPlanFacts
  <2>2. CASE s = [name |-> zones[i].name, domains |-> DomainsForManagedZone(zones[i])]
    <3>1. s.name = zones[i].name
      BY <2>2
    <3> QED
      BY <2>1, <3>1
  <2>3. CASE \E k \in DOMAIN zones[i].bundles :
               s = [name |-> QualifiedBundleName(zones[i].name, zones[i].bundles[k].name),
                    domains |-> PlanDomains(zones[i], zones[i].bundles[k])]
    <3>1. PICK k \in DOMAIN zones[i].bundles :
            s.name = QualifiedBundleName(zones[i].name, zones[i].bundles[k].name)
      BY <2>3
    <3> QED
      BY <2>1, <3>1
  <2> QED
    BY <1>2, <2>2, <2>3
<1>3. PICK i \in DOMAIN zones : zones[i].enabled /\ Of(q, zones[i])
  BY <1>1
<1>4. PICK j \in DOMAIN zones : zones[j].enabled /\ Of(r, zones[j])
  BY <1>1
<1>5. i = j /\ q.name = r.name
  <2> HIDE DEF Of
  <2> DEFINE n == zones[i].name
             m == zones[j].name
             d == StorageNameForBundle(q.name)
  <2>1. \/ q.name = n /\ Len(d) = 1 /\ d[1] = n[1]
        \/ \E v \in STRING : /\ q.name = n \o <<":">> \o <<v>>
                             /\ Len(d) = 4 /\ d[1] = n[1] /\ d[4] = v
    BY <1>2, <1>3 DEF PlainPlan
  <2>2. \/ r.name = m /\ Len(d) = 1 /\ d[1] = m[1]
        \/ \E v \in STRING : /\ r.name = m \o <<":">> \o <<v>>
                             /\ Len(d) = 4 /\ d[1] = m[1] /\ d[4] = v
    <3>1. PlainPlan(r.name, zones[j])
      BY <1>2, <1>4
    <3> QED
      BY <3>1 DEF PlainPlan
  <2>3. n = <<n[1]>> /\ m = <<m[1]>>
    BY PlainPlanFacts
  <2> HIDE DEF n, m, d
  <2>4. n = m
    <3>1. n[1] = m[1]
      BY <2>1, <2>2
    <3> QED
      BY <2>3, <3>1
  <2>5. q.name = r.name
    <3>1. CASE Len(d) = 1
      <4>1. q.name = n /\ r.name = m
        BY <2>1, <2>2, <3>1
      <4> QED
        BY <2>4, <4>1
    <3>2. CASE Len(d) # 1
      <4>1. PICK v \in STRING : q.name = n \o <<":">> \o <<v>> /\ d[4] = v
        BY <2>1, <3>2
      <4>2. PICK u \in STRING : r.name = m \o <<":">> \o <<u>> /\ d[4] = u
        BY <2>2, <3>2
      <4> QED
        BY <2>4, <4>1, <4>2
    <3> QED
      BY <3>1, <3>2
  <2> QED
    BY <2>4, <2>5 DEF NamedPlainly, n, m
<1> DEFINE z == zones[i]
<1>6. ~ PlansRejected(z)
  BY <1>3 DEF ZonesValid
<1>7. CASE z.bundles = <<>>
  BY <1>3, <1>4, <1>5, <1>7
<1>8. CASE z.bundles # <<>>
  <2>1. PICK k \in DOMAIN z.bundles :
          q = [name |-> QualifiedBundleName(z.name, z.bundles[k].name),
               domains |-> PlanDomains(z, z.bundles[k])]
    BY <1>3, <1>8
  <2>2. PICK l \in DOMAIN z.bundles :
          r = [name |-> QualifiedBundleName(z.name, z.bundles[l].name),
               domains |-> PlanDomains(z, z.bundles[l])]
    BY <1>4, <1>5, <1>8
  <2>3. k = l
    BY <1>5, <1>6, <2>1, <2>2 DEF PlansRejected
  <2> QED
    BY <2>1, <2>2, <2>3
<1> QED
  BY <1>7, <1>8

\* No plan is for the wildcard of no zone.
LEMMA PlanDomainsInZone ==
    ASSUME NEW zones \in ZoneInputs, ZonesValid(zones),
           NEW r \in BuildCertificateRequests(zones)
    PROVE  <<Star>> \notin ToSet(r.domains)
<1>1. PICK i \in DOMAIN zones : r \in CertificatePlans(zones[i])
  BY DEF BuildCertificateRequests
<1> DEFINE z == zones[i]
<1>2. z.domain \in Seq(Label) /\ z.domain # <<>> /\ z.domain[1] # Star
  BY AlgorithmsAssumption DEF ZonesValid
<1>3. CASE z.bundles = <<>>
  <2>1. r.domains = <<z.domain>> \o (IF z.wildcard THEN <<<<Star>> \o z.domain>> ELSE <<>>)
    <3>1. r = [name |-> z.name, domains |-> DomainsForManagedZone(z)]
      BY <1>1, <1>3 DEF CertificatePlans
    <3> QED
      BY <3>1 DEF DomainsForManagedZone
  <2> DEFINE S == Label \cup {Star}
  <2>2. z.domain \in Seq(S)
    BY <1>2, SeqMonotonic
  <2>3. <<Star>> \in Seq(S)
    OBVIOUS
  <2> HIDE DEF S
  <2>4. Len(<<Star>> \o z.domain) = 1 + Len(z.domain)
    BY <2>2, <2>3, ConcatProperties
  <2>5. z.domain # <<Star>> /\ <<Star>> \o z.domain # <<Star>>
    <3>1. Len(z.domain) \in Nat /\ Len(z.domain) # 0
      BY <1>2
    <3>2. z.domain # <<Star>>
      BY <1>2
    <3>3. Len(<<Star>> \o z.domain) # Len(<<Star>>)
      BY <2>4, <3>1
    <3> QED
      BY <3>2, <3>3
  <2> DEFINE x == <<Star>> \o z.domain
  <2> HIDE DEF x
  <2>6. CASE z.wildcard
    <3>1. r.domains = <<z.domain>> \o <<x>>
      BY <2>1, <2>6 DEF x
    <3>2. /\ r.domains \in Seq({z.domain, x}) /\ Len(r.domains) = 2
      BY <3>1, ConcatProperties, <<z.domain>> \in Seq({z.domain, x}), <<x>> \in Seq({z.domain, x})
    <3>3. ToSet(r.domains) \subseteq {z.domain, x}
      BY <3>2 DEF ToSet
    <3>4. x # <<Star>>
      BY <2>5 DEF x
    <3> QED
      BY <2>5, <3>3, <3>4
  <2>7. CASE ~ z.wildcard
    <3>1. r.domains = <<z.domain>>
      BY <2>1, <2>7
    <3> QED
      BY <2>5, <3>1 DEF ToSet
  <2> QED
    BY <2>6, <2>7
<1>4. CASE z.bundles # <<>>
  <2> SUFFICES ASSUME <<Star>> \in ToSet(r.domains) PROVE FALSE
    OBVIOUS
  <2>1. z.enabled /\ ~ PlansRejected(z)
    BY <1>1 DEF CertificatePlans, ZonesValid
  <2>2. PICK k \in DOMAIN z.bundles : r.domains = PlanDomains(z, z.bundles[k])
    BY <1>1, <1>4, <2>1 DEF CertificatePlans, ToSet
  <2>3. DomainWithinManagedDomain(z.domain, <<Star>>)
    BY <2>1, <2>2 DEF PlansRejected
  <2>4. WithoutStar(<<Star>>) = <<>>
    BY DEF WithoutStar
  <2>5. IsSuffix(z.domain, <<>>) /\ <<>> \in Seq(Label)
    BY <2>3, <2>4 DEF DomainWithinManagedDomain
  <2>6. Len(z.domain) <= Len(<<>>)
    BY <1>2, <2>5, SuffixIff
  <2> QED
    BY <1>2, <2>6
<1> QED
  BY <1>3, <1>4

\* What any client of a planned host is given.
LEMMA PlannedCorrect ==
    ASSUME NEW zones \in ZoneInputs, ZonesValid(zones), NEW host \in ServedHosts
    PROVE  PlannedHostsCovered(zones, host,
             GetCertificate(LoadCertificates(BuildCertificateRequests(zones)), host))
<1> DEFINE req == BuildCertificateRequests(zones)
           store == LoadCertificates(req)
           exact == {d \in DOMAIN store : d[1] # Star}
           wild == {i \in 2 .. Len(host) :
                      <<Star>> \o SubSeq(host, i, Len(host)) \in DOMAIN store}
           x == <<Star>> \o Tail(host)
           alone(r) == \A q \in req :
                         StorageNameForBundle(q.name) = StorageNameForBundle(r.name) => q = r
<1> SUFFICES ASSUME \E r \in req : \E d \in ToSet(r.domains) : d[1] # Star,
                    \E r \in req : Covers(ToSet(r.domains), host),
                    \/ NamedPlainly(zones)
                    \/ \A r \in req : Covers(ToSet(r.domains), host) => alone(r)
             PROVE  Covers(GetCertificate(store, host), host)
  BY DEF PlannedHostsCovered
<1>0. ASSUME NEW r \in req, Covers(ToSet(r.domains), host),
             NEW q \in req, StorageNameForBundle(q.name) = StorageNameForBundle(r.name)
      PROVE  q = r
  <2>1. CASE NamedPlainly(zones)
    <3> HIDE DEF req
    <3>1. q \in BuildCertificateRequests(zones) /\ r \in BuildCertificateRequests(zones)
      BY DEF req
    <3> QED
      BY <1>0, <2>1, <3>1, PlanStorage
  <2>2. CASE \A s \in req : Covers(ToSet(s.domains), host) => alone(s)
    BY <1>0, <2>2
  <2> QED
    BY <2>1, <2>2
<1>1. /\ DOMAIN store = UNION {ToSet(r.domains) : r \in req}
      /\ \A d \in DOMAIN store : d \in {host, x} => d \in store[d]
  <2>1. DOMAIN store = UNION {ToSet(r.domains) : r \in req}
    BY DEF LoadCertificates
  <2>2. ASSUME NEW d \in DOMAIN store, d \in {host, x} PROVE d \in store[d]
    <3> DEFINE r == CHOOSE s \in req : d \in ToSet(s.domains)
               first == CHOOSE q \in req :
                          StorageNameForBundle(q.name) = StorageNameForBundle(r.name)
    <3>1. r \in req /\ d \in ToSet(r.domains)
      BY <2>1
    <3> HIDE DEF r
    <3>2. first \in req /\ StorageNameForBundle(first.name) = StorageNameForBundle(r.name)
      BY <3>1
    <3> HIDE DEF first, req
    <3>a. Covers(ToSet(r.domains), host)
      BY <2>2, <3>1 DEF Covers
    <3>3. first = r
      BY <1>0, <3>1, <3>2, <3>a
    <3>4. store[d] = ToSet(first.domains)
      BY <2>1 DEF LoadCertificates, Certificate, first, r
    <3> QED
      BY <3>1, <3>3, <3>4
  <2> QED
    BY <2>1, <2>2
<1>2. host \in Seq(Label) /\ host # <<>> /\ Len(host) \in Nat \ {0}
  BY AlgorithmsAssumption, EmptySeq
<1>3. <<Star>> \notin DOMAIN store
  BY <1>1, PlanDomainsInZone
<1>4. GetCertificate(store, host) =
        IF exact = {} THEN {}
        ELSE IF host \in exact THEN store[host]
        ELSE IF wild # {} THEN store[<<Star>> \o SubSeq(host, Min(wild), Len(host))]
        ELSE store[CHOOSE d \in exact : TRUE]
  BY DEF GetCertificate
<1>5. exact # {} /\ (host \in DOMAIN store \/ x \in DOMAIN store)
  BY <1>1 DEF Covers
<1>6. CASE host \in exact
  BY <1>1, <1>4, <1>5, <1>6 DEF Covers
<1>7. CASE host \notin exact
  <2> DEFINE S == Label \cup {Star}
  <2>1. host \in Seq(S) /\ <<Star>> \in Seq(S)
    BY <1>2, SeqMonotonic
  <2> HIDE DEF S
  <2>2. /\ Tail(host) \in Seq(S) /\ Len(Tail(host)) = Len(host) - 1
        /\ \A i \in 1 .. Len(Tail(host)) : Tail(host)[i] = host[i + 1]
    BY <1>2, <2>1, HeadTailProperties
  <2>3. /\ x \in Seq(S) /\ Len(x) = Len(host) /\ x[1] = Star
        /\ \A i \in 2 .. Len(host) : x[i] = Tail(host)[i - 1]
    BY <1>2, <2>1, <2>2, ConcatProperties
  <2>4. x \in DOMAIN store
    <3> SUFFICES ASSUME host \in DOMAIN store PROVE x = host
      BY <1>5
    <3>1. host[1] = Star
      BY <1>7
    <3> HIDE DEF x
    <3>2. ASSUME NEW i \in 1 .. Len(host) PROVE x[i] = host[i]
      <4>1. CASE i = 1
        BY <2>3, <3>1, <4>1
      <4>2. CASE i # 1
        <5>1. i \in 2 .. Len(host) /\ i - 1 \in 1 .. Len(Tail(host)) /\ i - 1 + 1 = i
          BY <1>2, <2>2, <4>2
        <5> QED
          BY <2>2, <2>3, <5>1
      <4> QED
        BY <4>1, <4>2
    <3> QED
      BY <2>1, <2>3, <3>2, SeqEqual
  <2>5. Len(host) >= 2
    <3> SUFFICES ASSUME Len(host) = 1 PROVE FALSE
      <4>1. \A n \in Nat \ {0} : n # 1 => n >= 2
        OBVIOUS
      <4> QED
        BY <1>2, <4>1
    <3>1. Len(x) = 1 /\ x[1] = <<Star>>[1] /\ Len(<<Star>>) = 1
      BY <2>3
    <3> HIDE DEF x
    <3>2. x = <<Star>>
      BY <2>1, <2>3, <3>1, SeqEqual
    <3> QED
      BY <1>3, <2>4, <3>2
  <2>6. SubSeq(host, 2, Len(host)) = Tail(host)
    BY <1>2, TailIsSubSeq
  <2>7. 2 \in wild
    <3>1. \A n \in Nat : n >= 2 => 2 \in 2 .. n
      OBVIOUS
    <3>2. 2 \in 2 .. Len(host)
      BY <1>2, <2>5, <3>1
    <3>3. <<Star>> \o SubSeq(host, 2, Len(host)) \in DOMAIN store
      BY <2>4, <2>6
    <3> QED
      BY <3>2, <3>3
  <2>8. Min(wild) = 2
    <3>1. wild \subseteq Nat /\ \A i \in wild : 2 <= i
      BY <1>2
    <3> HIDE DEF wild
    <3>2. Min(wild) \in wild /\ Min(wild) <= 2
      BY <2>7, <3>1, MinFacts
    <3>3. Min(wild) \in Nat /\ 2 <= Min(wild)
      BY <3>1, <3>2
    <3> QED
      BY <3>2, <3>3
  <2>9. GetCertificate(store, host) = store[x]
    <3> HIDE DEF wild, exact, store
    <3> QED
      BY <1>4, <1>5, <1>7, <2>6, <2>7, <2>8
  <2> QED
    BY <1>1, <2>4, <2>9 DEF Covers
<1> QED
  BY <1>6, <1>7

-----------------------------------------------------------------------------
(* Renamed routes.                                                          *)

\* A suffix of a suffix is a suffix.
LEMMA SuffixTrans ==
    ASSUME NEW S, NEW s \in Seq(S), NEW t \in Seq(S), NEW u \in Seq(S),
           IsSuffix(s, t), IsSuffix(t, u)
    PROVE  IsSuffix(s, u)
<1> DEFINE l == Len(s)
           m == Len(t)
           n == Len(u)
<1>1. l \in Nat /\ m \in Nat /\ n \in Nat
  OBVIOUS
<1>2. l <= m /\ \A k \in 1 .. l : s[k] = t[m - l + k]
  BY SuffixIff
<1>3. m <= n /\ \A k \in 1 .. m : t[k] = u[n - m + k]
  BY SuffixIff
<1>4. l <= n /\ \A k \in 1 .. l : m - l + k \in 1 .. m /\ n - m + (m - l + k) = n - l + k
  <2> HIDE DEF l, m, n
  <2> QED
    BY <1>1, <1>2, <1>3
<1>5. \A k \in 1 .. l : s[k] = u[n - l + k]
  BY <1>2, <1>3, <1>4
<1> QED
  BY <1>4, <1>5, SuffixIff

\* What is put in front of a name leaves the name a suffix.
LEMMA ConcatSuffix ==
    ASSUME NEW S, NEW s \in Seq(S), NEW t \in Seq(S)
    PROVE  /\ s \o t \in Seq(S) /\ Len(s \o t) = Len(s) + Len(t) /\ IsSuffix(t, s \o t)
           /\ s # <<>> => s \o t # <<>> /\ (s \o t)[1] = s[1] /\ IsSuffix(t, Tail(s \o t))
<1> DEFINE u == s \o t
           m == Len(s)
           n == Len(t)
<1>1. /\ u \in Seq(S) /\ Len(u) = m + n
      /\ \A i \in 1 .. m + n : u[i] = IF i <= m THEN s[i] ELSE t[i - m]
  BY ConcatProperties
<1>2. m \in Nat /\ n \in Nat
  OBVIOUS
<1> HIDE DEF u
<1>3. IsSuffix(t, u)
  <2>1. /\ n <= m + n
        /\ \A k \in 1 .. n : /\ m + n - n + k \in 1 .. m + n /\ ~ (m + n - n + k <= m)
                             /\ m + n - n + k - m = k
    <3> HIDE DEF m, n
    <3> QED
      BY <1>2
  <2>2. \A k \in 1 .. n : t[k] = u[Len(u) - n + k]
    BY <1>1, <2>1
  <2> QED
    BY <1>1, <2>1, <2>2, SuffixIff
<1>4. ASSUME s # <<>> PROVE u # <<>> /\ u[1] = s[1] /\ IsSuffix(t, Tail(u))
  <2>1. m # 0
    BY <1>4, EmptySeq
  <2>2. 1 \in 1 .. m + n /\ 1 <= m /\ m + n # 0
    <3> HIDE DEF m, n
    <3> QED
      BY <1>2, <2>1
  <2>3. u # <<>> /\ u[1] = s[1]
    BY <1>1, <2>2
  <2> DEFINE v == Tail(u)
  <2>4. v \in Seq(S) /\ Len(v) = m + n - 1 /\ \A k \in 1 .. Len(v) : v[k] = u[k + 1]
    BY <1>1, <2>3, HeadTailProperties
  <2> HIDE DEF v
  <2>5. /\ n <= m + n - 1
        /\ \A k \in 1 .. n :
             LET j == m + n - 1 - n + k IN
             /\ j \in 1 .. m + n - 1 /\ j + 1 \in 1 .. m + n
             /\ ~ (j + 1 <= m) /\ j + 1 - m = k
    <3> HIDE DEF m, n
    <3> QED
      BY <1>2, <2>1
  <2>6. ASSUME NEW k \in 1 .. n PROVE t[k] = v[Len(v) - n + k]
    <3>1. PICK j \in 1 .. m + n - 1 : /\ m + n - 1 - n + k = j
                                      /\ j + 1 \in 1 .. m + n /\ ~ (j + 1 <= m) /\ j + 1 - m = k
      BY <2>5
    <3>2. Len(v) - n + k = j
      BY <2>4, <3>1
    <3>3. v[j] = u[j + 1]
      BY <2>4, <3>1
    <3>4. PICK i \in 1 .. m + n : i = j + 1 /\ ~ (i <= m) /\ i - m = k
      BY <3>1
    <3>5. u[i] = t[k]
      BY <1>1, <3>4
    <3> QED
      BY <3>2, <3>3, <3>4, <3>5
  <2>7. IsSuffix(t, v)
    BY <2>4, <2>5, <2>6, SuffixIff
  <2> QED
    BY <2>3, <2>7 DEF v
<1> QED
  BY <1>1, <1>3, <1>4 DEF u

\* Adding to the last label.
LEMMA DashedFacts ==
    ASSUME NEW W, NEW base \in Seq(Seq(W)), base # <<>>, NEW node \in Seq(W)
    PROVE  LET d == Dashed(base, node) IN
           /\ d \in Seq(Seq(W)) /\ d # <<>> /\ Len(d) = Len(base)
           /\ Len(base) = 1 => Len(d[1]) = Len(base[1]) + Len(node)
<1> DEFINE n == Len(base)
           last == Last(base) \o node
<1>1. n \in Nat \ {0}
  BY EmptySeq
<1>2. n \in 1 .. n /\ n - 1 \in Nat /\ 1 .. n - 1 \subseteq 1 .. n
  <2> HIDE DEF n
  <2> QED
    BY <1>1
<1>3. Last(base) \in Seq(W)
  BY <1>2 DEF Last
<1>4. last \in Seq(W) /\ Len(last) = Len(Last(base)) + Len(node)
  BY <1>3, ConcatProperties
<1>5. Front(base) \in Seq(Seq(W)) /\ Len(Front(base)) = n - 1
  <2>1. \A i \in 1 .. n - 1 : base[i] \in Seq(W)
    BY <1>2
  <2>2. SubSeq(base, 1, n - 1) \in Seq(Seq(W))
    BY <1>2, <2>1, SubSeqProperties
  <2>3. Len(SubSeq(base, 1, n - 1)) = IF 1 <= n - 1 THEN (n - 1) - 1 + 1 ELSE 0
    BY <1>2, <2>1, SubSeqProperties
  <2>4. (IF 1 <= n - 1 THEN (n - 1) - 1 + 1 ELSE 0) = n - 1
    <3> HIDE DEF n
    <3> QED
      BY <1>1
  <2> QED
    BY <2>2, <2>3, <2>4 DEF Front
<1> DEFINE f == Front(base)
           d == Append(f, last)
<1> HIDE DEF last, f
<1>6. /\ d \in Seq(Seq(W)) /\ d # <<>> /\ Len(d) = n - 1 + 1 /\ d[n - 1 + 1] = last
  <2>1. f \in Seq(Seq(W)) /\ Len(f) = n - 1
    BY <1>5 DEF f
  <2>2. d \in Seq(Seq(W)) /\ Len(d) = Len(f) + 1 /\ d[Len(f) + 1] = last
    BY <1>4, <2>1, AppendProperties
  <2>3. d # <<>>
    BY <1>4, <2>1, AppendProperties
  <2> QED
    BY <2>1, <2>2, <2>3
<1>7. Len(d) = n /\ d[n] = last
  <2>1. n - 1 + 1 = n
    BY <1>1
  <2> QED
    BY <1>6, <2>1
<1>8. Dashed(base, node) = d
  BY DEF Dashed, last, f
<1> HIDE DEF d
<1>9. n = 1 => Len(d[1]) = Len(base[1]) + Len(node)
  BY <1>4, <1>7 DEF Last
<1> QED
  BY <1>6, <1>7, <1>8, <1>9

\* A route over the words W, with its host in the zone d below its first label.
RouteOver(W, d, r) ==
    /\ r \in [subdomain : Seq(Seq(W)) \ {<<>>}, host : Seq(Seq(W)) \ {<<>>}, source : Seq(STRING),
              container : Seq(Seq(STRING))]
    /\ SlugLabel(r.source) \in Seq(W)
    /\ IsSuffix(d, Tail(r.host))
    /\ Len(r.subdomain) = 1 => r.host[1] = r.subdomain[1]

\* The labels that renameConflictingRoute puts in front: as many as before, and a longer
\* label when it is a single one.
LEMMA RenamedSubdomain ==
    ASSUME NEW W, "app" \in W, "node" \in W, NEW d \in Seq(Seq(W)), NEW r, RouteOver(W, d, r)
    PROVE  LET q == RenameConflictingRoute(r) IN
           /\ q = [r EXCEPT !.subdomain = q.subdomain, !.host = q.subdomain \o Tail(r.host)]
           /\ q.subdomain \in Seq(Seq(W)) \ {<<>>}
           /\ Len(q.subdomain) = Len(r.subdomain)
           /\ Len(r.subdomain) = 1 => Len(q.subdomain[1]) > Len(r.subdomain[1])
<1> DEFINE s == r.subdomain
           slug == IF SlugLabel(r.source) = <<>> THEN <<"node">> ELSE SlugLabel(r.source)
           base == IF s = <<slug>> THEN Dashed(s, <<"app">>) ELSE s
           node == IF IsStrictSuffix(slug, Last(base)) THEN Append(slug, "node") ELSE slug
           sub == Dashed(base, node)
<1>1. /\ s \in Seq(Seq(W)) /\ s # <<>> /\ r.host # <<>> /\ SlugLabel(r.source) \in Seq(W)
      /\ r \in [subdomain : Seq(Seq(W)) \ {<<>>}, host : Seq(Seq(W)) \ {<<>>},
                source : Seq(STRING), container : Seq(Seq(STRING))]
  BY DEF RouteOver
<1>2. RenameConflictingRoute(r) = [r EXCEPT !.subdomain = sub, !.host = sub \o Tail(r.host)]
  BY <1>1 DEF RenameConflictingRoute, HostSuffix
<1>3. /\ RenameConflictingRoute(r).subdomain = sub
  <2> HIDE DEF sub
  <2> QED
    BY <1>1, <1>2
<1>4. slug \in Seq(W) /\ slug # <<>>
  <2>1. <<"node">> \in Seq(W) /\ <<"node">> # <<>>
    OBVIOUS
  <2> QED
    BY <1>1, <2>1
<1> HIDE DEF slug
<1>5. node \in Seq(W) /\ node # <<>>
  <2>1. Append(slug, "node") \in Seq(W) /\ Append(slug, "node") # <<>>
    BY <1>4, AppendProperties
  <2> QED
    BY <1>4, <2>1
<1> DEFINE app == <<"app">>
           more == Dashed(s, app)
<1>6. app \in Seq(W) /\ Len(app) = 1
  OBVIOUS
<1> HIDE DEF app, s
<1>7. /\ more \in Seq(Seq(W)) /\ more # <<>> /\ Len(more) = Len(s)
      /\ Len(s) = 1 => Len(more[1]) = Len(s[1]) + 1
  <2>1. s \in Seq(Seq(W)) /\ s # <<>>
    BY <1>1
  <2>2. LET e == Dashed(s, app) IN
        /\ e \in Seq(Seq(W)) /\ e # <<>> /\ Len(e) = Len(s)
        /\ Len(s) = 1 => Len(e[1]) = Len(s[1]) + Len(app)
    BY <1>6, <2>1, DashedFacts
  <2> QED
    BY <1>6, <2>2
<1> USE DEF s
<1>8. /\ s \in Seq(Seq(W)) /\ Len(s) = 1 => s[1] \in Seq(W)
  BY <1>1
<1>9. /\ base \in Seq(Seq(W)) /\ base # <<>> /\ Len(base) = Len(s)
      /\ Len(s) = 1 => Len(base[1]) >= Len(s[1])
  <2> HIDE DEF more
  <2>1. base = more \/ base = s
    BY DEF more, app
  <2>2. Len(s) = 1 => Len(s[1]) \in Nat
    BY <1>8
  <2>3. Len(s) = 1 /\ base = more => Len(base[1]) >= Len(s[1])
    BY <1>7, <2>2
  <2>4. Len(s) = 1 /\ base = s => Len(base[1]) >= Len(s[1])
    BY <2>2
  <2> QED
    BY <1>1, <1>7, <2>1, <2>3, <2>4
<1> HIDE DEF base, node
<1>10. /\ sub \in Seq(Seq(W)) /\ sub # <<>> /\ Len(sub) = Len(base)
       /\ Len(base) = 1 => Len(sub[1]) = Len(base[1]) + Len(node)
  BY <1>5, <1>9, DashedFacts
<1> HIDE DEF sub
<1>11. Len(s) = 1 => Len(sub[1]) > Len(s[1])
  <2> SUFFICES ASSUME Len(s) = 1 PROVE Len(sub[1]) > Len(s[1])
    OBVIOUS
  <2>1. Len(s[1]) \in Nat /\ Len(base[1]) \in Nat /\ Len(node) \in Nat \ {0}
    BY <1>5, <1>8, <1>9, EmptySeq
  <2>2. Len(base[1]) >= Len(s[1]) /\ Len(sub[1]) = Len(base[1]) + Len(node)
    BY <1>9, <1>10
  <2> QED
    BY <2>1, <2>2
<1> QED
  BY <1>2, <1>3, <1>9, <1>10, <1>11

\* A renamed route is still a route of its zone, and its host is longer: by labels, or by
\* the first label.
LEMMA RenameStep ==
    ASSUME NEW W, "app" \in W, "node" \in W, NEW d \in Seq(Seq(W)), NEW r, RouteOver(W, d, r)
    PROVE  LET q == RenameConflictingRoute(r) IN
           /\ RouteOver(W, d, q)
           /\ DomainWithinManagedDomain(d, q.host)
           /\ Len(q.subdomain) = Len(r.subdomain)
           /\ Len(q.host) = Len(r.subdomain) + Len(r.host) - 1
           /\ Len(r.subdomain) = 1 => Len(q.host[1]) > Len(r.host[1])
<1> DEFINE q == RenameConflictingRoute(r)
           s == q.subdomain
           t == Tail(r.host)
           h == s \o t
<1>1. /\ r \in [subdomain : Seq(Seq(W)) \ {<<>>}, host : Seq(Seq(W)) \ {<<>>},
                source : Seq(STRING), container : Seq(Seq(STRING))]
      /\ r.host \in Seq(Seq(W)) /\ r.host # <<>>
      /\ SlugLabel(r.source) \in Seq(W) /\ IsSuffix(d, t)
      /\ Len(r.subdomain) = 1 => r.host[1] = r.subdomain[1]
  BY DEF RouteOver
<1>2. /\ q = [r EXCEPT !.subdomain = s, !.host = h]
      /\ s \in Seq(Seq(W)) \ {<<>>}
      /\ Len(s) = Len(r.subdomain)
      /\ Len(r.subdomain) = 1 => Len(s[1]) > Len(r.subdomain[1])
  BY RenamedSubdomain
<1> HIDE DEF q, s
<1>3. t \in Seq(Seq(W)) /\ Len(t) = Len(r.host) - 1
  BY <1>1, HeadTailProperties
<1> HIDE DEF t
<1>4. /\ h \in Seq(Seq(W)) /\ Len(h) = Len(s) + Len(t)
      /\ h # <<>> /\ h[1] = s[1] /\ IsSuffix(t, h) /\ IsSuffix(t, Tail(h))
  <2>1. s \in Seq(Seq(W)) /\ s # <<>>
    BY <1>2
  <2>2. t \in Seq(Seq(W))
    BY <1>3
  <2>3. /\ s \o t \in Seq(Seq(W)) /\ Len(s \o t) = Len(s) + Len(t) /\ IsSuffix(t, s \o t)
        /\ s # <<>> => s \o t # <<>> /\ (s \o t)[1] = s[1] /\ IsSuffix(t, Tail(s \o t))
    BY <2>1, <2>2, ConcatSuffix, Zenon
  <2> QED
    BY <2>1, <2>3
<1> HIDE DEF h
<1>5. Tail(h) \in Seq(Seq(W))
  BY <1>4, HeadTailProperties
<1>6. IsSuffix(d, h) /\ IsSuffix(d, Tail(h))
  BY <1>1, <1>3, <1>4, <1>5, SuffixTrans
<1>7. /\ q \in [subdomain : Seq(Seq(W)) \ {<<>>}, host : Seq(Seq(W)) \ {<<>>},
                source : Seq(STRING), container : Seq(Seq(STRING))]
      /\ q.subdomain = s /\ q.host = h /\ q.source = r.source
  BY <1>1, <1>2, <1>4
<1>8. RouteOver(W, d, q)
  BY <1>1, <1>4, <1>6, <1>7 DEF RouteOver
<1>9. DomainWithinManagedDomain(d, q.host)
  BY <1>6, <1>7 DEF DomainWithinManagedDomain, WithoutStar
<1>10. Len(q.host) = Len(r.subdomain) + Len(r.host) - 1
  <2>1. Len(r.subdomain) \in Nat /\ Len(r.host) \in Nat
    BY <1>1
  <2> QED
    BY <1>2, <1>3, <1>4, <1>7, <2>1
<1>11. Len(r.subdomain) = 1 => Len(q.host[1]) > Len(r.host[1])
  BY <1>1, <1>2, <1>4, <1>7
<1> QED
  BY <1>2, <1>7, <1>8, <1>9, <1>10, <1>11 DEF q

\* A slug is a label, whatever characters the source's name has.
LEMMA SlugIsLabel ==
    ASSUME NEW source \in Label
    PROVE  SlugLabel(source) \in Label
<1> DEFINE n == Len(source)
           s == [i \in DOMAIN source |-> IF source[i] = "" THEN <<>> ELSE <<source[i]>>]
<1>1. n \in Nat /\ DOMAIN source = 1 .. n /\ \A i \in 1 .. n : source[i] \in STRING
  BY DEF Label
<1>2. \A i \in 1 .. n : <<source[i]>> \in Seq(STRING) /\ <<>> \in Seq(STRING)
  BY <1>1
<1>3. s \in [1 .. n -> Seq(STRING)]
  BY <1>1, <1>2
<1> HIDE DEF s, n
<1>4. s \in Seq(Seq(STRING))
  BY <1>1, <1>3
<1> QED
  BY <1>4, FlattenType DEF SlugLabel, Label, s

\* Every route that renameConflictingRoute is given.
LEMMA RenamedCorrect ==
    ASSUME NEW in \in RouteInputs
    PROVE  RenamedInZone(in.domain, in.route)
<1> DEFINE W == STRING \cup {"app", "node"}
           d == in.domain
           r == in.route
           once == RenameConflictingRoute(r)
           twice == RenameConflictingRoute(once)
<1>1. /\ d \in Seq(Label) /\ r.host = r.subdomain \o d /\ SlugLabel(r.source) \in Label
      /\ r \in [subdomain : Seq(Label) \ {<<>>}, host : Seq(Label), source : Label,
                container : Seq(Label)]
  <2>1. /\ d \in Seq(Label) /\ r.host = r.subdomain \o d
        /\ r \in [subdomain : Seq(Label) \ {<<>>}, host : Seq(Label), source : Label,
                  container : Seq(Label)]
    BY AlgorithmsAssumption
  <2>2. SlugLabel(r.source) \in Label
    BY <2>1, SlugIsLabel
  <2> QED
    BY <2>1, <2>2
<1>2. "app" \in W /\ "node" \in W /\ STRING \subseteq W
  OBVIOUS
<1> HIDE DEF W, d, r
<1>3. \A l \in Seq(STRING) : l \in Seq(W)
  BY <1>2, SeqMonotonic
<1>4. \A l \in Seq(Label) : l \in Seq(Seq(W))
  BY <1>3, SeqMonotonic DEF Label
<1>5. d \in Seq(Seq(W)) /\ r.subdomain \in Seq(Seq(W)) /\ r.subdomain # <<>>
  BY <1>1, <1>4
<1>6. /\ r.subdomain \o d # <<>> /\ (r.subdomain \o d)[1] = r.subdomain[1]
      /\ IsSuffix(d, Tail(r.subdomain \o d))
  BY <1>5, ConcatSuffix, Zenon
<1>7. /\ r.host # <<>> /\ r.host[1] = r.subdomain[1] /\ IsSuffix(d, Tail(r.host))
      /\ r.host \in Seq(Seq(W)) /\ r.source \in Seq(STRING) /\ SlugLabel(r.source) \in Seq(W)
  BY <1>1, <1>3, <1>4, <1>6 DEF Label
<1>8. r \in [subdomain : Seq(Seq(W)) \ {<<>>}, host : Seq(Seq(W)) \ {<<>>}, source : Seq(STRING),
             container : Seq(Seq(STRING))]
  BY <1>1, <1>5, <1>7 DEF Label
<1>9. RouteOver(W, d, r)
  BY <1>7, <1>8 DEF RouteOver
<1>10. /\ RouteOver(W, d, once) /\ DomainWithinManagedDomain(d, once.host)
       /\ Len(once.subdomain) = Len(r.subdomain)
       /\ Len(once.host) = Len(r.subdomain) + Len(r.host) - 1
       /\ Len(r.subdomain) = 1 => Len(once.host[1]) > Len(r.host[1])
  BY <1>2, <1>5, <1>9, RenameStep, Zenon
<1> HIDE DEF once
<1>11. /\ RouteOver(W, d, twice) /\ DomainWithinManagedDomain(d, twice.host)
       /\ Len(twice.host) = Len(once.subdomain) + Len(once.host) - 1
       /\ Len(once.subdomain) = 1 => Len(twice.host[1]) > Len(once.host[1])
  BY <1>2, <1>5, <1>10, RenameStep, Zenon
<1> HIDE DEF twice
<1>12. Len(r.subdomain) \in Nat \ {0} /\ Len(r.host) \in Nat
  BY <1>5, <1>7, EmptySeq
<1>13. ASSUME Len(r.subdomain) # 1
       PROVE  twice.host # r.host /\ twice.host # once.host /\ once.host # r.host
  <2> DEFINE k == Len(r.subdomain)
             l == Len(r.host)
             m == Len(once.host)
             n == Len(twice.host)
  <2>1. k \in Nat \ {0, 1} /\ l \in Nat /\ m = k + l - 1 /\ n = k + m - 1
    BY <1>10, <1>11, <1>12, <1>13
  <2>2. n # l /\ n # m /\ m # l
    <3> HIDE DEF k, l, m, n
    <3> QED
      BY <2>1
  <2> QED
    BY <2>2
<1>14. ASSUME Len(r.subdomain) = 1
       PROVE  twice.host # r.host /\ twice.host # once.host /\ once.host # r.host
  <2>1. /\ r.host \in Seq(Seq(W)) \ {<<>>} /\ once.host \in Seq(Seq(W)) \ {<<>>}
        /\ twice.host \in Seq(Seq(W)) \ {<<>>}
    BY <1>9, <1>10, <1>11 DEF RouteOver
  <2>2. r.host[1] \in Seq(W) /\ once.host[1] \in Seq(W) /\ twice.host[1] \in Seq(W)
    BY <2>1, EmptySeq
  <2>3. /\ Len(r.host[1]) \in Nat /\ Len(once.host[1]) \in Nat /\ Len(twice.host[1]) \in Nat
        /\ Len(once.host[1]) > Len(r.host[1]) /\ Len(twice.host[1]) > Len(once.host[1])
    BY <1>10, <1>11, <1>14, <2>2
  <2> QED
    BY <2>3
<1> QED
  BY <1>10, <1>11, <1>13, <1>14 DEF RenamedInZone, d, r, once, twice

-----------------------------------------------------------------------------
(* Targets of discovered routes.                                            *)

\* The names a network can have that is asked for.
Asked(name, project) == Label \cup {name, <<project>> \o <<"">>, <<project>> \o name}

\* A network that is asked for is asked for under its own name first.
LEMMA WithProjectFacts ==
    ASSUME NEW name \in Label, NEW project, NEW S, Asked(name, project) \subseteq S
    PROVE  /\ WithProject(name, project) \in Seq(S)
           /\ name # <<>> => WithProject(name, project) # <<>>
                             /\ WithProject(name, project)[1] = name
<1> DEFINE a == IF name # <<>> THEN <<name>> ELSE <<>>
           full == <<project>> \o (IF name = <<>> THEN <<"">> ELSE name)
           b == IF project # "" /\ (name = <<>> \/ Len(name) = 1) THEN <<full>> ELSE <<>>
<1>1. WithProject(name, project) = a \o b
  BY DEF WithProject
<1>2. name \in S /\ full \in S
  BY DEF Asked
<1> HIDE DEF full
<1>3. a \in Seq(S) /\ b \in Seq(S)
  <2>1. <<name>> \in Seq(S) /\ <<full>> \in Seq(S) /\ <<>> \in Seq(S)
    BY <1>2
  <2> QED
    BY <2>1
<1>4. name # <<>> => Len(a) = 1 /\ a[1] = name
  OBVIOUS
<1> HIDE DEF a, b
<1>5. /\ a \o b \in Seq(S) /\ Len(a \o b) = Len(a) + Len(b)
      /\ \A k \in 1 .. Len(a) + Len(b) : (a \o b)[k] = IF k <= Len(a) THEN a[k] ELSE b[k - Len(a)]
  BY <1>3, ConcatProperties, Zenon
<1>6. ASSUME name # <<>> PROVE a \o b # <<>> /\ (a \o b)[1] = name
  <2>1. Len(a) = 1 /\ Len(b) \in Nat /\ a[1] = name
    BY <1>3, <1>4, <1>6
  <2>2. 1 \in 1 .. Len(a) + Len(b) /\ 1 <= Len(a) /\ Len(a \o b) # 0
    BY <1>5, <2>1
  <2>3. (a \o b)[1] = a[1]
    BY <1>5, <2>2
  <2> QED
    BY <1>5, <2>1, <2>2, <2>3, EmptySeq
<1> QED
  BY <1>1, <1>5, <1>6

\* The candidates begin with the network that is asked for and have all there can be.
CandidatesFor(asked, candidates) ==
    /\ \E n \in Nat : DOMAIN candidates = 1 .. n
    /\ asked # <<>> => 1 \in DOMAIN candidates /\ candidates[1] = asked
    /\ \A m \in Networks : \E i \in DOMAIN candidates : candidates[i] = m

\* NetworkCandidates makes such a list.
LEMMA CandidateFacts ==
    ASSUME NEW source, source.network \in Label, NEW s, NEW intent, intent.network \in Label,
           NetworkOrder \in Seq(Label)
    PROVE  CandidatesFor(intent.network, NetworkCandidates(source, s, intent))
<1> DEFINE S == Asked(intent.network, s.project) \cup Asked(source.network, s.project)
           a == WithProject(intent.network, s.project)
           b == IF source.network # intent.network
                THEN WithProject(source.network, s.project) ELSE <<>>
           o == NetworkOrder
           ab == a \o b
           abo == ab \o o
<1>1. NetworkCandidates(source, s, intent) = abo
  BY DEF NetworkCandidates
<1>2. /\ Asked(intent.network, s.project) \subseteq S /\ Asked(source.network, s.project) \subseteq S
      /\ Label \subseteq S
  BY DEF Asked
<1> HIDE DEF S
<1>3. a \in Seq(S) /\ (intent.network # <<>> => a # <<>> /\ a[1] = intent.network)
  BY <1>2, WithProjectFacts
<1>4. b \in Seq(S)
  <2>1. WithProject(source.network, s.project) \in Seq(S) /\ <<>> \in Seq(S)
    BY <1>2, WithProjectFacts
  <2> QED
    BY <2>1
<1>5. o \in Seq(S)
  BY <1>2, SeqMonotonic
<1> HIDE DEF a, b, o
<1>6. /\ ab \in Seq(S) /\ Len(ab) = Len(a) + Len(b)
      /\ \A k \in 1 .. Len(a) + Len(b) : ab[k] = IF k <= Len(a) THEN a[k] ELSE b[k - Len(a)]
  BY <1>3, <1>4, ConcatProperties, Zenon
<1> HIDE DEF ab
<1>7. /\ abo \in Seq(S) /\ Len(abo) = Len(ab) + Len(o)
      /\ \A k \in 1 .. Len(ab) + Len(o) : abo[k] = IF k <= Len(ab) THEN ab[k] ELSE o[k - Len(ab)]
  <2>1. ab \in Seq(S)
    BY <1>6
  <2> QED
    BY <1>5, <2>1, ConcatProperties, Zenon
<1> HIDE DEF abo
<1>8. /\ Len(a) \in Nat /\ Len(b) \in Nat /\ Len(o) \in Nat /\ Len(ab) \in Nat
      /\ DOMAIN abo = 1 .. Len(ab) + Len(o) /\ Len(ab) + Len(o) \in Nat
  BY <1>3, <1>4, <1>5, <1>6, <1>7
<1>9. ASSUME intent.network # <<>> PROVE 1 \in DOMAIN abo /\ abo[1] = intent.network
  <2>1. Len(a) # 0 /\ a[1] = intent.network
    BY <1>3, <1>9, EmptySeq
  <2>2. /\ 1 \in 1 .. Len(a) + Len(b) /\ 1 <= Len(a) /\ 1 \in 1 .. Len(ab) + Len(o)
        /\ 1 <= Len(ab)
    BY <1>6, <1>8, <2>1
  <2> QED
    BY <1>6, <1>7, <1>8, <2>1, <2>2
<1>10. ASSUME NEW m \in Networks PROVE \E i \in DOMAIN abo : abo[i] = m
  <2>1. PICK k \in 1 .. Len(o) : o[k] = m
    <3>1. DOMAIN NetworkOrder = 1 .. Len(o)
      BY DEF o
    <3> QED
      BY <1>10, <3>1 DEF Networks, ToSet, o
  <2> DEFINE i == Len(ab) + k
  <2>2. i \in 1 .. Len(ab) + Len(o) /\ ~ (i <= Len(ab)) /\ i - Len(ab) = k
    BY <1>8
  <2> HIDE DEF i
  <2>3. abo[i] = o[k]
    BY <1>7, <2>2
  <2> QED
    BY <1>8, <2>1, <2>2, <2>3
<1> QED
  BY <1>1, <1>8, <1>9, <1>10 DEF CandidatesFor

\* What the runtime says of a container's ports.
PortsKnown(c) ==
    /\ c.listed \in Seq([ip : HostIP, private : Nat, public : Nat, proto : Protocol])
    /\ DOMAIN c.bindings \subseteq Nat \X Protocol
    /\ \A x \in DOMAIN c.bindings : c.bindings[x] \in Seq([ip : HostIP, port : Nat])
    /\ c.config \subseteq Nat \X Protocol

\* The port that snapshotFromDocker finds published, if any, is one the runtime reports,
\* whichever protocol comes last.
LEMMA PublishedFacts ==
    ASSUME NEW c, PortsKnown(c), NEW p, NEW last \in Protocol, Published(c, p, last) # 0
    PROVE  \E x \in PublishedOn(c, p) : x.port = Published(c, p, last)
<1> DEFINE bound == {q \in Protocol : Bound(c, p, q) # {}}
           proto == IF last \in bound THEN last ELSE CHOOSE q \in bound : TRUE
           listed == Listed(c, p)
<1>1. Published(c, p, last) =
        IF bound # {} THEN c.bindings[<<p, proto>>][Min(Bound(c, p, proto))].port
        ELSE IF listed # {} THEN c.listed[Max(listed)].public ELSE 0
  BY DEF Published
<1>2. CASE bound # {}
  <2>1. proto \in Protocol /\ Bound(c, p, proto) # {}
    BY <1>2
  <2> HIDE DEF proto
  <2> DEFINE b == c.bindings[<<p, proto>>]
             at == Bound(c, p, proto)
  <2>2. <<p, proto>> \in DOMAIN c.bindings /\ at = {i \in DOMAIN b : b[i].port > 0}
    BY <2>1 DEF Bound
  <2>3. b \in Seq([ip : HostIP, port : Nat])
    BY <2>2 DEF PortsKnown
  <2> HIDE DEF b
  <2>4. at \subseteq Nat
    BY <2>2, <2>3
  <2> HIDE DEF at
  <2>5. Min(at) \in at
    <3>1. at # {}
      BY <2>1 DEF at
    <3> QED
      BY <2>4, <3>1, MinFacts
  <2> DEFINE x == [ip |-> b[Min(at)].ip, port |-> b[Min(at)].port, proto |-> proto]
  <2>6. x \in {[ip |-> b[i].ip, port |-> b[i].port, proto |-> proto] : i \in at}
    BY <2>5
  <2>7. x.port = b[Min(at)].port
    OBVIOUS
  <2> HIDE DEF x
  <2>8. x \in PublishedOn(c, p)
    BY <2>1, <2>6 DEF PublishedOn, b, at
  <2>9. Published(c, p, last) = b[Min(at)].port
    BY <1>1, <1>2 DEF b, at
  <2> QED
    BY <2>7, <2>8, <2>9
<1>3. CASE bound = {}
  <2>1. listed # {} /\ Published(c, p, last) = c.listed[Max(listed)].public
    BY <1>1, <1>3
  <2>2. Len(c.listed) \in Nat /\ DOMAIN c.listed = 1 .. Len(c.listed)
    BY DEF PortsKnown
  <2>3. listed \subseteq 0 .. Len(c.listed)
    BY <2>2 DEF Listed
  <2> HIDE DEF listed
  <2>4. Max(listed) \in listed
    BY <2>1, <2>2, <2>3, MaxFacts
  <2> DEFINE e == c.listed[Max(listed)]
             x == [ip |-> e.ip, port |-> e.public, proto |-> e.proto]
  <2>5. x \in {[ip |-> c.listed[i].ip, port |-> c.listed[i].public, proto |-> c.listed[i].proto] :
                 i \in listed}
    BY <2>4
  <2>6. x.port = e.public
    OBVIOUS
  <2> HIDE DEF x
  <2>7. x \in PublishedOn(c, p)
    BY <1>3, <2>5 DEF PublishedOn, listed
  <2> QED
    BY <2>1, <2>6, <2>7
<1> QED
  BY <1>2, <1>3

\* Everything that is published of a port belongs to an exposed port of its protocol.
LEMMA PublishedExposed ==
    ASSUME NEW c, PortsKnown(c), NEW p, NEW x \in PublishedOn(c, p)
    PROVE  x.proto \in Protocol /\ <<p, x.proto>> \in Exposed(c)
<1>1. CASE \E i \in Listed(c, p) :
             x = [ip |-> c.listed[i].ip, port |-> c.listed[i].public, proto |-> c.listed[i].proto]
  <2>1. PICK i \in Listed(c, p) :
          x = [ip |-> c.listed[i].ip, port |-> c.listed[i].public, proto |-> c.listed[i].proto]
    BY <1>1
  <2>2. i \in DOMAIN c.listed /\ c.listed[i].private = p
    BY <2>1 DEF Listed
  <2> DEFINE e == c.listed[i]
  <2>3. e \in [ip : HostIP, private : Nat, public : Nat, proto : Protocol] /\ e \in ToSet(c.listed)
    <3>1. e \in ToSet(c.listed)
      BY <2>2 DEF ToSet
    <3>2. e \in [ip : HostIP, private : Nat, public : Nat, proto : Protocol]
      <4> DEFINE E == [ip : HostIP, private : Nat, public : Nat, proto : Protocol]
      <4>1. c.listed \in Seq(E)
        BY DEF PortsKnown
      <4> HIDE DEF E
      <4>2. e \in E
        BY <2>2, <4>1
      <4> QED
        BY <4>2 DEF E
    <3> QED
      BY <3>1, <3>2
  <2>4. x.proto = e.proto /\ e.private = p /\ e.proto \in Protocol
    BY <2>1, <2>2, <2>3
  <2> HIDE DEF e
  <2>5. <<e.private, e.proto>> \in Exposed(c)
    BY <2>3 DEF Exposed
  <2> QED
    BY <2>4, <2>5
<1>2. CASE \E proto \in Protocol : \E i \in Bound(c, p, proto) :
             x = [ip |-> c.bindings[<<p, proto>>][i].ip,
                  port |-> c.bindings[<<p, proto>>][i].port, proto |-> proto]
  <2>1. PICK proto \in Protocol : \E i \in Bound(c, p, proto) :
             x = [ip |-> c.bindings[<<p, proto>>][i].ip,
                  port |-> c.bindings[<<p, proto>>][i].port, proto |-> proto]
    BY <1>2
  <2>2. x.proto = proto /\ Bound(c, p, proto) # {}
    BY <2>1
  <2>3. <<p, proto>> \in DOMAIN c.bindings
    BY <2>2 DEF Bound
  <2> QED
    BY <2>2, <2>3 DEF Exposed
<1> QED
  BY <1>1, <1>2 DEF PublishedOn

\* The network that resolveHost takes is one with an address, the one asked for if it has one.
LEMMA HostFacts ==
    ASSUME NEW source, source.network \in Label, NEW s, NEW intent, intent.network \in Label,
           NetworkOrder \in Seq(Label \ {<<>>}), DOMAIN s.networks \subseteq Networks
    PROVE  LET network == ResolveHost(source, s, intent) IN
           /\ network # <<>> => network \in DOMAIN s.networks
           /\ DOMAIN s.networks # {} => network # <<>>
           /\ intent.network \in DOMAIN s.networks => network = intent.network
<1> DEFINE candidates == NetworkCandidates(source, s, intent)
           hits == {i \in DOMAIN candidates : candidates[i] \in DOMAIN s.networks}
           network == ResolveHost(source, s, intent)
<1>1. network = IF hits = {} THEN <<>> ELSE candidates[Min(hits)]
  BY DEF ResolveHost
<1>2. NetworkOrder \in Seq(Label) /\ \A m \in Networks : m # <<>>
  <2>1. \A i \in DOMAIN NetworkOrder : NetworkOrder[i] \in Label \ {<<>>}
    OBVIOUS
  <2>2. Label \ {<<>>} \subseteq Label
    OBVIOUS
  <2>3. NetworkOrder \in Seq(Label)
    BY <2>2, SeqMonotonic
  <2> QED
    BY <2>1, <2>3 DEF Networks, ToSet
<1>3. /\ \E n \in Nat : DOMAIN candidates = 1 .. n
      /\ intent.network # <<>> => 1 \in DOMAIN candidates /\ candidates[1] = intent.network
      /\ \A m \in Networks : \E i \in DOMAIN candidates : candidates[i] = m
  <2>1. NetworkOrder \in Seq(Label)
    BY <1>2
  <2>2. CandidatesFor(intent.network, candidates)
    BY <2>1, CandidateFacts
  <2> QED
    BY <2>2 DEF CandidatesFor
<1> HIDE DEF candidates, network
<1>4. hits \subseteq Nat /\ \A i \in hits : i >= 1
  BY <1>3
<1>5. hits # {} => Min(hits) \in hits /\ \A j \in hits : Min(hits) <= j
  <2> HIDE DEF hits
  <2> QED
    BY <1>4, MinFacts
<1>6. network # <<>> => network \in DOMAIN s.networks
  BY <1>1, <1>5
<1>7. DOMAIN s.networks # {} => hits # {}
  BY <1>3
<1>8. hits # {} => network # <<>>
  BY <1>1, <1>2, <1>5
<1>9. ASSUME intent.network \in DOMAIN s.networks PROVE network = intent.network
  <2>1. 1 \in hits /\ candidates[1] = intent.network
    BY <1>2, <1>3, <1>9
  <2>2. Min(hits) = 1
    <3>1. Min(hits) \in Nat /\ Min(hits) <= 1 /\ Min(hits) >= 1
      <4> HIDE DEF hits
      <4> QED
        BY <1>4, <1>5, <2>1
    <3> QED
      BY <3>1
  <2> QED
    BY <1>1, <2>1, <2>2
<1> QED
  BY <1>6, <1>7, <1>8, <1>9 DEF network

\* The port that is asked for, or one that is exposed.
LEMMA PortFacts ==
    ASSUME NEW c, PortsKnown(c), NEW last, NEW intent,
           NEW port, port = ResolvePort(SnapshotFromDocker(c, last), intent),
           <<port, "udp">> \notin Exposed(c), port # 0
    PROVE  port = intent.port \/ <<port, "tcp">> \in Exposed(c)
<1> DEFINE s == SnapshotFromDocker(c, last)
           ports == {x[1] : x \in Exposed(c)}
<1>1. s.exposed = {p \in ports : p > 0}
  BY DEF SnapshotFromDocker
<1>2. Exposed(c) \subseteq Nat \X Protocol
  <2>1. ASSUME NEW e \in ToSet(c.listed) PROVE <<e.private, e.proto>> \in Nat \X Protocol
    <3> DEFINE E == [ip : HostIP, private : Nat, public : Nat, proto : Protocol]
    <3>1. c.listed \in Seq(E)
      BY DEF PortsKnown
    <3>2. PICK i \in DOMAIN c.listed : e = c.listed[i]
      BY DEF ToSet
    <3>3. e \in E
      <4> HIDE DEF E
      <4> QED
        BY <3>1, <3>2
    <3> QED
      BY <3>3
  <2> QED
    BY <2>1 DEF PortsKnown, Exposed
<1> HIDE DEF s
<1> SUFFICES ASSUME port # intent.port PROVE <<port, "tcp">> \in Exposed(c)
  OBVIOUS
<1>3. s.exposed # {} /\ port = Min(s.exposed)
  BY DEF ResolvePort, s
<1>4. s.exposed \subseteq Nat
  BY <1>1, <1>2
<1>5. port \in s.exposed
  <2> DEFINE T == s.exposed
  <2>1. T \subseteq Nat /\ T # {}
    BY <1>3, <1>4
  <2> HIDE DEF T
  <2>2. Min(T) \in T
    BY <2>1, MinFacts
  <2> QED
    BY <1>3, <2>2 DEF T
<1>6. PICK x \in Exposed(c) : x[1] = port
  BY <1>1, <1>5
<1>7. x = <<port, "tcp">> \/ x = <<port, "udp">>
  BY <1>2, <1>6 DEF Protocol
<1> QED
  BY <1>6, <1>7

\* The route of any container, whatever its networks, ports and labels.
LEMMA TargetCorrect ==
    ASSUME NEW in \in ContainerInputs, NEW last \in Protocol
    PROVE  LeadsToContainer(in.source, in.zones, in.container,
                            DiscoverRoute(in.source, in.zones, in.container, last))
<1> DEFINE source == in.source
           zones == in.zones
           c == in.container
           s == SnapshotFromDocker(c, last)
           intent == ParseLabels(c.labels)
           route == DiscoverRoute(source, zones, c, last)
           target == ResolveTarget(source, s, intent)
           network == ResolveHost(source, s, intent)
           port == ResolvePort(s, intent)
           public == ResolvePublished(source, s, port)
           addressed == {n \in DOMAIN c.networks : c.networks[n] # ""}
           offered == port = intent.port \/ <<port, "tcp">> \in Exposed(c)
           open == {x.port : x \in {y \in PublishedOn(c, port) :
                                      y.proto = "tcp" /\ Reached(source, y.ip)}}
<1>1. /\ NetworkOrder \in Seq(Label \ {<<>>}) /\ source.network \in Label
      /\ source.runtime \in {"docker", "podman"}
      /\ c.labels.network \in Label /\ DOMAIN c.networks \subseteq Networks
      /\ PortsKnown(c)
  BY AlgorithmsAssumption DEF PortsKnown
<1> HIDE DEF source, zones, c
<1>2. /\ intent.network = c.labels.network
      /\ s.hostNetwork = c.hostNetwork
      /\ DOMAIN s.networks = addressed
      /\ \A n \in addressed : s.networks[n] = c.networks[n]
      /\ \A p \in DOMAIN s.published : s.published[p] = Published(c, p, last)
  BY DEF ParseLabels, SnapshotFromDocker
<1>p. port = ResolvePort(SnapshotFromDocker(c, "tcp"), intent)
  <2>1. s.exposed = SnapshotFromDocker(c, "tcp").exposed
    BY DEF SnapshotFromDocker
  <2> HIDE DEF s, intent
  <2> QED
    BY <2>1 DEF ResolvePort
<1>o. port # 0 /\ <<port, "udp">> \notin Exposed(c) => offered
  <2> HIDE DEF intent, offered
  <2> SUFFICES ASSUME port # 0, <<port, "udp">> \notin Exposed(c) PROVE offered
    OBVIOUS
  <2>1. port = ResolvePort(SnapshotFromDocker(c, last), intent)
    OBVIOUS
  <2> HIDE DEF port
  <2> QED
    BY <1>1, <2>1, PortFacts DEF offered
<1> HIDE DEF s, intent
<1>3. /\ network # <<>> => network \in addressed
      /\ addressed # {} => network # <<>>
      /\ intent.network \in addressed => network = intent.network
  <2>1. DOMAIN s.networks \subseteq Networks /\ intent.network \in Label
    BY <1>1, <1>2
  <2>2. /\ network # <<>> => network \in DOMAIN s.networks
        /\ DOMAIN s.networks # {} => network # <<>>
        /\ intent.network \in DOMAIN s.networks => network = intent.network
    BY <1>1, <2>1, HostFacts, Zenon
  <2> HIDE DEF addressed, network
  <2> QED
    BY <1>2, <2>2
<1> HIDE DEF network, port
<1>4. public # 0 => /\ source.runtime = "podman" \/ addressed = {}
                    /\ \E x \in PublishedOn(c, port) : x.port = public
  <2> SUFFICES ASSUME public # 0
               PROVE  /\ source.runtime = "podman" \/ addressed = {}
                      /\ \E x \in PublishedOn(c, port) : x.port = public
    OBVIOUS
  <2>1. public = Published(c, port, last) /\ (source.runtime = "podman" \/ addressed = {})
    BY <1>2 DEF ResolvePublished
  <2>2. Published(c, port, last) # 0
    BY <2>1
  <2>3. \E x \in PublishedOn(c, port) : x.port = Published(c, port, last)
    BY <1>1, <2>2, PublishedFacts
  <2> HIDE DEF public
  <2> QED
    BY <2>1, <2>3
<1> HIDE DEF public
<1>5. target = IF port = 0 THEN NoTarget
               ELSE IF c.hostNetwork
               THEN [host |-> "127.0.0.1", port |-> port, via |-> <<"host">>]
               ELSE IF public # 0
               THEN [host |-> PublishedTargetHost(source), port |-> public,
                     via |-> <<"published">>]
               ELSE IF network = <<>> THEN NoTarget
               ELSE [host |-> s.networks[network], port |-> port, via |-> network]
  BY <1>2 DEF ResolveTarget, port, public, network
<1>6. NoTarget.port = 0
  BY DEF NoTarget
<1>8. \/ route.target = target
      \/ route.target = NoTarget /\ route.domain = ""
  BY DEF DiscoverRoute, s, intent
<1>m. ASSUME ~ Misled(source, c, port)
      PROVE  /\ source.inContainer => ~ c.hostNetwork
                                      /\ ~ (source.runtime = "docker" /\ addressed = {})
             /\ <<port, "udp">> \notin Exposed(c)
             /\ ~c.hostNetwork /\ (source.runtime = "podman" \/ addressed = {}) =>
                  \A x \in PublishedOn(c, port) : Reached(source, x.ip)
  BY <1>m DEF Misled
<1> HIDE DEF target, route, addressed, offered, open
<1>9. ASSUME target # NoTarget, ~ Misled(source, c, port)
      PROVE  \/ /\ target.host = HostAddress(source)
                /\ IF c.hostNetwork THEN target.port = port /\ offered ELSE target.port \in open
             \/ /\ target.via \in addressed /\ target.host = c.networks[target.via]
                /\ target.port = port /\ offered
                /\ intent.network \in addressed => target.via = intent.network
  <2>0. port # 0 /\ offered
    BY <1>5, <1>9, <1>o, <1>m
  <2>1. CASE c.hostNetwork
    <3>1. target.host = "127.0.0.1" /\ target.port = port
      BY <1>5, <2>0, <2>1
    <3>2. HostAddress(source) = "127.0.0.1"
      BY <1>9, <1>m, <2>1 DEF HostAddress
    <3> QED
      BY <2>0, <2>1, <3>1, <3>2
  <2>2. CASE ~c.hostNetwork /\ public # 0
    <3>1. target.host = PublishedTargetHost(source) /\ target.port = public
      BY <1>5, <2>0, <2>2
    <3>2. PublishedTargetHost(source) = HostAddress(source)
      BY <1>1, <1>4, <1>9, <1>m, <2>2 DEF PublishedTargetHost, HostAddress
    <3>3. PICK x \in PublishedOn(c, port) : x.port = public
      BY <1>4, <2>2
    <3>4. Reached(source, x.ip)
      BY <1>4, <1>9, <1>m, <2>2
    <3>5. x.proto \in Protocol /\ <<port, x.proto>> \in Exposed(c)
      BY <1>1, PublishedExposed
    <3>6. x.proto = "tcp"
      BY <1>9, <1>m, <3>5 DEF Protocol
    <3>7. public \in open
      BY <3>3, <3>4, <3>6 DEF open
    <3> QED
      BY <2>2, <3>1, <3>2, <3>7
  <2>3. CASE ~c.hostNetwork /\ public = 0
    <3>1. /\ network # <<>> /\ target.host = s.networks[network]
          /\ target.port = port /\ target.via = network
      BY <1>5, <1>9, <2>3
    <3> QED
      BY <1>2, <1>3, <2>0, <3>1
  <2> QED
    BY <2>1, <2>2, <2>3
<1>10. ASSUME port # 0, addressed # {} PROVE target # NoTarget
  <2>1. target.port # 0
    BY <1>3, <1>5, <1>10
  <2> QED
    BY <1>6, <2>1
<1>11. route.target # NoTarget /\ ~ Misled(source, c, port) =>
         \/ /\ route.target.host = HostAddress(source)
            /\ IF c.hostNetwork THEN route.target.port = port /\ offered
               ELSE route.target.port \in open
         \/ /\ route.target.via \in addressed
            /\ route.target.host = c.networks[route.target.via]
            /\ route.target.port = port /\ offered
            /\ intent.network \in addressed => route.target.via = intent.network
  BY <1>8, <1>9
<1>12. route.domain # "" /\ port # 0 /\ addressed # {} => route.target # NoTarget
  BY <1>8, <1>10
<1>13. port = ResolvePort(SnapshotFromDocker(c, "tcp"), ParseLabels(c.labels))
  BY <1>p DEF intent
<1>14. LeadsToContainer(source, zones, c, route)
  BY <1>11, <1>12, <1>13 DEF LeadsToContainer, intent, addressed, offered, open
<1> QED
  BY <1>14 DEF source, zones, c, s, intent, route, port

-----------------------------------------------------------------------------
(* Configurations that are written and loaded again.                        *)

\* What has been loaded: zones and apps in order, and a zone with a domain has a name.
Loaded(c) ==
    /\ \E m \in Nat : c.zones = [i \in 1 .. m |-> c.zones[i]]
    /\ \E n \in Nat : DOMAIN c.apps = 1 .. n /\ Len(c.apps) = n
    /\ \A i \in DOMAIN c.zones :
         /\ c.zones[i] = [name |-> c.zones[i].name, domain |-> c.zones[i].domain]
         /\ c.zones[i].domain # "" => c.zones[i].name # ""

\* Both forms of a file are loaded so.
LEMMA LoadedFacts ==
    ASSUME NEW file \in FileInputs
    PROVE  Loaded(UnmarshalYAML(file))
<1> DEFINE c == UnmarshalYAML(file)
           d == file.domains
           m == Len(d)
<1>1. /\ m \in Nat /\ DOMAIN d = 1 .. m
      /\ \A i \in 1 .. m : DOMAIN d[i].manual = 1 .. Len(d[i].manual) /\ Len(d[i].manual) \in Nat
  BY AlgorithmsAssumption
<1>2. /\ Len(file.zones) \in Nat /\ DOMAIN file.zones = 1 .. Len(file.zones)
      /\ Len(file.apps) \in Nat /\ DOMAIN file.apps = 1 .. Len(file.apps)
  BY AlgorithmsAssumption
<1>3. CASE d # <<>>
  <2> DEFINE zones == [i \in DOMAIN d |-> [name |-> OrElse(d[i].name, d[i].domain),
                                           domain |-> d[i].domain]]
             B == [i \in DOMAIN d |-> EntryApps(d[i])]
             S == UNION {{B[i][k] : k \in DOMAIN B[i]} : i \in 1 .. m}
  <2>1. c.zones = zones /\ c.apps = FlattenSeq(B)
    BY <1>3 DEF UnmarshalYAML
  <2>2. \A i \in 1 .. m : /\ zones[i] = [name |-> zones[i].name, domain |-> zones[i].domain]
                          /\ zones[i].domain # "" => zones[i].name # ""
    BY <1>1 DEF OrElse
  <2>3. DOMAIN zones = 1 .. m /\ zones = [i \in 1 .. m |-> zones[i]]
    BY <1>1
  <2>4. ASSUME NEW i \in 1 .. m PROVE B[i] \in Seq(S)
    <3>1. B[i] = EntryApps(d[i])
      BY <1>1
    <3>2. /\ DOMAIN B[i] = 1 .. Len(d[i].manual) /\ Len(d[i].manual) \in Nat
          /\ B[i] = [k \in 1 .. Len(d[i].manual) |-> B[i][k]]
      BY <1>1, <3>1 DEF EntryApps
    <3> HIDE DEF B
    <3>3. \A k \in 1 .. Len(d[i].manual) : B[i][k] \in S
      BY <3>2
    <3> HIDE DEF S
    <3> QED
      BY <3>2, <3>3
  <2>5. B \in Seq(Seq(S))
    <3>1. B = [i \in 1 .. m |-> B[i]]
      BY <1>1
    <3> HIDE DEF B, S, m
    <3> QED
      BY <1>1, <2>4, <3>1
  <2> HIDE DEF B, S, zones
  <2>6. FlattenSeq(B) \in Seq(S)
    BY <2>5, FlattenType
  <2>7. DOMAIN c.apps = 1 .. Len(c.apps) /\ Len(c.apps) \in Nat
    <3> DEFINE a == FlattenSeq(B)
    <3>1. a \in Seq(S) /\ c.apps = a
      BY <2>1, <2>6
    <3> HIDE DEF a, c
    <3> QED
      BY <3>1
  <2> HIDE DEF c
  <2> QED
    BY <1>1, <2>1, <2>2, <2>3, <2>7 DEF Loaded, c
<1>4. CASE d = <<>>
  <2> DEFINE zones == [i \in DOMAIN file.zones |-> NormalizeZone(file.zones[i])]
             apps == [i \in DOMAIN file.apps |-> NormalizeApp(zones, file.apps[i])]
  <2>1. c.zones = zones /\ c.apps = apps
    BY <1>4 DEF UnmarshalYAML
  <2>2. \A i \in DOMAIN zones :
          /\ zones[i] = [name |-> zones[i].name, domain |-> zones[i].domain]
          /\ zones[i].domain # "" => zones[i].name # ""
    BY DEF NormalizeZone, OrElse
  <2>3. DOMAIN zones = 1 .. Len(file.zones) /\ zones = [i \in 1 .. Len(file.zones) |-> zones[i]]
    BY <1>2
  <2>4. DOMAIN apps = 1 .. Len(file.apps) /\ Len(apps) = Len(file.apps)
    BY <1>2
  <2> HIDE DEF c, zones, apps
  <2> QED
    BY <1>2, <2>1, <2>2, <2>3, <2>4 DEF Loaded, c
<1> QED
  BY <1>3, <1>4

\* An app as a manual entry, the apps of a domain, and all apps as entries.
EntryOf(a) == [name |-> a.name, subdomain |-> a.subdomain]

AppsIn(c, key) == {x \in DOMAIN c.apps : AppDomain(c.apps[x]) = key}

AllEntries(c) == [x \in DOMAIN c.apps |-> EntryOf(c.apps[x])]

\* Entries, in MarshalYAML, is a selection from the names and subdomains of the apps.
LEMMA EntriesPicked ==
    ASSUME NEW c, NEW key
    PROVE  Entries(c, key) = Picked(AppsIn(c, key), AllEntries(c))
<1> DEFINE e == AllEntries(c)
           I == AppsIn(c, key)
           p == [x \in DOMAIN c.apps |-> IF AppDomain(c.apps[x]) = key
                                         THEN <<[name |-> c.apps[x].name,
                                                 subdomain |-> c.apps[x].subdomain]>> ELSE <<>>]
<1>1. DOMAIN e = DOMAIN c.apps
  BY DEF AllEntries
<1>2. \A x \in DOMAIN c.apps :
        /\ e[x] = [name |-> c.apps[x].name, subdomain |-> c.apps[x].subdomain]
        /\ x \in I <=> AppDomain(c.apps[x]) = key
  BY DEF AllEntries, EntryOf, AppsIn
<1> HIDE DEF e, I
<1>3. Picks(I, e) = p
  BY <1>1, <1>2 DEF Picks
<1> QED
  BY <1>3 DEF Entries, Picked, e, I

\* The apps a and b have the same name and host.
SameApp(a, b) ==
    a.name = b.name /\ a.subdomain = b.subdomain /\ AppDomain(a) = AppDomain(b)

\* What is left of the configuration c in again: its zones, the entries of each, and every app
\* in a place of its own.
Written(c, again) ==
    /\ again.zones = c.zones
    /\ DOMAIN again.apps = 1 .. Len(again.apps) /\ Len(again.apps) \in Nat
    /\ \A i \in DOMAIN c.zones :
         Entries(again, c.zones[i].domain) = Entries(c, c.zones[i].domain)
    /\ \E F : /\ Renumbers(F, Len(c.apps), Len(again.apps))
              /\ \A x \in 1 .. Len(c.apps) : SameApp(again.apps[F[x]], c.apps[x])

\* A valid configuration that was loaded, written and loaded again.
LEMMA WrittenFacts ==
    ASSUME NEW c, Loaded(c), Validate(c), c.zones # <<>>
    PROVE  Written(c, UnmarshalYAML(MarshalYAML(c)))
<1> DEFINE again == UnmarshalYAML(MarshalYAML(c))
           n == Len(c.apps)
           e == AllEntries(c)
           T == {EntryOf(c.apps[x]) : x \in 1 .. n}
           dom(i) == c.zones[i].domain
           E(i) == Entries(c, dom(i))
<1>1. PICK m \in Nat : c.zones = [i \in 1 .. m |-> c.zones[i]]
  BY DEF Loaded
<1>2. DOMAIN c.zones = 1 .. m /\ m # 0
  <2>1. DOMAIN c.zones = 1 .. m
    BY <1>1
  <2>2. ASSUME m = 0 PROVE FALSE
    <3>1. c.zones = [i \in 1 .. 0 |-> c.zones[i]]
      BY <1>1, <2>2
    <3>2. [i \in 1 .. 0 |-> c.zones[i]] = <<>>
      OBVIOUS
    <3> QED
      BY <3>1, <3>2
  <2> QED
    BY <2>1, <2>2
<1>3. n \in Nat /\ DOMAIN c.apps = 1 .. n
  BY DEF Loaded
<1>4. /\ \A i \in 1 .. m :
           /\ c.zones[i] = [name |-> c.zones[i].name, domain |-> dom(i)]
           /\ dom(i) # "" /\ c.zones[i].name # ""
      /\ \A i, j \in 1 .. m : dom(i) = dom(j) => i = j
      /\ \A x \in 1 .. n : /\ c.apps[x].name # ""
                           /\ \E i \in 1 .. m : dom(i) = AppDomain(c.apps[x])
  BY <1>2, <1>3 DEF Loaded, Validate
<1>5. e \in Seq(T) /\ Len(e) = n /\ \A x \in 1 .. n : e[x] = EntryOf(c.apps[x])
  <2>1. e = [x \in 1 .. n |-> EntryOf(c.apps[x])]
    BY <1>3 DEF AllEntries
  <2>2. \A x \in 1 .. n : EntryOf(c.apps[x]) \in T
    OBVIOUS
  <2> HIDE DEF e, T, n
  <2> QED
    BY <1>3, <2>1, <2>2
<1>6. \A f \in T : f = [name |-> f.name, subdomain |-> f.subdomain] /\ f.name # ""
  <2> SUFFICES ASSUME NEW f \in T
               PROVE  f = [name |-> f.name, subdomain |-> f.subdomain] /\ f.name # ""
    OBVIOUS
  <2>1. PICK x \in 1 .. n : f = EntryOf(c.apps[x])
    OBVIOUS
  <2>2. c.apps[x].name # ""
    BY <1>4
  <2> HIDE DEF T
  <2> QED
    BY <2>1, <2>2 DEF EntryOf
<1> DEFINE I == [i \in 1 .. m |-> AppsIn(c, dom(i))]
<1>7. ASSUME NEW i \in 1 .. m PROVE E(i) = Picked(I[i], e) /\ I[i] = AppsIn(c, dom(i))
  BY EntriesPicked
<1>8. Groups(I, m, n)
  <2>1. \A i \in 1 .. m : AppsIn(c, dom(i)) \subseteq 1 .. n
    BY <1>3 DEF AppsIn
  <2>2. I \in [1 .. m -> SUBSET (1 .. n)]
    BY <2>1
  <2>3. \A x \in 1 .. n : \E i \in 1 .. m : x \in I[i]
    BY <1>3, <1>4 DEF AppsIn
  <2>4. \A i, j \in 1 .. m : \A x \in I[i] : x \in I[j] => i = j
    BY <1>4 DEF AppsIn
  <2> QED
    BY <2>2, <2>3, <2>4 DEF Groups
<1> HIDE DEF n, e, T, E, I, dom
<1>9. ASSUME NEW i \in 1 .. m
      PROVE  /\ E(i) \in Seq(T) /\ Len(E(i)) \in Nat /\ DOMAIN E(i) = 1 .. Len(E(i))
             /\ \A k \in 1 .. Len(E(i)) : E(i)[k] \in T
  <2>1. I[i] \in SUBSET (1 .. Len(e))
    BY <1>5, <1>8 DEF Groups
  <2>2. E(i) \in Seq(T)
    BY <1>5, <1>7, <2>1, PickedPositions
  <2> QED
    BY <2>2
<1> DEFINE M == MarshalYAML(c)
           B == [i \in 1 .. m |-> EntryApps(M.domains[i])]
<1>10. /\ M.domains # <<>> /\ DOMAIN M.domains = 1 .. m
       /\ \A i \in 1 .. m :
            M.domains[i] = [domain |-> dom(i), name |-> c.zones[i].name, manual |-> E(i)]
  <2> DEFINE D == [i \in DOMAIN c.zones |->
                     LET domain == OrElse(c.zones[i].domain, c.zones[i].name)
                     IN [domain |-> domain, name |-> c.zones[i].name,
                         manual |-> Entries(c, domain)]]
  <2>1. M.domains = D
    BY DEF MarshalYAML
  <2>2. DOMAIN D = 1 .. m
    BY <1>2
  <2>3. \A i \in 1 .. m :
          D[i] = [domain |-> dom(i), name |-> c.zones[i].name, manual |-> E(i)]
    BY <1>2, <1>4 DEF OrElse, E, dom
  <2>4. D # <<>>
    <3>1. 1 \in DOMAIN D
      BY <1>2, <2>2
    <3> HIDE DEF D
    <3> QED
      BY <3>1
  <2> HIDE DEF D, M
  <2> QED
    BY <2>1, <2>2, <2>3, <2>4
<1> HIDE DEF M
<1>11. /\ again.apps = FlattenSeq(B)
       /\ again.zones = [i \in 1 .. m |-> [name |-> OrElse(c.zones[i].name, dom(i)),
                                           domain |-> dom(i)]]
  <2>1. /\ again.apps = FlattenSeq([i \in DOMAIN M.domains |-> EntryApps(M.domains[i])])
        /\ again.zones = [i \in DOMAIN M.domains |->
                            [name |-> OrElse(M.domains[i].name, M.domains[i].domain),
                             domain |-> M.domains[i].domain]]
    BY <1>10 DEF UnmarshalYAML, M
  <2>2. again.apps = FlattenSeq(B)
    BY <1>10, <2>1
  <2> HIDE DEF again
  <2>3. \A i \in 1 .. m : M.domains[i].name = c.zones[i].name /\ M.domains[i].domain = dom(i)
    <3> SUFFICES ASSUME NEW i \in 1 .. m
                 PROVE  M.domains[i].name = c.zones[i].name /\ M.domains[i].domain = dom(i)
      OBVIOUS
    <3>1. M.domains[i] = [domain |-> dom(i), name |-> c.zones[i].name, manual |-> E(i)]
      BY <1>10
    <3> QED
      BY <3>1
  <2>4. DOMAIN M.domains = 1 .. m
    BY <1>10
  <2> QED
    BY <2>1, <2>2, <2>3, <2>4
<1>12. again.zones = c.zones
  BY <1>1, <1>4, <1>11 DEF OrElse
<1>13. ASSUME NEW i \in 1 .. m
       PROVE  /\ DOMAIN B[i] = 1 .. Len(E(i)) /\ B[i] = [k \in 1 .. Len(E(i)) |-> B[i][k]]
              /\ \A k \in 1 .. Len(E(i)) :
                   /\ B[i][k].name = E(i)[k].name /\ B[i][k].subdomain = E(i)[k].subdomain
                   /\ AppDomain(B[i][k]) = dom(i)
  <2>1. B[i] = [k \in 1 .. Len(E(i)) |->
                  [name |-> OrElse(E(i)[k].name, E(i)[k].subdomain), domain |-> dom(i),
                   zone |-> dom(i), subdomain |-> E(i)[k].subdomain]]
    <3> DEFINE d == M.domains[i]
    <3>1. d.domain = dom(i) /\ d.manual = E(i) /\ DOMAIN d.manual = 1 .. Len(E(i))
      <4>1. d = [domain |-> dom(i), name |-> c.zones[i].name, manual |-> E(i)]
        BY <1>10
      <4>2. DOMAIN E(i) = 1 .. Len(E(i))
        BY <1>9
      <4> HIDE DEF d
      <4> QED
        BY <4>1, <4>2
    <3> HIDE DEF d
    <3>2. B[i] = EntryApps(d)
      BY DEF d
    <3> HIDE DEF B
    <3> QED
      BY <3>1, <3>2 DEF EntryApps
  <2>2. \A k \in 1 .. Len(E(i)) : E(i)[k].name # ""
    BY <1>6, <1>9
  <2> HIDE DEF B
  <2>3. DOMAIN B[i] = 1 .. Len(E(i)) /\ B[i] = [k \in 1 .. Len(E(i)) |-> B[i][k]]
    BY <2>1
  <2>4. ASSUME NEW k \in 1 .. Len(E(i))
        PROVE  /\ B[i][k].name = E(i)[k].name /\ B[i][k].subdomain = E(i)[k].subdomain
               /\ AppDomain(B[i][k]) = dom(i)
    <3>1. B[i][k] = [name |-> OrElse(E(i)[k].name, E(i)[k].subdomain), domain |-> dom(i),
                     zone |-> dom(i), subdomain |-> E(i)[k].subdomain]
      BY <2>1
    <3> DEFINE r == B[i][k]
               f == E(i)[k]
               d == dom(i)
    <3>2. /\ f.name # "" /\ d # ""
          /\ r = [name |-> OrElse(f.name, f.subdomain), domain |-> d, zone |-> d,
                  subdomain |-> f.subdomain]
      BY <1>4, <2>2, <3>1
    <3> HIDE DEF r, f, d
    <3>3. r.name = f.name /\ r.subdomain = f.subdomain /\ AppDomain(r) = d
      BY <3>2 DEF OrElse, AppDomain
    <3> QED
      BY <3>3 DEF r, f, d
  <2> QED
    BY <2>3, <2>4
<1> DEFINE S == UNION {{B[i][k] : k \in DOMAIN B[i]} : i \in 1 .. m}
<1>14. \A i \in 1 .. m : B[i] \in Seq(S) /\ Len(B[i]) = Len(E(i))
  <2> SUFFICES ASSUME NEW i \in 1 .. m PROVE B[i] \in Seq(S) /\ Len(B[i]) = Len(E(i))
    OBVIOUS
  <2>0. DOMAIN B[i] = 1 .. Len(E(i)) /\ B[i] = [k \in 1 .. Len(E(i)) |-> B[i][k]]
    BY <1>13
  <2> HIDE DEF B
  <2>1. \A k \in 1 .. Len(E(i)) : B[i][k] \in S
    BY <2>0
  <2> HIDE DEF S
  <2>2. Len(E(i)) \in Nat
    BY <1>9
  <2> QED
    BY <2>0, <2>1, <2>2
<1>15. B \in Seq(Seq(S)) /\ Len(B) = m
  <2>1. B = [i \in 1 .. m |-> B[i]]
    OBVIOUS
  <2> HIDE DEF B, S
  <2> QED
    BY <1>14, <2>1
<1> HIDE DEF B, S
<1> DEFINE A == FlattenSeq(B)
<1>16. A \in Seq(S)
  BY <1>15, FlattenType
<1>17. PICK lo : Blocks(B, A, lo)
  BY <1>15, FlattenBlocks
<1> HIDE DEF A
<1>18. again.apps = A
  BY <1>11 DEF A
<1> HIDE DEF again
<1>19. Len(A) \in Nat /\ DOMAIN A = 1 .. Len(A)
  BY <1>16
<1>20. /\ \A i \in 1 .. m : lo[i] \in Nat /\ lo[i] + Len(E(i)) <= Len(A)
       /\ \A i \in 1 .. m : \A k \in 1 .. Len(E(i)) : A[lo[i] + k] = B[i][k]
       /\ \A p \in 1 .. Len(A) : \E i \in 1 .. m : lo[i] < p /\ p <= lo[i] + Len(E(i))
  BY <1>14, <1>15, <1>17 DEF Blocks
<1>21. PICK F : Rearranges(F, e, m, I, B, A, lo)
  <2>1. \A i \in 1 .. m : Len(B[i]) = Len(Picked(I[i], e))
    BY <1>7, <1>14
  <2>2. Groups(I, m, Len(e))
    BY <1>5, <1>8
  <2>3. Grouped(T, e, m, I, S, B, A, lo)
    BY <1>5, <1>15, <1>16, <1>17, <2>1, <2>2 DEF Grouped
  <2> QED
    BY <2>3, Regrouped
<1>22. ASSUME NEW x \in 1 .. n
       PROVE  SameApp(A[F[x]], c.apps[x])
  <2>1. PICK i \in 1 .. m : x \in I[i]
    BY <1>8 DEF Groups
  <2>2. PICK k \in 1 .. Len(E(i)) : F[x] = lo[i] + k /\ E(i)[k] = e[x]
    <3>1. E(i) = Picked(I[i], e) /\ Len(B[i]) = Len(E(i))
      BY <1>7, <1>14
    <3>2. \E k \in 1 .. Len(B[i]) : F[x] = lo[i] + k /\ Picked(I[i], e)[k] = e[x]
      BY <1>21, <2>1 DEF Rearranges
    <3> QED
      BY <3>1, <3>2
  <2>3. A[F[x]] = B[i][k]
    BY <1>20, <2>2
  <2>4. e[x].name = c.apps[x].name /\ e[x].subdomain = c.apps[x].subdomain
    BY <1>5 DEF EntryOf
  <2>5. AppDomain(c.apps[x]) = dom(i)
    BY <1>7, <2>1 DEF AppsIn
  <2> QED
    BY <1>13, <2>2, <2>3, <2>4, <2>5 DEF SameApp
<1>23. ASSUME NEW i \in 1 .. m PROVE Entries(again, dom(i)) = E(i)
  <2> DEFINE f == AllEntries(again)
             J == AppsIn(again, dom(i))
             l == Len(E(i))
             U == {EntryOf(A[p]) : p \in 1 .. Len(A)}
  <2>1. f = [p \in 1 .. Len(A) |-> EntryOf(A[p])]
    BY <1>18, <1>19 DEF AllEntries
  <2>2. f \in Seq(U) /\ Len(f) = Len(A) /\ \A p \in 1 .. Len(A) : f[p] = EntryOf(A[p])
    <3>1. \A p \in 1 .. Len(A) : EntryOf(A[p]) \in U
      OBVIOUS
    <3> HIDE DEF U, f
    <3> QED
      BY <1>19, <2>1, <3>1
  <2> HIDE DEF f, U, l
  <2>3. lo[i] \in Nat /\ l \in Nat /\ lo[i] + l <= Len(f)
    BY <1>9, <1>20, <2>2 DEF l
  <2>4. ASSUME NEW p \in 1 .. Len(f) PROVE p \in J <=> lo[i] < p /\ p <= lo[i] + l
    <3>1. PICK j \in 1 .. m : lo[j] < p /\ p <= lo[j] + Len(E(j))
      BY <1>20, <2>2
    <3> DEFINE k == p - lo[j]
    <3>2. k \in 1 .. Len(E(j)) /\ lo[j] + k = p
      BY <1>9, <1>20, <3>1
    <3> HIDE DEF k
    <3>3. AppDomain(A[p]) = dom(j)
      BY <1>13, <1>20, <3>2, ZenonT(40)
    <3>4. p \in J <=> dom(j) = dom(i)
      BY <1>18, <1>19, <2>2, <3>3 DEF AppsIn
    <3>5. ASSUME lo[i] < p, p <= lo[i] + l PROVE i = j
      <4>1. /\ i \in 1 .. Len(B) /\ j \in 1 .. Len(B) /\ p \in Nat
            /\ p <= lo[i] + Len(B[i]) /\ p <= lo[j] + Len(B[j])
        BY <1>14, <1>15, <3>1, <3>5 DEF l
      <4> QED
        BY <1>15, <1>17, <3>1, <3>5, <4>1, BlocksApart
    <3> QED
      BY <1>4, <3>1, <3>4, <3>5 DEF l
  <2> HIDE DEF J
  <2>5. Picked(J, f) = [k \in 1 .. l |-> f[lo[i] + k]]
    <3> DEFINE b == lo[i]
    <3>1. b \in Nat /\ l \in Nat /\ b + l <= Len(f)
      BY <2>3
    <3>2. IsInterval(J, Len(f), b, l)
      BY <2>4 DEF IsInterval
    <3>3. f \in Seq(U)
      BY <2>2
    <3> HIDE DEF b
    <3>4. Picked(J, f) = [k \in 1 .. l |-> f[b + k]]
      BY <3>1, <3>2, <3>3, PickedInterval
    <3> QED
      BY <3>4 DEF b
  <2>6. ASSUME NEW k \in 1 .. l PROVE f[lo[i] + k] = E(i)[k]
    <3>1. lo[i] + k \in 1 .. Len(A)
      BY <1>19, <2>2, <2>3
    <3>2. f[lo[i] + k] = EntryOf(B[i][k])
      BY <1>20, <2>2, <3>1 DEF l
    <3>3. EntryOf(B[i][k]) = [name |-> E(i)[k].name, subdomain |-> E(i)[k].subdomain]
      BY <1>13 DEF EntryOf, l
    <3>4. E(i)[k] \in T
      BY <1>9 DEF l
    <3> QED
      BY <1>6, <3>2, <3>3, <3>4
  <2>7. E(i) = [k \in 1 .. l |-> E(i)[k]]
    BY <1>9 DEF l
  <2>8. Entries(again, dom(i)) = Picked(J, f)
    BY EntriesPicked DEF J, f
  <2> QED
    BY <2>5, <2>6, <2>7, <2>8
<1>24. \A i \in DOMAIN c.zones :
         Entries(again, c.zones[i].domain) = Entries(c, c.zones[i].domain)
  BY <1>2, <1>23 DEF E, dom
<1>25. Renumbers(F, n, Len(A))
  BY <1>5, <1>21 DEF Rearranges
<1>26. Written(c, again)
  BY <1>12, <1>18, <1>19, <1>22, <1>24, <1>25 DEF Written, n
<1> QED
  BY <1>26 DEF again

\* Any file that is loaded, written and loaded again.
LEMMA FilesCorrect ==
    ASSUME NEW file \in FileInputs
    PROVE  SurvivesWriting(file)
<1> DEFINE c == UnmarshalYAML(file)
           again == UnmarshalYAML(MarshalYAML(c))
<1>1. Loaded(c)
  BY LoadedFacts
<1> SUFFICES ASSUME Validate(c)
             PROVE  /\ Validate(again) /\ again.zones = c.zones /\ Len(again.apps) = Len(c.apps)
                    /\ \A i \in DOMAIN c.zones :
                         Entries(again, c.zones[i].domain) = Entries(c, c.zones[i].domain)
  BY DEF SurvivesWriting
<1> HIDE DEF c
<1>2. CASE c.zones = <<>>
  <2>1. Len(c.apps) = 0
    <3>1. PICK n \in Nat : DOMAIN c.apps = 1 .. n /\ Len(c.apps) = n
      BY <1>1 DEF Loaded
    <3>2. DOMAIN c.apps = {}
      BY <1>2 DEF Validate
    <3> QED
      BY <3>1, <3>2
  <2>2. MarshalYAML(c) = [domains |-> <<>>, zones |-> <<>>, apps |-> <<>>]
    BY <1>2 DEF MarshalYAML
  <2>3. again.zones = <<>> /\ again.apps = <<>>
    BY <2>2 DEF UnmarshalYAML
  <2> HIDE DEF again
  <2>4. DOMAIN again.zones = {} /\ DOMAIN again.apps = {} /\ Len(again.apps) = 0
    BY <2>3
  <2> QED
    BY <1>2, <2>1, <2>3, <2>4 DEF Validate
<1>3. CASE c.zones # <<>>
  <2>1. Written(c, again)
    BY <1>1, <1>3, WrittenFacts
  <2> HIDE DEF again
  <2> DEFINE n == Len(c.apps)
             l == Len(again.apps)
  <2>2. /\ again.zones = c.zones /\ DOMAIN again.apps = 1 .. l /\ l \in Nat
        /\ \A i \in DOMAIN c.zones :
             Entries(again, c.zones[i].domain) = Entries(c, c.zones[i].domain)
    BY <2>1 DEF Written
  <2>3. n \in Nat /\ DOMAIN c.apps = 1 .. n
    BY <1>1 DEF Loaded
  <2>4. PICK F : /\ Renumbers(F, n, l)
                 /\ \A x \in 1 .. n : SameApp(again.apps[F[x]], c.apps[x])
    BY <2>1 DEF Written
  <2>5. n = l
    BY <2>2, <2>3, <2>4, SameLength
  <2>6. ASSUME NEW p \in 1 .. l
        PROVE  \E x \in 1 .. n : F[x] = p /\ SameApp(again.apps[p], c.apps[x])
    BY <2>4 DEF Renumbers
  <2>7. ASSUME NEW p \in DOMAIN again.apps
        PROVE  /\ again.apps[p].name # "" /\ again.apps[p].subdomain # ""
               /\ \E j \in DOMAIN again.zones : again.zones[j].domain = AppDomain(again.apps[p])
    <3>1. PICK x \in 1 .. n : SameApp(again.apps[p], c.apps[x])
      BY <2>2, <2>6
    <3>2. /\ c.apps[x].name # "" /\ c.apps[x].subdomain # ""
          /\ \E j \in DOMAIN c.zones : c.zones[j].domain = AppDomain(c.apps[x])
      BY <2>3 DEF Validate
    <3> QED
      BY <2>2, <3>1, <3>2 DEF SameApp
  <2>8. ASSUME NEW p \in DOMAIN again.apps, NEW q \in DOMAIN again.apps,
               \/ again.apps[p].name = again.apps[q].name
               \/ AppHost(again.apps[p]) = AppHost(again.apps[q])
        PROVE  p = q
    <3>1. PICK x \in 1 .. n : F[x] = p /\ SameApp(again.apps[p], c.apps[x])
      BY <2>2, <2>6
    <3>2. PICK y \in 1 .. n : F[y] = q /\ SameApp(again.apps[q], c.apps[y])
      BY <2>2, <2>6
    <3>3. c.apps[x].name = c.apps[y].name \/ AppHost(c.apps[x]) = AppHost(c.apps[y])
      BY <2>8, <3>1, <3>2 DEF SameApp, AppHost
    <3>4. x = y
      BY <2>3, <3>3 DEF Validate
    <3> QED
      BY <3>1, <3>2, <3>4
  <2>9. Validate(again)
    <3>1. /\ \A i \in DOMAIN again.zones : again.zones[i].domain # ""
          /\ \A i, j \in DOMAIN again.zones :
               again.zones[i].domain = again.zones[j].domain => i = j
      BY <2>2 DEF Validate
    <3> QED
      BY <2>7, <2>8, <3>1 DEF Validate
  <2> QED
    BY <2>2, <2>5, <2>9
<1> QED
  BY <1>2, <1>3

-----------------------------------------------------------------------------
(* The calls.                                                               *)

\* Between a call and its return nothing else is done, so that the invariant is the call's
\* own postcondition.
LEMMA CallCorrect == Spec => []CallInv
<1>1. Init => CallInv
  BY DEF Init, CallInv
<1>2. CallInv /\ [Next]_vars => CallInv'
  <2> SUFFICES ASSUME CallInv, [Next]_vars PROVE CallInv'
    OBVIOUS
  <2>1. CASE SyncRecord
    BY <2>1 DEF SyncRecord, Calls, CallInv
  <2>2. CASE ApplyCustomRoutes
    BY <2>2 DEF ApplyCustomRoutes, Calls, CallInv
  <2>3. CASE ServeCertificate
    BY <2>3 DEF ServeCertificate, Calls, CallInv
  <2>4. CASE LoadFile
    BY <2>4 DEF LoadFile, Calls, CallInv
  <2>5. CASE DiscoverContainer
    BY <2>5 DEF DiscoverContainer, Calls, CallInv
  <2>6. CASE Return
    BY <2>6 DEF Return, CallInv
  <2>7. CASE UNCHANGED vars
    BY <2>7 DEF vars, CallInv
  <2> QED
    BY <2>1, <2>2, <2>3, <2>4, <2>5, <2>6, <2>7 DEF Next
<1> QED
  BY <1>1, <1>2, PTL DEF Spec

\* Whatever the names and the zones that answer, the record that syncRecord writes is in the
\* innermost of those zones and its name makes up the host again.
THEOREM RecordsReachTheirZoneHolds == Spec => []RecordsReachTheirZone
<1>1. CallInv => RecordsReachTheirZone
  <2> SUFFICES ASSUME CallInv, Called("record")
               PROVE  WrittenWhereServed(call.args.host, call.args.answers, result)
    BY DEF RecordsReachTheirZone
  <2>1. /\ call.args \in HostInputs
        /\ result = Record(call.args.host, call.args.answers)
    BY DEF CallInv, Called
  <2>2. call.args.host \in Seq(Label) /\ call.args.answers \in SUBSET Seq(Label)
    BY <2>1, AlgorithmsAssumption
  <2> QED
    BY <2>1, <2>2, RecordCorrect
<1> QED
  BY <1>1, CallCorrect, PTL

\* Whatever the route, its subdomain's labels and its source's name, a route that gives way
\* once or twice stays in its zone and takes three different hosts.
THEOREM RenamedRoutesStayInZoneHolds == Spec => []RenamedRoutesStayInZone
<1>1. CallInv => RenamedRoutesStayInZone
  <2> SUFFICES ASSUME CallInv, Called("rename")
               PROVE  RenamedInZone(call.args.domain, call.args.route)
    BY DEF RenamedRoutesStayInZone
  <2>1. call.args \in RouteInputs
    BY DEF CallInv, Called
  <2> QED
    BY <2>1, RenamedCorrect
<1> QED
  BY <1>1, CallCorrect, PTL

\* Whatever zones Validate accepts, a host with a certificate plan is answered with a
\* certificate that covers it, if the names are plain words or else the plans for the host
\* share their directory with no other.
THEOREM PlannedHostsAreCoveredHolds == Spec => []PlannedHostsAreCovered
<1>1. CallInv => PlannedHostsAreCovered
  <2> SUFFICES ASSUME CallInv, Called("certificate")
               PROVE  PlannedHostsCovered(call.args.zones, call.args.host, result)
    BY DEF PlannedHostsAreCovered
  <2>1. /\ call.args.zones \in ZoneInputs /\ call.args.host \in ServedHosts
        /\ ZonesValid(call.args.zones)
        /\ result = GetCertificate(LoadCertificates(BuildCertificateRequests(call.args.zones)),
                                   call.args.host)
    BY DEF CallInv, Called
  <2> QED
    BY <2>1, PlannedCorrect
<1> QED
  BY <1>1, CallCorrect, PTL

\* Whatever the file, an app of the loaded configuration is served in the zone where Validate
\* has found room for it.
THEOREM AppsAreServedInTheirZoneHolds == Spec => []AppsAreServedInTheirZone
<1>1. CallInv => AppsAreServedInTheirZone
  <2> SUFFICES ASSUME CallInv, Called("load") PROVE ServedInItsZone(result)
    BY DEF AppsAreServedInTheirZone
  <2>1. call.args \in FileInputs /\ result = UnmarshalYAML(call.args)
    BY DEF CallInv, Called
  <2> QED
    BY <2>1, AppsCorrect
<1> QED
  BY <1>1, CallCorrect, PTL

\* Whatever the containers, networks, ports, protocols and labels, a discovered route leads
\* from where domux runs to its own container, in the network that is asked for if there is
\* one, but for the addresses and protocols that ResolveTarget does not see.
THEOREM RoutesLeadToTheirContainerHolds == Spec => []RoutesLeadToTheirContainer
<1>1. CallInv => RoutesLeadToTheirContainer
  <2> SUFFICES ASSUME CallInv, Called("discover")
               PROVE  LeadsToContainer(call.args.source, call.args.zones, call.args.container,
                                       result)
    BY DEF RoutesLeadToTheirContainer
  <2>1. /\ call.args \in ContainerInputs
        /\ \E last \in Protocol :
             result = DiscoverRoute(call.args.source, call.args.zones, call.args.container, last)
    BY DEF CallInv, Called
  <2>2. PICK last \in Protocol :
          result = DiscoverRoute(call.args.source, call.args.zones, call.args.container, last)
    BY <2>1
  <2> QED
    BY <2>1, <2>2, TargetCorrect
<1> QED
  BY <1>1, CallCorrect, PTL

\* Whatever the file and its form, a configuration that was loaded and found valid is the same
\* after Manager.Update has written it and it is loaded again.
THEOREM FilesSurviveWritingHolds == Spec => []FilesSurviveWriting
<1>1. CallInv => FilesSurviveWriting
  <2> SUFFICES ASSUME CallInv, Called("load") PROVE SurvivesWriting(call.args)
    BY DEF FilesSurviveWriting
  <2>1. call.args \in FileInputs
    BY DEF CallInv, Called
  <2> QED
    BY <2>1, FilesCorrect
<1> QED
  BY <1>1, CallCorrect, PTL
=============================================================================
