--------------------------- MODULE DDNSSyncProofs ---------------------------
(* Theorems about DDNSSync for any records, providers, addresses and syncers. *)
EXTENDS DDNSSync, FiniteSetTheorems, SequenceTheorems, TLAPS

\* A syncer has a record exactly while it is inside syncRecord, and SyncZone only hands
\* it records whose family was detected.
RecInv ==
    \A s \in Syncer :
      /\ pc[s] \in {"idle", "next"} <=> rec[s] = NoRec
      /\ rec[s] # NoRec => Want(s) \in IP
      /\ \A r \in todo[s] : val[s][FamilyOf[r]] \in IP

\* The store has an address exactly for the records that were put since the start.
StateInv == \A r \in Rec : state[r].status = "none" <=> state[r].value = NoIP

\* Provider calls of two SyncZones do not overlap.
OneSyncAtATime ==
    \A s, t \in Syncer : pc[s] # "idle" /\ pc[t] # "idle" => s = t

\* A list that the writes of domux can have made of the given one at an in-place provider:
\* as long as that one, or at most one value.
Fits(r, q) ==
    InPlace(r) => IF Len(given[r]) > 1 THEN Len(q) = Len(given[r]) ELSE Len(q) <= 1

\* The list q serves v; Served(r, v) says it of dns[r].
Serves(r, q, v) ==
    IF InPlace(r) /\ Len(given[r]) > 1
    THEN v \in Range(q) /\ Len(q) = Len(given[r])
    ELSE q = <<v>>

\* A write can be applied to q: the place that was listed first is there, and a list that is
\* added to is empty.
Writable(r, q, i) ==
    /\ InPlace(r) => IF i = 0 THEN q = <<>> ELSE i \in DOMAIN q
    /\ ProviderOf[r] = "spaceship" => q = <<>>

\* What the syncer knows of its record at each position of syncRecord and Upsert.
UpsertInv ==
    \A s \in Syncer :
      LET r == rec[s] IN
      /\ pc[s] = "noop" => state[r].value = Want(s) /\ state[r].status \in {"success", "noop"}
      /\ pc[s] = "success" => Serves(r, dns[r], Want(s))
      /\ pc[s] = "list" => ProviderOf[r] # "godaddy"
      /\ pc[s] = "delete" => ProviderOf[r] = "spaceship" /\ seen[s] = dns[r]
      /\ pc[s] = "write" => Writable(r, dns[r], at[s])

\* What the store says of a record holds, except while a syncer that has decided to write it
\* is between two calls, or hangs in one.
ServedInv ==
    /\ \A r \in Rec : Fits(r, dns[r])
    /\ \A r \in Rec :
         /\ state[r].status \in {"success", "noop"}
         /\ \A s \in Syncer : rec[s] = r => pc[s] = "noop"
         => Serves(r, dns[r], state[r].value)

TypeInv == TypeOK /\ RecInv /\ StateInv

-----------------------------------------------------------------------------
(* What the providers do to a list of values.                               *)

\* A finite sequence has finitely many values.
LEMMA RangeFinite ==
    ASSUME NEW S, NEW q \in Seq(S)
    PROVE  IsFiniteSet(Range(q)) /\ Range(q) \subseteq S
<1>1. /\ Len(q) \in Nat
      /\ DOMAIN q = 1 .. Len(q)
      /\ q \in [1 .. Len(q) -> S]
  BY LenProperties
<1>2. q \in Surjection(1 .. Len(q), Range(q))
  BY <1>1 DEF Surjection, Range
<1>3. ExistsSurjection(1 .. Len(q), Range(q))
  BY <1>2 DEF ExistsSurjection
<1>4. IsFiniteSet(Range(q))
  BY <1>1, <1>3, FS_NatSurjection
<1> QED
  BY <1>1, <1>4 DEF Range

\* A finite set laid out as a sequence; nothing is laid out as the empty one.
LEMMA SetToSeqFacts ==
    ASSUME NEW S, NEW T \in SUBSET S, IsFiniteSet(T)
    PROVE  /\ SetToSeq(T) \in Seq(S)
           /\ T = {} => SetToSeq(T) = <<>>
<1>1. Cardinality(T) \in Nat /\ ExistsBijection(1 .. Cardinality(T), T)
  BY FS_CardinalityType
<1>2. \E f \in [1 .. Cardinality(T) -> T] : IsInjective(f)
  BY <1>1 DEF ExistsBijection, Bijection, Injection, IsInjective
<1>3. SetToSeq(T) \in [1 .. Cardinality(T) -> T]
  BY <1>2 DEF SetToSeq
<1>4. SetToSeq(T) \in Seq(T)
  BY <1>1, <1>3, SeqDef
<1>5. SetToSeq(T) \in Seq(S)
  BY <1>4, SeqMonotonic
<1>6. T = {} => SetToSeq(T) = <<>>
  <2> SUFFICES ASSUME T = {} PROVE SetToSeq(T) = <<>>
    OBVIOUS
  <2>1. Len(SetToSeq(T)) = 0
    BY <1>1, <1>3, <1>4, LenProperties, FS_EmptySet
  <2> QED
    BY <1>4, <2>1, EmptySeq
<1> QED
  BY <1>5, <1>6

\* Deleting leaves values of the list.
LEMMA DeletedFacts ==
    ASSUME NEW s \in Syncer, NEW old \in Seq(IP)
    PROVE  /\ Deleted(s, old) \in Seq(IP)
           /\ seen[s] = old => Deleted(s, old) = <<>>
<1>1. IsFiniteSet(Range(old)) /\ Range(old) \subseteq IP
  BY RangeFinite
<1>2. IsFiniteSet(Range(old) \ Range(seen[s]))
  BY <1>1, FS_Subset
<1> QED
  BY <1>1, <1>2, SetToSeqFacts DEF Deleted

\* A write leaves a list of addresses.
LEMMA WrittenType ==
    ASSUME NEW s \in Syncer, rec[s] \in Rec, Want(s) \in IP, NEW old \in Seq(IP)
    PROVE  Written(s, old) \in Seq(IP)
<1> DEFINE v == Want(s)
           i == at[s]
<1>1. /\ Append(old, v) \in Seq(IP)
      /\ <<v>> \in Seq(IP)
      /\ [old EXCEPT ![i] = v] \in Seq(IP)
  <2>1. Len(old) \in Nat /\ old \in [1 .. Len(old) -> IP]
    BY LenProperties
  <2>2. [old EXCEPT ![i] = v] \in [1 .. Len(old) -> IP]
    BY <2>1
  <2>3. [old EXCEPT ![i] = v] \in Seq(IP)
    BY <2>1, <2>2, SeqDef
  <2> QED
    BY <2>3, AppendProperties
<1>2. ProviderOf[rec[s]] \in {"cloudflare", "alidns", "godaddy", "spaceship"}
  BY DDNSSyncAssumption
<1> QED
  BY <1>1, <1>2 DEF Written, WriteCloudflare, WriteAliDNS, WriteGoDaddy, WriteSpaceship

\* Replacing one value keeps the length and puts the value in.
LEMMA ReplacedFacts ==
    ASSUME NEW old \in Seq(IP), NEW i \in DOMAIN old, NEW v \in IP
    PROVE  LET new == [old EXCEPT ![i] = v] IN
           /\ Len(new) = Len(old)
           /\ v \in Range(new)
           /\ Len(old) <= 1 => new = <<v>>
<1> DEFINE new == [old EXCEPT ![i] = v]
<1>1. Len(old) \in Nat /\ old \in [1 .. Len(old) -> IP] /\ i \in 1 .. Len(old)
  BY LenProperties
<1>2. new \in [1 .. Len(old) -> IP] /\ new[i] = v /\ DOMAIN new = 1 .. Len(old)
  BY <1>1
<1>3. new \in Seq(IP)
  BY <1>1, <1>2, SeqDef
<1>4. Len(new) = Len(old)
  BY <1>1, <1>2, <1>3, LenProperties
<1>5. v \in Range(new)
  BY <1>1, <1>2 DEF Range
<1>6. ASSUME Len(old) <= 1 PROVE new = <<v>>
  <2>1. Len(new) = 1 /\ new[1] = v
    BY <1>1, <1>2, <1>4, <1>6
  <2> HIDE DEF new
  <2> QED
    BY <1>3, <2>1
<1> QED
  BY <1>4, <1>5, <1>6

\* A write serves the wanted address.
LEMMA WrittenServes ==
    ASSUME NEW s \in Syncer, rec[s] \in Rec, Want(s) \in IP, NEW old \in Seq(IP),
           given[rec[s]] \in Seq(IP), Fits(rec[s], old), Writable(rec[s], old, at[s])
    PROVE  Serves(rec[s], Written(s, old), Want(s))
<1> DEFINE v == Want(s)
           i == at[s]
           r == rec[s]
<1>1. Append(<<>>, v) = <<v>>
  OBVIOUS
<1>2. ~Contains(<<>>, v) /\ Len(<<>>) = 0
  BY DEF Contains
<1>3. ProviderOf[r] \in {"cloudflare", "alidns", "godaddy", "spaceship"}
  BY DDNSSyncAssumption
<1>4. Len(given[r]) \in Nat /\ Len(old) \in Nat
  OBVIOUS
<1>5. CASE InPlace(r) /\ i = 0
  <2>1. old = <<>> /\ Written(s, old) = <<v>>
    BY <1>1, <1>5 DEF InPlace, Writable, Written, WriteCloudflare, WriteAliDNS
  <2>2. ~(Len(given[r]) > 1)
    BY <1>2, <1>4, <1>5, <2>1 DEF Fits
  <2> QED
    BY <2>1, <2>2 DEF Serves
<1>6. CASE InPlace(r) /\ i # 0
  <2>1. i \in DOMAIN old /\ Written(s, old) = [old EXCEPT ![i] = v]
    BY <1>6 DEF InPlace, Writable, Written, WriteCloudflare, WriteAliDNS
  <2>2. /\ Len([old EXCEPT ![i] = v]) = Len(old)
        /\ v \in Range([old EXCEPT ![i] = v])
        /\ Len(old) <= 1 => [old EXCEPT ![i] = v] = <<v>>
    BY <2>1, ReplacedFacts
  <2> QED
    BY <1>6, <2>1, <2>2 DEF Fits, Serves
<1>7. CASE ~InPlace(r)
  <2>1. Written(s, old) = <<v>>
    BY <1>1, <1>2, <1>3, <1>7
       DEF InPlace, Writable, Written, WriteGoDaddy, WriteSpaceship
  <2> QED
    BY <1>7, <2>1 DEF Serves
<1> QED
  BY <1>5, <1>6, <1>7

\* A list that serves an address fits.
LEMMA ServesFits ==
    ASSUME NEW r \in Rec, NEW q, NEW v, Serves(r, q, v)
    PROVE  Fits(r, q)
BY DEF Serves, Fits
-----------------------------------------------------------------------------
(* Types.                                                                   *)

\* Initial types.
LEMMA TypeInit == Init => TypeInv
<1> SUFFICES ASSUME Init PROVE TypeInv
  OBVIOUS
<1> DEFINE Lists == {q \in UNION {[1 .. n -> IP] : n \in 0 .. MaxValues} : IsInjective(q)}
<1>1. Lists \subseteq Seq(IP)
  <2> SUFFICES ASSUME NEW n \in 0 .. MaxValues PROVE [1 .. n -> IP] \subseteq Seq(IP)
    OBVIOUS
  <2> QED
    BY DDNSSyncAssumption, SeqDef
<1>2. dns \in [Rec -> Seq(IP)] /\ given = dns
  <2>1. dns \in [Rec -> Lists] /\ given = dns
    BY DEF Init
  <2> HIDE DEF Lists
  <2> QED
    BY <1>1, <2>1
<1>3. TypeOK
  BY <1>2, EmptySeq, DDNSSyncAssumption DEF Init, TypeOK, NoState
<1>4. RecInv
  BY DEF Init, RecInv
<1>5. StateInv
  BY DEF Init, StateInv, NoState
<1> QED
  BY <1>3, <1>4, <1>5 DEF TypeInv

\* What a syncer inside syncRecord has in hand.
LEMMA InsideFacts ==
    ASSUME TypeInv, NEW s \in Syncer, pc[s] \notin {"idle", "next"}
    PROVE  rec[s] \in Rec /\ Want(s) \in IP /\ FamilyOf[rec[s]] \in Family
BY DDNSSyncAssumption DEF TypeInv, TypeOK, RecInv

\* PutDDNSSyncState stores the address that was wanted.
LEMMA PutStep ==
    ASSUME TypeInv, NEW s \in Syncer, NEW st \in {"noop", "success", "failed"},
           pc[s] = st, Put(s, st), UNCHANGED <<ip, dns, given, val, todo, changes, fails>>
    PROVE  TypeInv'
<1>1. rec[s] \in Rec /\ Want(s) \in IP /\ Want(s) # NoIP
  BY InsideFacts, DDNSSyncAssumption
<1>2. TypeOK'
  BY <1>1, EmptySeq DEF Put, TypeInv, TypeOK
<1>3. RecInv'
  BY DEF Put, TypeInv, TypeOK, RecInv, Want
<1>4. StateInv'
  BY <1>1 DEF Put, TypeInv, TypeOK, StateInv
<1> QED
  BY <1>2, <1>3, <1>4 DEF TypeInv

\* A call to a provider: the syncer stays at its record, its lists stay lists of addresses.
LEMMA CallStep ==
    ASSUME TypeInv, NEW s \in Syncer, pc[s] \in {"list", "delete", "write"},
           NEW p \in {"success", "failed", "delete", "write", "hung"},
           pc' = [pc EXCEPT ![s] = p],
           dns' \in [Rec -> Seq(IP)], seen' \in [Syncer -> Seq(IP)],
           at' \in [Syncer -> Nat], fails' \in 0 .. MaxFails,
           UNCHANGED <<ip, given, state, val, todo, rec, changes>>
    PROVE  TypeInv'
<1>1. TypeOK'
  BY DEF TypeInv, TypeOK
<1>2. RecInv'
  BY DEF TypeInv, TypeOK, RecInv, Want
<1>3. StateInv'
  BY DEF TypeInv, StateInv
<1> QED
  BY <1>1, <1>2, <1>3 DEF TypeInv

\* A failing call is one more of at most MaxFails.
LEMMA FailType == ASSUME TypeInv, Fail PROVE fails' \in 0 .. MaxFails
BY DDNSSyncAssumption DEF TypeInv, TypeOK, Fail

\* Every step keeps the types.
LEMMA TypeStep == TypeInv /\ [Next]_vars => TypeInv'
<1> SUFFICES ASSUME TypeInv, [Next]_vars PROVE TypeInv'
  OBVIOUS
<1> USE DDNSSyncAssumption
<1>1. ASSUME NEW f \in Family, NEW v \in IP, ChangeIP(f, v) PROVE TypeInv'
  BY <1>1 DEF ChangeIP, TypeInv, TypeOK, RecInv, StateInv, Want
<1>2. ASSUME NEW s \in Syncer, NEW F \in SUBSET Family, Detect(s, F) PROVE TypeInv'
  <2>1. fails' \in 0 .. MaxFails
    BY <1>2, FailType DEF Detect, TypeInv, TypeOK
  <2>2. TypeOK'
    BY <1>2, <2>1 DEF Detect, TypeInv, TypeOK
  <2>3. \A r \in todo'[s] : FamilyOf[r] \in F /\ val'[s][FamilyOf[r]] = ip[FamilyOf[r]]
    BY <1>2 DEF Detect, TypeInv, TypeOK
  <2>4. RecInv'
    BY <1>2, <2>3 DEF Detect, TypeInv, TypeOK, RecInv, Want
  <2>5. StateInv'
    BY <1>2 DEF Detect, TypeInv, StateInv
  <2> QED
    BY <2>2, <2>4, <2>5 DEF TypeInv
<1>3. ASSUME NEW s \in Syncer, Return(s) PROVE TypeInv'
  <2>1. TypeOK'
    BY <1>3 DEF Return, TypeInv, TypeOK
  <2>2. RecInv'
    BY <1>3 DEF Return, TypeInv, TypeOK, RecInv, Want
  <2> QED
    BY <1>3, <2>1, <2>2 DEF Return, TypeInv, StateInv
<1>4. ASSUME NEW s \in Syncer, NEW r \in Rec, ResolveFails(s, r) PROVE TypeInv'
  <2>1. TypeOK'
    BY <1>4, FailType DEF ResolveFails, TypeInv, TypeOK
  <2>2. RecInv'
    BY <1>4 DEF ResolveFails, TypeInv, TypeOK, RecInv, Want
  <2> QED
    BY <1>4, <2>1, <2>2 DEF ResolveFails, TypeInv, StateInv
<1>5. ASSUME NEW s \in Syncer, NEW r \in Rec, GetDDNSSyncState(s, r) PROVE TypeInv'
  <2>1. TypeOK'
    BY <1>5 DEF GetDDNSSyncState, TypeInv, TypeOK
  <2>2. pc'[s] \notin {"idle", "next"} /\ rec'[s] = r /\ val[s][FamilyOf[r]] \in IP
    BY <1>5 DEF GetDDNSSyncState, TypeInv, TypeOK, RecInv
  <2>3. RecInv'
    BY <1>5, <2>2 DEF GetDDNSSyncState, TypeInv, TypeOK, RecInv, Want
  <2> QED
    BY <1>5, <2>1, <2>3 DEF GetDDNSSyncState, TypeInv, StateInv
<1>6. ASSUME NEW s \in Syncer, PutNoop(s) \/ PutSuccess(s) \/ PutFailed(s) PROVE TypeInv'
  BY <1>6, PutStep DEF PutNoop, PutSuccess, PutFailed
<1>7. ASSUME NEW s \in Syncer, ListRecords(s) PROVE TypeInv'
  <2>1. rec[s] \in Rec /\ dns[rec[s]] \in Seq(IP)
    BY <1>7, InsideFacts DEF ListRecords, TypeInv, TypeOK
  <2>4. First(rec[s]) \subseteq Nat
    <3>1. DOMAIN dns[rec[s]] \subseteq Nat
      BY <2>1, LenProperties
    <3> QED
      BY <3>1 DEF First
  <2>2. /\ dns' \in [Rec -> Seq(IP)]
        /\ seen' \in [Syncer -> Seq(IP)]
        /\ at' \in [Syncer -> Nat]
        /\ fails' \in 0 .. MaxFails
    BY <1>7, <2>1, <2>4 DEF ListRecords, TypeInv, TypeOK
  <2>3. PICK p \in {"success", "delete", "write"} : pc' = [pc EXCEPT ![s] = p]
    BY <1>7 DEF ListRecords
  <2> QED
    BY <1>7, <2>2, <2>3, CallStep DEF ListRecords
<1>8. ASSUME NEW s \in Syncer, DeleteRecords(s) \/ WriteRecord(s) \/ CallFails(s) \/ Hang(s)
      PROVE  TypeInv'
  <2>1. rec[s] \in Rec /\ Want(s) \in IP /\ pc[s] \in {"list", "delete", "write"}
    BY <1>8, InsideFacts DEF DeleteRecords, WriteRecord, CallFails, Hang
  <2>2. dns[rec[s]] \in Seq(IP)
    BY <2>1 DEF TypeInv, TypeOK
  <2>3. Deleted(s, dns[rec[s]]) \in Seq(IP) /\ Written(s, dns[rec[s]]) \in Seq(IP)
    BY <2>1, <2>2, DeletedFacts, WrittenType
  <2>4. Acted(s) \in [Rec -> Seq(IP)]
    BY <2>1, <2>3 DEF Acted, TypeInv, TypeOK
  <2>5. dns' \in [Rec -> Seq(IP)]
    BY <1>8, <2>4 DEF DeleteRecords, WriteRecord, CallFails, Hang, TypeInv, TypeOK
  <2>6. /\ seen' \in [Syncer -> Seq(IP)]
        /\ at' \in [Syncer -> Nat]
        /\ fails' \in 0 .. MaxFails
    BY <1>8, FailType DEF DeleteRecords, WriteRecord, CallFails, Hang, TypeInv, TypeOK
  <2>7. PICK p \in {"success", "failed", "write", "hung"} : pc' = [pc EXCEPT ![s] = p]
    BY <1>8 DEF DeleteRecords, WriteRecord, CallFails, Hang
  <2> QED
    BY <1>8, <2>1, <2>5, <2>6, <2>7, CallStep DEF DeleteRecords, WriteRecord, CallFails, Hang
<1>9. ASSUME Restart PROVE TypeInv'
  <2>1. TypeOK'
    BY <1>9, FailType, EmptySeq DEF Restart, TypeInv, TypeOK, NoState
  <2>2. RecInv'
    BY <1>9 DEF Restart, RecInv, Want
  <2> QED
    BY <1>9, <2>1, <2>2 DEF Restart, TypeInv, StateInv, NoState
<1>10. CASE UNCHANGED vars
  BY <1>10 DEF vars, TypeInv, TypeOK, RecInv, StateInv, Want
<1> QED
  BY <1>1, <1>2, <1>3, <1>4, <1>5, <1>6, <1>7, <1>8, <1>9, <1>10 DEF Next, SyncStep

\* The variables of SyncZone and its store keep their types, and a syncer is at a record
\* only with an address for it (Service.SyncZone, syncRecord).
THEOREM TypeCorrect == Spec => []TypeOK
<1>1. TypeInv => TypeOK
  BY DEF TypeInv
<1> QED
  BY <1>1, TypeInit, TypeStep, PTL DEF Spec

-----------------------------------------------------------------------------
(* What the store says of a record is what its provider serves.             *)

SyncInv == TypeInv /\ UpsertInv /\ ServedInv

\* The invariant holds at the start.
LEMMA SyncInit == Init => SyncInv
<1> SUFFICES ASSUME Init PROVE SyncInv
  OBVIOUS
<1>1. UpsertInv
  BY DEF Init, UpsertInv
<1>2. ServedInv
  <2>1. \A r \in Rec : given[r] = dns[r] /\ Len(dns[r]) \in Nat
    BY TypeInit DEF Init, TypeInv, TypeOK
  <2> QED
    BY <2>1 DEF Init, ServedInv, NoState, Fits
<1> QED
  BY <1>1, <1>2, TypeInit DEF SyncInv

\* While one syncer runs, no other is inside syncRecord.
LEMMA AloneFacts ==
    ASSUME TypeInv, OneSyncAtATime, NEW s \in Syncer, pc[s] # "idle"
    PROVE  \A t \in Syncer : t # s => pc[t] = "idle" /\ rec[t] = NoRec
BY DEF TypeInv, TypeOK, RecInv, OneSyncAtATime

\* A call of the syncer's Upsert changes only its own record.
LEMMA CallServed ==
    ASSUME SyncInv, OneSyncAtATime, NEW s \in Syncer, pc[s] \in {"list", "delete", "write"},
           NEW p \in {"success", "failed", "delete", "write", "hung"},
           pc' = [pc EXCEPT ![s] = p],
           NEW new, dns' = [dns EXCEPT ![rec[s]] = new],
           Fits(rec[s], new),
           p = "success" => Serves(rec[s], new, Want(s)),
           p = "delete" => ProviderOf[rec[s]] = "spaceship" /\ seen'[s] = new,
           p = "write" => Writable(rec[s], new, at'[s]),
           UNCHANGED <<given, state, val, rec>>
    PROVE  UpsertInv' /\ ServedInv'
<1>1. /\ rec[s] \in Rec
      /\ \A t \in Syncer : t # s => pc[t] = "idle" /\ rec[t] = NoRec
  BY InsideFacts, AloneFacts DEF SyncInv
<1>2. dns'[rec[s]] = new /\ \A r \in Rec : r # rec[s] => dns'[r] = dns[r]
  BY <1>1 DEF SyncInv, TypeInv, TypeOK
<1>3. pc'[s] = p /\ \A t \in Syncer : t # s => pc'[t] = "idle"
  BY <1>1 DEF SyncInv, TypeInv, TypeOK
<1>4. UpsertInv'
  <2>1. /\ pc'[s] = "success" => Serves(rec[s], new, Want(s))
        /\ pc'[s] = "write" => Writable(rec[s], new, at'[s])
    BY <1>3
  <2> QED
    BY <1>1, <1>2, <1>3, <2>1 DEF UpsertInv, Want, Serves, Writable, InPlace
<1>5. ServedInv'
  <2>1. \A r \in Rec : Fits(r, dns'[r])
    BY <1>1, <1>2 DEF SyncInv, ServedInv
  <2>2. ASSUME NEW r \in Rec, state[r].status \in {"success", "noop"},
               \A t \in Syncer : rec[t] = r => pc'[t] = "noop"
        PROVE  Serves(r, dns'[r], state[r].value)
    <3>1. r # rec[s]
      BY <1>3, <2>2
    <3>2. \A t \in Syncer : rec[t] # r
      BY <1>1, <3>1, DDNSSyncAssumption
    <3> QED
      BY <1>2, <2>2, <3>1, <3>2 DEF SyncInv, ServedInv
  <2> QED
    BY <2>1, <2>2 DEF ServedInv, Fits, Serves, InPlace
<1> QED
  BY <1>4, <1>5

\* PutDDNSSyncState stores what the provider has, or that the sync failed.
LEMMA PutServed ==
    ASSUME SyncInv, OneSyncAtATime, NEW s \in Syncer, NEW st \in {"noop", "success", "failed"},
           pc[s] = st, Put(s, st), UNCHANGED <<dns, given, val>>
    PROVE  UpsertInv' /\ ServedInv'
<1>1. /\ rec[s] \in Rec
      /\ \A t \in Syncer : t # s => pc[t] = "idle" /\ rec[t] = NoRec
  BY InsideFacts, AloneFacts DEF SyncInv
<1>2. /\ \A t \in Syncer : pc'[t] \in {"idle", "next"} /\ rec'[t] = NoRec
      /\ state'[rec[s]] = [value |-> Want(s), status |-> st]
      /\ \A r \in Rec : r # rec[s] => state'[r] = state[r]
  BY <1>1 DEF Put, SyncInv, TypeInv, TypeOK
<1>3. UpsertInv'
  BY <1>2 DEF UpsertInv
<1>4. st # "failed" => Serves(rec[s], dns[rec[s]], Want(s))
  <2>1. CASE st = "success"
    BY <2>1 DEF SyncInv, UpsertInv
  <2>2. CASE st = "noop"
    <3>1. state[rec[s]].value = Want(s) /\ state[rec[s]].status \in {"success", "noop"}
      BY <2>2 DEF SyncInv, UpsertInv
    <3>2. \A t \in Syncer : rec[t] = rec[s] => pc[t] = "noop"
      BY <1>1, <2>2, DDNSSyncAssumption
    <3> QED
      BY <1>1, <3>1, <3>2 DEF SyncInv, ServedInv
  <2> QED
    BY <2>1, <2>2
<1>5. ServedInv'
  <2>1. ASSUME NEW r \in Rec, state'[r].status \in {"success", "noop"}
        PROVE  Serves(r, dns[r], state'[r].value)
    <3>1. CASE r = rec[s]
      BY <1>2, <1>4, <2>1, <3>1
    <3>2. CASE r # rec[s]
      <4>1. \A t \in Syncer : rec[t] # r
        BY <1>1, <3>2, DDNSSyncAssumption
      <4> QED
        BY <1>2, <2>1, <3>2, <4>1 DEF SyncInv, ServedInv
    <3> QED
      BY <3>1, <3>2
  <2> QED
    BY <2>1 DEF SyncInv, ServedInv, Fits, Serves, InPlace
<1> QED
  BY <1>3, <1>5

\* Every step preserves the invariant while syncs do not overlap.
LEMMA SyncInvStep == SyncInv /\ OneSyncAtATime /\ [Next]_vars => SyncInv'
<1> SUFFICES ASSUME SyncInv, OneSyncAtATime, [Next]_vars PROVE UpsertInv' /\ ServedInv'
  BY TypeStep DEF SyncInv
<1> USE DDNSSyncAssumption
<1>1. ASSUME NEW f \in Family, NEW v \in IP, ChangeIP(f, v) PROVE UpsertInv' /\ ServedInv'
  BY <1>1 DEF ChangeIP, SyncInv, UpsertInv, ServedInv, Want, Fits, Serves, Writable, InPlace
<1>2. ASSUME NEW s \in Syncer, (\E F \in SUBSET Family : Detect(s, F)) \/ Return(s)
      PROVE  UpsertInv' /\ ServedInv'
  <2>1. /\ pc'[s] \in {"idle", "next"} /\ rec[s] = NoRec
        /\ \A t \in Syncer : t # s => pc'[t] = pc[t] /\ val'[t] = val[t]
        /\ UNCHANGED <<dns, given, state, rec, seen, at>>
    BY <1>2 DEF Detect, Return, SyncInv, TypeInv, TypeOK, RecInv
  <2>2. UpsertInv'
    BY <2>1 DEF SyncInv, UpsertInv, Want, Serves, Writable, InPlace
  <2>3. ServedInv'
    BY <2>1 DEF SyncInv, ServedInv, Fits, Serves, InPlace
  <2> QED
    BY <2>2, <2>3
<1>3. ASSUME NEW s \in Syncer, NEW r \in Rec, ResolveFails(s, r) PROVE UpsertInv' /\ ServedInv'
  BY <1>3 DEF ResolveFails, SyncInv, UpsertInv, ServedInv, Want, Fits, Serves, Writable, InPlace
<1>4. ASSUME NEW s \in Syncer, NEW r \in Rec, GetDDNSSyncState(s, r)
      PROVE  UpsertInv' /\ ServedInv'
  <2>1. \A t \in Syncer : /\ rec[t] = NoRec
                          /\ t # s => pc[t] = "idle"
    BY <1>4, AloneFacts DEF GetDDNSSyncState, SyncInv, TypeInv, TypeOK, RecInv
  <2>2. /\ rec'[s] = r
        /\ \A t \in Syncer : t # s => rec'[t] = NoRec /\ pc'[t] = "idle"
        /\ UNCHANGED <<dns, given, state, val>>
    BY <1>4, <2>1 DEF GetDDNSSyncState, SyncInv, TypeInv, TypeOK
  <2>3. val[s][FamilyOf[r]] # NoIP
    BY <1>4 DEF GetDDNSSyncState, SyncInv, TypeInv, RecInv
  <2>4. /\ pc'[s] \in {"noop", "write", "list"}
        /\ pc'[s] = "noop" => /\ state[r].value = val[s][FamilyOf[r]]
                             /\ state[r].status # "failed"
        /\ pc'[s] = "write" <=> ProviderOf[r] = "godaddy" /\ pc'[s] # "noop"
    BY <1>4 DEF GetDDNSSyncState, SyncInv, TypeInv, TypeOK
  <2>5. pc'[s] = "noop" => state[r].status \in {"success", "noop"}
    BY <2>3, <2>4 DEF SyncInv, TypeInv, TypeOK, StateInv
  <2>6. UpsertInv'
    BY <2>2, <2>4, <2>5 DEF UpsertInv, Want, Writable, InPlace
  <2>7. ServedInv'
    BY <2>1, <2>2, <2>4 DEF SyncInv, ServedInv, Fits, Serves, InPlace
  <2> QED
    BY <2>6, <2>7
<1>5. ASSUME NEW s \in Syncer, PutNoop(s) \/ PutSuccess(s) \/ PutFailed(s)
      PROVE  UpsertInv' /\ ServedInv'
  BY <1>5, PutServed DEF PutNoop, PutSuccess, PutFailed
<1>6. ASSUME NEW s \in Syncer,
             \/ ListRecords(s) \/ DeleteRecords(s) \/ WriteRecord(s)
             \/ CallFails(s) \/ Hang(s)
      PROVE  UpsertInv' /\ ServedInv'
  <2> DEFINE r == rec[s]
             old == dns[rec[s]]
  <2>1. pc[s] \in {"list", "delete", "write"}
    BY <1>6 DEF ListRecords, DeleteRecords, WriteRecord, CallFails, Hang
  <2>2. /\ r \in Rec /\ Want(s) \in IP
        /\ old \in Seq(IP) /\ given[r] \in Seq(IP)
    BY <2>1, InsideFacts DEF SyncInv, TypeInv, TypeOK
  <2>3. Fits(r, old)
    BY <2>2 DEF SyncInv, ServedInv
  <2>4. dns = [dns EXCEPT ![r] = old]
    BY <2>2 DEF SyncInv, TypeInv, TypeOK
  <2>5. pc[s] = "delete" => Deleted(s, old) = <<>> /\ ProviderOf[r] = "spaceship"
    BY <2>2, DeletedFacts DEF SyncInv, UpsertInv
  <2>6. pc[s] = "write" => Serves(r, Written(s, old), Want(s))
    BY <2>2, <2>3, WrittenServes DEF SyncInv, UpsertInv
  <2>7. CASE ListRecords(s)
    <3>1. PICK i \in First(r) :
            /\ at'[s] = i
            /\ pc' = [pc EXCEPT ![s] =
                 IF UpToDate(s, i) THEN "success"
                 ELSE IF ProviderOf[r] = "spaceship" /\ old # <<>> THEN "delete"
                 ELSE "write"]
      BY <2>7 DEF ListRecords, SyncInv, TypeInv, TypeOK
    <3>2. seen'[s] = old
      BY <2>7 DEF ListRecords, SyncInv, TypeInv, TypeOK
    <3>3. UpToDate(s, i) /\ ProviderOf[r] # "godaddy" => Serves(r, old, Want(s))
      <4> SUFFICES ASSUME UpToDate(s, i), ProviderOf[r] # "godaddy"
                   PROVE  Serves(r, old, Want(s))
        OBVIOUS
      <4>1. CASE ProviderOf[r] = "spaceship"
        BY <4>1 DEF UpToDate, Serves, InPlace
      <4>2. CASE ProviderOf[r] # "spaceship"
        <5>1. InPlace(r)
          BY <2>2, <4>2 DEF InPlace
        <5>2. i \in DOMAIN old /\ old[i] = Want(s)
          BY <3>1, <4>2 DEF UpToDate, First
        <5>3. Want(s) \in Range(old)
          BY <5>2 DEF Range
        <5>4. ASSUME Len(old) <= 1 PROVE old = <<Want(s)>>
          <6>1. Len(old) = 1 /\ i = 1
            <7>1. Len(old) \in Nat /\ DOMAIN old = 1 .. Len(old)
              BY <2>2, LenProperties
            <7> HIDE DEF old
            <7> QED
              BY <5>2, <5>4, <7>1
          <6> QED
            BY <2>2, <5>2, <6>1
        <5> HIDE DEF r, old
        <5> QED
          BY <2>3, <5>1, <5>3, <5>4 DEF Serves, Fits
      <4> QED
        BY <4>1, <4>2
    <3>4. ProviderOf[r] # "godaddy"
      BY <2>7 DEF ListRecords, SyncInv, UpsertInv
    <3>5. PICK p \in {"success", "delete", "write"} :
            /\ pc' = [pc EXCEPT ![s] = p]
            /\ p = "success" => Serves(r, old, Want(s))
            /\ p = "delete" => ProviderOf[r] = "spaceship"
            /\ p = "write" /\ ProviderOf[r] = "spaceship" => old = <<>>
      BY <3>1, <3>3, <3>4
    <3>6. dns' = [dns EXCEPT ![rec[s]] = old] /\ UNCHANGED <<given, state, val, rec>>
      BY <2>4, <2>7 DEF ListRecords
    <3>7. p = "delete" => ProviderOf[rec[s]] = "spaceship" /\ seen'[s] = old
      BY <3>2, <3>5
    <3>8. p = "write" => Writable(r, old, at'[s])
      <4>1. InPlace(r) => IF i = 0 THEN old = <<>> ELSE i \in DOMAIN old
        <5>1. 0 \notin DOMAIN old
          BY <2>2, LenProperties
        <5> QED
          BY <3>1, <5>1 DEF First
      <4> HIDE DEF old
      <4> QED
        BY <3>1, <3>5, <4>1 DEF Writable
    <3>9. pc' = [pc EXCEPT ![s] = p] /\ (p = "success" => Serves(r, old, Want(s)))
      BY <3>5
    <3> HIDE DEF old
    <3> QED
      BY <2>1, <2>3, <3>6, <3>7, <3>8, <3>9, CallServed
  <2>8. CASE DeleteRecords(s)
    <3>1. dns' = [dns EXCEPT ![r] = <<>>] /\ ~InPlace(r)
      BY <2>5, <2>8 DEF DeleteRecords, Acted, InPlace
    <3>2. Fits(r, <<>>) /\ Writable(r, <<>>, at'[s])
      BY <3>1 DEF Fits, Writable
    <3> QED
      BY <2>1, <2>8, <3>1, <3>2, CallServed DEF DeleteRecords
  <2>9. CASE WriteRecord(s)
    <3>1. dns' = [dns EXCEPT ![r] = Written(s, old)] /\ Serves(r, Written(s, old), Want(s))
      BY <2>6, <2>9 DEF WriteRecord, Acted
    <3>2. Fits(r, Written(s, old))
      BY <2>2, <3>1, ServesFits
    <3> QED
      BY <2>1, <2>9, <3>1, <3>2, CallServed DEF WriteRecord
  <2>10. CASE CallFails(s) \/ Hang(s)
    <3>1. PICK new : dns' = [dns EXCEPT ![r] = new] /\ Fits(r, new)
      <4>1. CASE dns' = dns
        BY <2>3, <2>4, <4>1
      <4>2. CASE dns' = Acted(s) /\ pc[s] = "list"
        BY <2>3, <2>4, <4>2 DEF Acted
      <4>3. CASE dns' = Acted(s) /\ pc[s] = "delete"
        <5>1. dns' = [dns EXCEPT ![r] = <<>>] /\ Fits(r, <<>>)
          BY <2>5, <4>3 DEF Acted, Fits, InPlace
        <5> QED
          BY <5>1
      <4>4. CASE dns' = Acted(s) /\ pc[s] = "write"
        <5>1. dns' = [dns EXCEPT ![r] = Written(s, old)] /\ Fits(r, Written(s, old))
          BY <2>2, <2>6, <4>4, ServesFits DEF Acted
        <5> QED
          BY <5>1
      <4> QED
        BY <2>1, <2>10, <4>1, <4>2, <4>3, <4>4 DEF CallFails, Hang
    <3>2. PICK p \in {"failed", "hung"} : pc' = [pc EXCEPT ![s] = p]
      BY <2>10 DEF CallFails, Hang
    <3>3. UNCHANGED <<given, state, val, rec>>
      BY <2>10 DEF CallFails, Hang
    <3> QED
      BY <2>1, <3>1, <3>2, <3>3, CallServed
  <2> QED
    BY <1>6, <2>7, <2>8, <2>9, <2>10
<1>7. ASSUME Restart PROVE UpsertInv' /\ ServedInv'
  BY <1>7 DEF Restart, SyncInv, UpsertInv, ServedInv, NoState, Fits, InPlace
<1>8. CASE UNCHANGED vars
  BY <1>8 DEF vars, SyncInv, UpsertInv, ServedInv, Want, Fits, Serves, Writable, InPlace
<1> QED
  BY <1>1, <1>2, <1>3, <1>4, <1>5, <1>6, <1>7, <1>8 DEF Next, SyncStep

\* As long as no two SyncZones overlap, a record stored as written or unchanged is served
\* with that value: alone, or beside as many others as its host came with at a provider that
\* updates in place. That holds whatever values hosts had, whatever calls failed, hung or
\* were applied unanswered and whenever the process restarted (syncRecord, Updater.Upsert).
THEOREM SyncedIsServedWithoutOverlap == Spec /\ []OneSyncAtATime => []SyncedMeansServed
<1>1. SyncInv => SyncedMeansServed
  BY DEF SyncInv, ServedInv, SyncedMeansServed, Serves, Served
<1> QED
  BY <1>1, SyncInit, SyncInvStep, PTL DEF Spec

\* With one goroutine that runs SyncZone nothing can overlap.
THEOREM SyncedIsServedByOneSyncer ==
    ASSUME NEW t, Syncer = {t}
    PROVE  Spec => []SyncedMeansServed
<1>1. OneSyncAtATime
  BY DEF OneSyncAtATime
<1> QED
  BY <1>1, SyncedIsServedWithoutOverlap, PTL
=============================================================================
