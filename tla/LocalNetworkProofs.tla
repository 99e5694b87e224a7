------------------------- MODULE LocalNetworkProofs -------------------------
(***************************************************************************)
(* Proofs about LocalNetwork, for any sensors, addresses, answers of the    *)
(* cloud and bounds.                                                        *)
(***************************************************************************)
EXTENDS LocalNetwork, FiniteSetTheorems, SequenceTheorems, TLAPS

\* The types the argument needs; the order of the table is not among them.
MapType ==
    /\ address \in [Hosts -> Addresses \union {NoAddress}]
    /\ ip \in [Sensors -> Addresses \union {NoAddress}]
    /\ unheard \subseteq Sensors
    /\ commands \in Seq(Commands)
    /\ sending \in [sensor : Sensors, to : Addresses, moved : BOOLEAN] \union {NoDelete}
    /\ sending # NoDelete => commands # <<>>

\* The inductive invariant.
IndInv == MapType /\ EntriesAreCurrent /\ DeleteIsAimed

LEMMA SensorsAreHosts == Sensors \subseteq Hosts
BY DEF Hosts

\* A command to delete names a sensor.
LEMMA DeleteNamesSensor ==
    ASSUME MapType, Current("delete") PROVE Head(commands).sensor \in Sensors
<1>1. Head(commands) \in Commands
  BY DEF MapType, Current
<1> QED
  BY <1>1 DEF Commands, Current

LEMMA TailType ==
    ASSUME MapType, commands # <<>> PROVE Tail(commands) \in Seq(Commands)
BY DEF MapType

LEMMA InitInv == Init => IndInv
<1> SUFFICES ASSUME Init PROVE IndInv
  OBVIOUS
<1>1. MapType
  BY LeasesAssumption DEF Init, MapType
<1>2. EntriesAreCurrent /\ DeleteIsAimed
  BY DEF Init, EntriesAreCurrent, DeleteIsAimed
<1> QED
  BY <1>1, <1>2 DEF IndInv

\* What a POST stores is where the sensor is; the other entries are not touched
\* or go.
LEMMA IngestStep ==
    ASSUME IndInv, NEW s \in Sensors, Ingest(s) PROVE IndInv'
<1> USE DEF IndInv
<1>1. address[s] \in Addresses
  BY SensorsAreHosts DEF MapType, Ingest
<1>2. /\ ip' \in [Sensors -> Addresses \union {NoAddress}]
      /\ \A r \in Sensors \ {s} : ip'[r] \in {ip[r], NoAddress}
      /\ ip'[s] = address[s]
  BY <1>1 DEF MapType, Ingest, Remember, Keep
<1>3. /\ UNCHANGED <<address, commands, sending>>
      /\ unheard' = unheard \ {s}
  BY DEF Ingest, lan, manager
<1>4. MapType'
  BY <1>2, <1>3 DEF MapType
<1>5. EntriesAreCurrent'
  BY <1>2, <1>3 DEF EntriesAreCurrent
<1>6. DeleteIsAimed'
  BY <1>3 DEF DeleteIsAimed
<1> QED
  BY <1>4, <1>5, <1>6

\* The manager reads an entry, or goes on to the next command.
LEMMA DeleteStep ==
    ASSUME IndInv, Delete PROVE IndInv'
<1> USE DEF IndInv
<1> DEFINE s == Head(commands).sensor
<1>1. s \in Sensors
  BY DeleteNamesSensor DEF Delete
<1>2. /\ sending' = [sensor |-> s, to |-> ip[s], moved |-> s \in unheard]
      /\ ip[s] # NoAddress
      /\ UNCHANGED <<address, ip, unheard, commands>>
      /\ commands # <<>>
  BY DEF Delete, Current, lan
<1>3. ip[s] \in Addresses /\ (s \in unheard) \in BOOLEAN
  BY <1>1, <1>2 DEF MapType
<1>4. MapType'
  BY <1>1, <1>2, <1>3 DEF MapType
<1>5. EntriesAreCurrent'
  BY <1>2 DEF EntriesAreCurrent
<1>6. s \notin unheard => ip[s] = address[s]
  BY <1>1, <1>2 DEF EntriesAreCurrent
<1>7. sending'.sensor = s /\ sending'.to = ip[s] /\ sending'.moved = (s \in unheard)
  BY <1>2
<1>8. DeleteIsAimed'
  BY <1>2, <1>6, <1>7 DEF DeleteIsAimed
<1> QED
  BY <1>4, <1>5, <1>8

\* A new lease makes the entry of its host, and a DELETE to it, suspect.
LEMMA LeaseStep ==
    ASSUME IndInv, NEW h \in Hosts, NEW a \in Addresses \union {NoAddress}, Lease(h, a)
    PROVE  IndInv'
<1> USE DEF IndInv
<1>1. /\ address' = [address EXCEPT ![h] = a]
      /\ unheard' = unheard \union ({h} \ {Gateway})
      /\ sending' = IF h = sending.sensor THEN [sending EXCEPT !.moved = TRUE] ELSE sending
      /\ UNCHANGED <<ip, commands>>
  BY DEF Lease, entries
<1>2. unheard' \subseteq Sensors
  BY <1>1 DEF MapType, Hosts
<1>3. \A s \in Sensors \ unheard' : s # h /\ s \notin unheard
  BY <1>1, HostsAssumption
<1>4. \A s \in Sensors : s # h => address'[s] = address[s]
  BY <1>1, SensorsAreHosts DEF MapType
<1>5. EntriesAreCurrent'
  BY <1>1, <1>3, <1>4 DEF EntriesAreCurrent
<1>6. CASE sending = NoDelete
  <2>1. sending.sensor = NoAddress
    BY <1>6 DEF NoDelete
  <2>2. sending' = NoDelete
    BY <1>1, <1>6, <2>1, AddressesAssumption
  <2> QED
    BY <1>1, <1>2, <1>5, <2>2 DEF MapType, DeleteIsAimed
<1>7. CASE sending # NoDelete
  <2>1. sending \in [sensor : Sensors, to : Addresses, moved : BOOLEAN]
    BY <1>7 DEF MapType
  <2>2. MapType'
    <3>1. sending' \in [sensor : Sensors, to : Addresses, moved : BOOLEAN]
      BY <1>1, <2>1
    <3>2. address' \in [Hosts -> Addresses \union {NoAddress}]
      BY <1>1 DEF MapType
    <3>3. commands' # <<>>
      BY <1>1, <1>7 DEF MapType
    <3> QED
      BY <1>1, <1>2, <3>1, <3>2, <3>3 DEF MapType
  <2>3. CASE h = sending.sensor
    <3>1. sending'.moved = TRUE
      BY <1>1, <2>1, <2>3
    <3> QED
      BY <1>5, <2>2, <3>1 DEF DeleteIsAimed
  <2>4. CASE h # sending.sensor
    BY <1>1, <1>4, <1>5, <1>7, <2>1, <2>2, <2>4 DEF DeleteIsAimed
  <2> QED
    BY <2>3, <2>4
<1> QED
  BY <1>6, <1>7

\* Every way in which the service ends empties the table and drops the request.
LEMMA EndStep ==
    ASSUME IndInv, End, UNCHANGED address PROVE IndInv'
<1>1. /\ ip' = [s \in Sensors |-> NoAddress]
      /\ commands' = <<>> /\ sending' = NoDelete /\ unheard' = Sensors
  BY DEF End
<1>2. MapType'
  BY <1>1 DEF IndInv, MapType
<1>3. EntriesAreCurrent' /\ DeleteIsAimed'
  BY <1>1 DEF EntriesAreCurrent, DeleteIsAimed
<1> QED
  BY <1>2, <1>3 DEF IndInv

\* The manager takes an answer, or is done with a command, or with a request.
LEMMA ManagerStep ==
    ASSUME IndInv, Poll \/ Ignore \/ Restart \/ Provision \/ DeleteUnknown \/ DeleteEnds
    PROVE  IndInv'
<1> USE DEF IndInv
<1>1. UNCHANGED <<address, ip, unheard>>
  BY DEF Poll, Ignore, Restart, Provision, DeleteUnknown, DeleteEnds, lan, entries
<1>2. commands' \in Seq(Commands)
  <2>1. CASE Poll
    BY <2>1, AnswersAssumption DEF Poll
  <2>2. CASE Ignore \/ Restart \/ Provision \/ DeleteUnknown
    <3>1. commands # <<>> /\ commands' \in {<<>>, Tail(commands)}
      BY <2>2 DEF Ignore, Restart, Provision, DeleteUnknown, Current
    <3>2. Tail(commands) \in Seq(Commands) /\ <<>> \in Seq(Commands)
      BY <3>1, TailType
    <3> QED
      BY <3>1, <3>2
  <2>3. CASE DeleteEnds
    BY <2>3 DEF DeleteEnds, MapType
  <2> QED
    BY <2>1, <2>2, <2>3
<1>3. sending' = NoDelete
  BY DEF Poll, Idle, Ignore, Restart, Provision, DeleteUnknown, DeleteEnds, Current
<1>4. MapType'
  BY <1>1, <1>2, <1>3 DEF MapType
<1>5. EntriesAreCurrent' /\ DeleteIsAimed'
  BY <1>1, <1>3 DEF EntriesAreCurrent, DeleteIsAimed
<1> QED
  BY <1>4, <1>5

LEMMA InvStep == IndInv /\ [Next]_vars => IndInv'
<1> SUFFICES ASSUME IndInv, [Next]_vars PROVE IndInv'
  OBVIOUS
<1>1. CASE UNCHANGED <<address, ip, unheard, commands, sending>>
  BY <1>1 DEF IndInv, MapType, EntriesAreCurrent, DeleteIsAimed
<1>2. CASE UNCHANGED vars
  BY <1>1, <1>2 DEF vars, lan, entries, manager
<1>3. CASE Start \/ \E s \in Sensors : Probe(s) \/ Forget(s)
  BY <1>1, <1>3 DEF Start, Probe, Forget, lan, entries, manager
<1>4. CASE Stop \/ Crash
  BY <1>4, EndStep DEF Stop, Crash, End, lan
<1>5. ASSUME NEW s \in Sensors, Ingest(s) PROVE IndInv'
  BY <1>5, IngestStep
<1>6. CASE Poll \/ Manage
  BY <1>6, ManagerStep, DeleteStep DEF Manage
<1>7. ASSUME NEW h \in Hosts, NEW a \in Addresses \union {NoAddress}, Lease(h, a)
      PROVE  IndInv'
  BY <1>7, LeaseStep
<1> QED
  BY <1>2, <1>3, <1>4, <1>5, <1>6, <1>7 DEF Next

\* A DELETE is addressed to where its sensor is, unless that sensor moved since
\* the gateway last heard it.  (remote_manager.py:116-121)
THEOREM DeleteIsAlwaysAimed == Spec => []DeleteIsAimed
<1>1. IndInv => DeleteIsAimed
  BY DEF IndInv
<1> QED
  BY <1>1, InitInv, InvStep, PTL DEF Spec

-----------------------------------------------------------------------------
(* The table.  Its order is that of use: behind a key stand exactly those   *)
(* used since it was.                                                       *)

Behind(seq, i) == {seq[j] : j \in (i + 1)..Len(seq)}

DistinctKeys(seq) == \A i, j \in DOMAIN seq : seq[i] = seq[j] => i = j

UsedSince == \A i \in DOMAIN table : used[table[i]] = Behind(table, i)

\* A key that was used and is not there any more has had to make room.
OthersFillTable ==
    \A s \in Sensors :
        s \notin used[s] /\ s \notin InTable => Cardinality(used[s]) >= MaxEntries

TableInv == TypeOK /\ DistinctKeys(table) /\ UsedSince /\ OthersFillTable

\* RemoveAt removes one element.
LEMMA RemoveAtWorks ==
    ASSUME NEW S, NEW seq \in Seq(S), NEW p \in 1..Len(seq)
    PROVE  /\ RemoveAt(seq, p) \in Seq(S)
           /\ Len(RemoveAt(seq, p)) = Len(seq) - 1
           /\ \A i \in 1..(Len(seq) - 1) :
                RemoveAt(seq, p)[i] = IF i < p THEN seq[i] ELSE seq[i + 1]
<1> DEFINE front == SubSeq(seq, 1, p - 1)
           back == SubSeq(seq, p + 1, Len(seq))
<1>1. /\ front \in Seq(S) /\ Len(front) = p - 1
      /\ \A i \in 1..(p - 1) : front[i] = seq[i]
  BY SubSeqProperties
<1>2. /\ back \in Seq(S) /\ Len(back) = Len(seq) - p
      /\ \A i \in 1..(Len(seq) - p) : back[i] = seq[p + i]
  BY SubSeqProperties
<1>3. RemoveAt(seq, p) = front \o back
  BY DEF RemoveAt
<1> HIDE DEF front, back
<1>4. /\ front \o back \in Seq(S)
      /\ Len(front \o back) = Len(front) + Len(back)
      /\ \A i \in 1..(Len(front) + Len(back)) :
           (front \o back)[i] = IF i <= Len(front) THEN front[i]
                                ELSE back[i - Len(front)]
  BY <1>1, <1>2, ConcatProperties
<1> QED
  BY <1>1, <1>2, <1>3, <1>4

\* A key moved to the end stands there, the others stay in their order.
LEMMA MovedToEndWorks ==
    ASSUME table \in Seq(Sensors), DistinctKeys(table), NEW s \in Sensors
    PROVE  LET order == MovedToEnd(s)
           IN /\ order \in Seq(Sensors) /\ order # <<>> /\ order[Len(order)] = s
              /\ Len(order) = IF s \in InTable THEN Len(table) ELSE Len(table) + 1
              /\ DistinctKeys(order)
              /\ \A i \in 1..(Len(order) - 1) :
                   /\ order[i] # s
                   /\ \E k \in DOMAIN table :
                        /\ table[k] = order[i]
                        /\ Behind(order, i) = Behind(table, k) \union {s}
              /\ {order[i] : i \in DOMAIN order} = InTable \union {s}
<1> DEFINE order == MovedToEnd(s)
           p == Place(s)
           n == Len(table)
<1>1. CASE s \notin InTable
  <2>1. order = Append(table, s)
    BY <1>1 DEF MovedToEnd
  <2>2. /\ order \in Seq(Sensors) /\ order # <<>> /\ Len(order) = n + 1
        /\ order[n + 1] = s /\ \A i \in 1..n : order[i] = table[i]
    BY <2>1, AppendProperties
  <2>3. \A i \in 1..n : order[i] # s
    BY <1>1, <2>2 DEF InTable
  <2>4. \A i \in 1..n : Behind(order, i) = Behind(table, i) \union {s}
    BY <2>2 DEF Behind
  <2>5. DistinctKeys(order)
    BY <2>2, <2>3 DEF DistinctKeys
  <2>6. {order[i] : i \in DOMAIN order} = InTable \union {s}
    BY <2>2 DEF InTable
  <2> QED
    BY <1>1, <2>2, <2>3, <2>4, <2>5, <2>6
<1>2. CASE s \in InTable
  <2>1. p \in 1..n /\ table[p] = s
    BY <1>2 DEF Place, InTable
  <2> DEFINE rest == RemoveAt(table, p)
  <2>2. order = Append(rest, s)
    BY <1>2 DEF MovedToEnd
  <2>3. /\ rest \in Seq(Sensors) /\ Len(rest) = n - 1
        /\ \A i \in 1..(n - 1) : rest[i] = IF i < p THEN table[i] ELSE table[i + 1]
    BY <2>1, RemoveAtWorks
  <2> HIDE DEF rest, p, order
  <2>4. n \in Nat /\ n >= 1
    BY <2>1
  <2>5. /\ order \in Seq(Sensors) /\ order # <<>> /\ Len(order) = n
        /\ order[n] = s
        /\ \A i \in 1..(n - 1) :
             order[i] = IF i < p THEN table[i] ELSE table[i + 1]
    BY <2>2, <2>3, <2>4, AppendProperties
  <2>6. \A i \in 1..(n - 1) : order[i] # s
    BY <2>1, <2>5 DEF DistinctKeys
  <2>7. DistinctKeys(order)
    BY <2>1, <2>4, <2>5, <2>6 DEF DistinctKeys
  <2>8. ASSUME NEW i \in 1..(n - 1)
        PROVE  \E k \in DOMAIN table :
                 /\ table[k] = order[i]
                 /\ Behind(order, i) = Behind(table, k) \union {s}
    <3> DEFINE k == IF i < p THEN i ELSE i + 1
    <3>1. k \in 1..n /\ table[k] = order[i]
      BY <2>1, <2>4, <2>5
    <3>2. ASSUME NEW x \in Behind(order, i) PROVE x \in Behind(table, k) \union {s}
      <4>1. PICK j \in (i + 1)..n : x = order[j]
        BY <2>5 DEF Behind
      <4>2. CASE j = n
        BY <2>5, <4>1, <4>2
      <4>3. CASE j # n /\ j < p
        <5>1. x = table[j] /\ j \in (k + 1)..n
          BY <2>1, <2>4, <2>5, <4>1, <4>3
        <5> QED
          BY <5>1 DEF Behind
      <4>4. CASE j # n /\ j >= p
        <5>1. x = table[j + 1] /\ j + 1 \in (k + 1)..n
          BY <2>1, <2>4, <2>5, <4>1, <4>4
        <5> QED
          BY <5>1 DEF Behind
      <4> QED
        BY <2>1, <4>1, <4>2, <4>3, <4>4
    <3>3. ASSUME NEW x \in Behind(table, k) PROVE x \in Behind(order, i) \union {s}
      <4>1. PICK j \in (k + 1)..n : x = table[j]
        BY DEF Behind
      <4>2. CASE j = p
        BY <2>1, <4>1, <4>2
      <4>3. CASE j < p
        <5>1. x = order[j] /\ j \in (i + 1)..n
          BY <2>1, <2>4, <2>5, <4>1, <4>3
        <5> QED
          BY <2>5, <5>1 DEF Behind
      <4>4. CASE j > p
        <5>1. x = order[j - 1] /\ j - 1 \in (i + 1)..n
          BY <2>1, <2>4, <2>5, <4>1, <4>4
        <5> QED
          BY <2>5, <5>1 DEF Behind
      <4> QED
        BY <2>1, <4>1, <4>2, <4>3, <4>4
    <3>4. s \in Behind(order, i)
      BY <2>4, <2>5 DEF Behind
    <3> QED
      BY <3>1, <3>2, <3>3, <3>4
  <2>9. {order[i] : i \in DOMAIN order} = InTable \union {s}
    <3>1. ASSUME NEW i \in 1..n PROVE order[i] \in InTable
      BY <1>2, <2>4, <2>5 DEF InTable
    <3>2. ASSUME NEW i \in 1..n PROVE \E j \in 1..n : order[j] = table[i]
      <4>1. CASE i = p
        BY <2>1, <2>4, <2>5, <4>1
      <4>2. CASE i < p
        BY <2>1, <2>4, <2>5, <4>2
      <4>3. CASE i > p
        <5>1. i - 1 \in 1..(n - 1) /\ ~(i - 1 < p) /\ (i - 1) + 1 = i
          BY <2>1, <2>4, <4>3
        <5>2. order[i - 1] = table[i]
          BY <2>5, <5>1
        <5> QED
          BY <5>1, <5>2
      <4> QED
        BY <2>1, <4>1, <4>2, <4>3
    <3>3. DOMAIN order = 1..n /\ DOMAIN table = 1..n
      BY <2>5
    <3> QED
      BY <1>2, <3>1, <3>2, <3>3 DEF InTable
  <2> QED
    BY <1>2, <2>4, <2>5, <2>6, <2>7, <2>8, <2>9 DEF order
<1> QED
  BY <1>1, <1>2

\* As many keys stand behind the first as there are others.
LEMMA BehindFirst ==
    ASSUME NEW seq \in Seq(Sensors), seq # <<>>, DistinctKeys(seq)
    PROVE  /\ Behind(seq, 1) \subseteq Sensors
           /\ Cardinality(Behind(seq, 1)) >= Len(seq) - 1
<1> DEFINE n == Len(seq) - 1
           B == Behind(seq, 1)
           f == [j \in 1..n |-> seq[j + 1]]
<1>1. n \in Nat /\ \A j \in 1..n : j + 1 \in 2..Len(seq) /\ j + 1 \in DOMAIN seq
  OBVIOUS
<1>2. B \subseteq Sensors
  BY DEF Behind
<1>3. IsFiniteSet(B)
  BY <1>2, HostsAssumption, FS_Subset
<1>4. f \in [1..n -> B]
  BY <1>1 DEF Behind
<1>5. \A i, j \in 1..n : f[i] = f[j] => i = j
  BY <1>1 DEF DistinctKeys
<1>6. f \in Injection(1..n, B)
  BY <1>4, <1>5 DEF Injection, IsInjective
<1>7. Cardinality(1..n) <= Cardinality(B)
  BY <1>3, <1>6, FS_Injection
<1>8. Cardinality(1..n) = n
  BY <1>1, FS_Interval
<1> QED
  BY <1>2, <1>7, <1>8

\* What Use does to those who are not used themselves.
LEMMA UseGrows ==
    ASSUME TypeOK, NEW s \in Sensors, Use(s)
    PROVE  /\ used' \in [Sensors -> SUBSET Sensors]
           /\ used'[s] = {}
           /\ \A r \in Sensors : r # s => used'[r] = used[r] \union {s}
           /\ \A r \in Sensors : r # s =>
                /\ Cardinality(used[r]) \in Nat /\ Cardinality(used'[r]) \in Nat
                /\ Cardinality(used[r]) <= Cardinality(used'[r])
<1>1. /\ used' \in [Sensors -> SUBSET Sensors]
      /\ used'[s] = {}
      /\ \A r \in Sensors : r # s => used'[r] = used[r] \union {s}
  BY DEF TypeOK, Use
<1>2. ASSUME NEW r \in Sensors, r # s
      PROVE  /\ Cardinality(used[r]) \in Nat /\ Cardinality(used'[r]) \in Nat
             /\ Cardinality(used[r]) <= Cardinality(used'[r])
  <2>1. used'[r] \in SUBSET Sensors /\ used[r] \in SUBSET used'[r]
    BY <1>1, <1>2
  <2>2. IsFiniteSet(used'[r])
    BY <2>1, HostsAssumption, FS_Subset
  <2> QED
    BY <2>1, <2>2, FS_Subset, FS_CardinalityType
<1> QED
  BY <1>1, <1>2

\* The table after a use of s, as long as nothing has to make room.
LEMMA OrderAfterUse ==
    ASSUME TableInv, NEW s \in Sensors, Use(s),
           NEW i \in 1..(Len(MovedToEnd(s)) - 1)
    PROVE  used'[MovedToEnd(s)[i]] = Behind(MovedToEnd(s), i)
<1> DEFINE order == MovedToEnd(s)
<1> USE DEF TableInv, TypeOK
<1>1. order[i] # s
  BY MovedToEndWorks
<1>2. PICK k \in DOMAIN table :
        table[k] = order[i] /\ Behind(order, i) = Behind(table, k) \union {s}
  BY MovedToEndWorks
<1> HIDE DEF order
<1>3. table[k] \in Sensors /\ used[table[k]] = Behind(table, k)
  BY DEF UsedSince
<1> QED
  BY <1>1, <1>2, <1>3, UseGrows DEF order

\* An entry is set.
LEMMA KeepStep ==
    ASSUME TableInv, NEW s \in Sensors, NEW a \in Addresses, Remember(s, a)
    PROVE  /\ table' \in Seq(Sensors) /\ Len(table') <= MaxEntries
           /\ ip' \in [Sensors -> Addresses \union {NoAddress}]
           /\ \A r \in Sensors : r \in InTable' <=> ip'[r] # NoAddress
           /\ used' \in [Sensors -> SUBSET Sensors]
           /\ DistinctKeys(table') /\ UsedSince' /\ OthersFillTable'
<1> DEFINE order == MovedToEnd(s)
           n == Len(order)
           gone == IF n > MaxEntries THEN {Head(order)} ELSE {}
<1> USE DEF TableInv
<1>1. /\ table' = IF gone = {} THEN order ELSE Tail(order)
      /\ ip' = [r \in Sensors |-> IF r = s THEN a
                                  ELSE IF r \in gone THEN NoAddress ELSE ip[r]]
      /\ Use(s)
  BY DEF Remember, Keep
<1>2. /\ order \in Seq(Sensors) /\ order # <<>> /\ order[n] = s
      /\ n = IF s \in InTable THEN Len(table) ELSE Len(table) + 1
      /\ DistinctKeys(order)
      /\ \A i \in 1..(n - 1) : order[i] # s
      /\ {order[i] : i \in DOMAIN order} = InTable \union {s}
  BY MovedToEndWorks DEF TypeOK
<1>3. \A i \in 1..(n - 1) : used'[order[i]] = Behind(order, i)
  BY <1>1, OrderAfterUse
<1>4. Behind(order, n) = {}
  BY <1>2 DEF Behind
<1>5. /\ MaxEntries \in Nat \ {0} /\ n \in Nat /\ n >= 1 /\ n <= MaxEntries + 1
      /\ a # NoAddress
  BY <1>2, BoundsAssumption, AddressesAssumption DEF TypeOK
<1>6. /\ used' \in [Sensors -> SUBSET Sensors] /\ used'[s] = {}
      /\ \A r \in Sensors : r # s => used'[r] = used[r] \union {s}
  BY <1>1, UseGrows
<1>7. ip' \in [Sensors -> Addresses \union {NoAddress}]
  BY <1>1 DEF TypeOK
<1> HIDE DEF order
<1>8. CASE n <= MaxEntries
  <2>1. table' = order /\ gone = {}
    BY <1>1, <1>5, <1>8
  <2>2. InTable' = InTable \union {s}
    BY <1>2, <2>1 DEF InTable
  <2>3. \A r \in Sensors : r \in InTable' <=> ip'[r] # NoAddress
    BY <1>1, <1>5, <2>1, <2>2 DEF TypeOK
  <2>4. ASSUME NEW i \in DOMAIN order PROVE used'[order[i]] = Behind(order, i)
    <3>1. CASE i = n
      BY <1>2, <1>4, <1>6, <3>1
    <3>2. CASE i # n
      BY <1>2, <1>3, <1>5, <3>2
    <3> QED
      BY <3>1, <3>2
  <2>5. OthersFillTable'
    <3> SUFFICES ASSUME NEW r \in Sensors, r \notin used'[r], r \notin InTable'
                 PROVE  Cardinality(used'[r]) >= MaxEntries
      BY BoundsAssumption DEF OthersFillTable
    <3>1. r # s /\ r \notin used[r] /\ r \notin InTable
      BY <1>6, <2>2
    <3>2. Cardinality(used[r]) >= MaxEntries
      BY <3>1 DEF OthersFillTable
    <3> QED
      BY <1>1, <1>5, <3>1, <3>2, UseGrows
  <2> QED
    BY <1>2, <1>6, <1>7, <1>8, <2>1, <2>3, <2>4, <2>5 DEF UsedSince
<1>9. CASE n > MaxEntries
  <2> DEFINE first == order[1]
  <2>1. n = MaxEntries + 1 /\ n >= 2
    BY <1>5, <1>9
  <2>2. gone = {first} /\ table' = Tail(order)
    BY <1>1, <1>2, <1>9
  <2>3. /\ table' \in Seq(Sensors) /\ Len(table') = n - 1
        /\ \A i \in 1..(n - 1) : table'[i] = order[i + 1]
    BY <1>2, <2>2, HeadTailProperties
  <2>4. first \in Sensors /\ first # s
    BY <1>2, <2>1
  <2>5. InTable' = (InTable \union {s}) \ {first}
    <3>1. DOMAIN table' = 1..(n - 1) /\ DOMAIN order = 1..n
      BY <1>2, <2>3
    <3>2. InTable' = {order[i] : i \in 2..n}
      <4>1. \A i \in 2..n : i - 1 \in 1..(n - 1) /\ order[i] = table'[i - 1]
        BY <1>5, <2>3
      <4>2. \A i \in 1..(n - 1) : i + 1 \in 2..n /\ table'[i] = order[i + 1]
        BY <1>5, <2>3
      <4>3. InTable' = {table'[i] : i \in 1..(n - 1)}
        BY <3>1 DEF InTable
      <4> QED
        BY <4>1, <4>2, <4>3
    <3>3. \A i \in 2..n : order[i] # first
      BY <1>2, <1>5, <3>1 DEF DistinctKeys
    <3>4. \A i \in 1..n : i \in 2..n \/ i = 1
      BY <1>5
    <3> QED
      BY <1>2, <3>1, <3>2, <3>3, <3>4
  <2>6. \A r \in Sensors : r \in InTable' <=> ip'[r] # NoAddress
    BY <1>1, <1>5, <2>2, <2>4, <2>5 DEF TypeOK
  <2>7. DistinctKeys(table')
    BY <1>2, <2>3 DEF DistinctKeys
  <2>8. \A i \in 1..(n - 1) : Behind(table', i) = Behind(order, i + 1)
    <3> SUFFICES ASSUME NEW i \in 1..(n - 1)
                 PROVE  Behind(table', i) = Behind(order, i + 1)
      OBVIOUS
    <3>1. \A j \in (i + 1)..(n - 1) : j + 1 \in (i + 2)..n /\ table'[j] = order[j + 1]
      BY <1>5, <2>3
    <3>2. \A j \in (i + 2)..n :
            j - 1 \in (i + 1)..(n - 1) /\ table'[j - 1] = order[j]
      BY <1>5, <2>3
    <3>3. i + 1 + 1 = i + 2
      OBVIOUS
    <3> QED
      BY <2>3, <3>1, <3>2, <3>3 DEF Behind
  <2>9. UsedSince'
    <3> SUFFICES ASSUME NEW i \in 1..(n - 1)
                 PROVE  used'[table'[i]] = Behind(table', i)
      BY <2>3 DEF UsedSince
    <3>1. CASE i + 1 = n
      BY <1>2, <1>4, <1>6, <2>3, <2>8, <3>1
    <3>2. CASE i + 1 # n
      <4>1. i + 1 \in 1..(n - 1)
        BY <1>5, <3>2
      <4> QED
        BY <1>3, <2>3, <2>8, <4>1
    <3> QED
      BY <3>1, <3>2
  <2>10. OthersFillTable'
    <3> SUFFICES ASSUME NEW r \in Sensors, r \notin used'[r], r \notin InTable'
                 PROVE  Cardinality(used'[r]) >= MaxEntries
      BY BoundsAssumption DEF OthersFillTable
    <3>1. CASE r = first
      <4>1. used'[first] = Behind(order, 1)
        BY <1>3, <2>1
      <4>2. Cardinality(Behind(order, 1)) >= n - 1
        BY <1>2, BehindFirst
      <4> QED
        BY <1>5, <2>1, <3>1, <4>1, <4>2
    <3>2. CASE r # first
      <4>1. r # s /\ r \notin used[r] /\ r \notin InTable
        BY <1>6, <2>4, <2>5, <3>2
      <4>2. Cardinality(used[r]) >= MaxEntries
        BY <4>1 DEF OthersFillTable
      <4> QED
        BY <1>1, <1>5, <4>1, <4>2, UseGrows
    <3> QED
      BY <3>1, <3>2
  <2> QED
    BY <1>5, <1>6, <1>7, <2>1, <2>3, <2>6, <2>7, <2>9, <2>10
<1> QED
  BY <1>5, <1>8, <1>9

\* An entry is read.
LEMMA LookupStep ==
    ASSUME TableInv, NEW s \in Sensors, s \in InTable,
           table' = MovedToEnd(s), ip' = ip, Use(s)
    PROVE  /\ table' \in Seq(Sensors) /\ Len(table') <= MaxEntries
           /\ InTable' = InTable
           /\ used' \in [Sensors -> SUBSET Sensors]
           /\ DistinctKeys(table') /\ UsedSince' /\ OthersFillTable'
<1> DEFINE order == MovedToEnd(s)
           n == Len(order)
<1> USE DEF TableInv
<1>0. /\ order \in Seq(Sensors) /\ order # <<>> /\ order[n] = s
      /\ n = Len(table) /\ DistinctKeys(order)
      /\ \A i \in 1..(n - 1) : order[i] # s
      /\ {order[i] : i \in DOMAIN order} = InTable \union {s}
  BY MovedToEndWorks DEF TypeOK
<1>1. /\ order \in Seq(Sensors) /\ order # <<>> /\ order[n] = s
      /\ n = Len(table) /\ DistinctKeys(order)
      /\ \A i \in 1..(n - 1) : order[i] # s
      /\ {order[i] : i \in DOMAIN order} = InTable
  <2>1. InTable \union {s} = InTable
    OBVIOUS
  <2> QED
    BY <1>0, <2>1
<1>2. \A i \in 1..(n - 1) : used'[order[i]] = Behind(order, i)
  BY OrderAfterUse
<1>3. /\ used' \in [Sensors -> SUBSET Sensors] /\ used'[s] = {}
      /\ \A r \in Sensors : r # s => used'[r] = used[r] \union {s}
  BY UseGrows
<1>4. MaxEntries \in Nat \ {0} /\ n \in Nat /\ n >= 1 /\ n <= MaxEntries
  BY <1>1, BoundsAssumption DEF TypeOK
<1>5. table' = order
  OBVIOUS
<1> HIDE DEF order
<1>6. InTable' = InTable
  BY <1>1, <1>5 DEF InTable
<1>7. UsedSince'
  <2> SUFFICES ASSUME NEW i \in 1..n PROVE used'[order[i]] = Behind(order, i)
    BY <1>1, <1>5 DEF UsedSince
  <2>1. CASE i = n
    BY <1>1, <1>3, <1>4, <2>1 DEF Behind
  <2>2. CASE i # n
    BY <1>2, <1>4, <2>2
  <2> QED
    BY <2>1, <2>2
<1>8. OthersFillTable'
  <2> SUFFICES ASSUME NEW r \in Sensors, r \notin used'[r], r \notin InTable'
               PROVE  Cardinality(used'[r]) >= MaxEntries
    BY BoundsAssumption DEF OthersFillTable
  <2>1. r # s /\ r \notin used[r] /\ r \notin InTable
    BY <1>3, <1>6
  <2>2. Cardinality(used[r]) >= MaxEntries
    BY <2>1 DEF OthersFillTable
  <2> QED
    BY <1>4, <2>1, <2>2, UseGrows
<1> QED
  BY <1>1, <1>3, <1>4, <1>5, <1>6, <1>7, <1>8

LEMMA InitTable == Init => TableInv
<1> SUFFICES ASSUME Init PROVE TableInv
  OBVIOUS
<1>1. TypeOK
  BY LeasesAssumption, BoundsAssumption DEF Init, TypeOK, InTable
<1>2. DistinctKeys(table) /\ UsedSince /\ OthersFillTable
  BY DEF Init, DistinctKeys, UsedSince, OthersFillTable
<1> QED
  BY <1>1, <1>2 DEF TableInv

\* The part of TypeOK that is neither MapType nor about the table.
OtherTypes ==
    /\ Distinct(address)
    /\ service \in {"up", "stopping", "down"}
    /\ answered \in Addresses \union {NoAddress, Fallback}
    /\ sendsTo \in [Sensors -> Addresses \union {NoAddress, Fallback}]
    /\ tried \subseteq Sensors
    /\ moves \in 0..MaxMoves /\ answers \in 0..MaxAnswers /\ stops \in 0..MaxStops

LEMMA OtherTypesStep == ASSUME TypeOK, MapType, Next PROVE OtherTypes'
<1> USE BoundsAssumption DEF OtherTypes, TypeOK, lan, manager, entries
<1>1. CASE Start
  <2>1. address[Gateway] \in Addresses \union {NoAddress}
    BY DEF Hosts
  <2> QED
    BY <1>1, <2>1 DEF Start, Distinct
<1>2. CASE Stop \/ Crash
  BY <1>2 DEF Stop, Crash, End, Distinct
<1>3. ASSUME NEW s \in Sensors, Ingest(s) \/ Probe(s) \/ Forget(s) PROVE OtherTypes'
  BY <1>3 DEF Ingest, Probe, Forget, Distinct
<1>4. CASE Poll
  BY <1>4 DEF Poll, Distinct
<1>5. CASE Ignore \/ Restart \/ Provision \/ DeleteEnds
  BY <1>5 DEF Ignore, Restart, Provision, DeleteEnds, Distinct
<1>6. CASE DeleteUnknown \/ Delete
  <2>1. Head(commands).sensor \in Sensors
    BY <1>6, DeleteNamesSensor DEF DeleteUnknown, Delete
  <2> QED
    BY <1>6, <2>1 DEF DeleteUnknown, Delete, Distinct
<1>7. ASSUME NEW h \in Hosts, NEW a \in Addresses \union {NoAddress}, Lease(h, a)
      PROVE  OtherTypes'
  <2>1. Distinct(address')
    BY <1>7 DEF Lease
  <2>2. Distinct(address)'
    BY <2>1 DEF Distinct
  <2> QED
    BY <1>7, <2>2 DEF Lease
<1> QED
  BY <1>1, <1>2, <1>3, <1>4, <1>5, <1>6, <1>7 DEF Next, Manage

LEMMA TableStep == ASSUME IndInv, IndInv', TableInv, Next PROVE TableInv'
<1>1. MapType /\ MapType' /\ TypeOK
  BY DEF IndInv, TableInv
<1>2. OtherTypes'
  BY <1>1, OtherTypesStep
<1> DEFINE TableOK == /\ table \in Seq(Sensors) /\ Len(table) <= MaxEntries
                      /\ \A s \in Sensors : s \in InTable <=> ip[s] # NoAddress
                      /\ used \in [Sensors -> SUBSET Sensors]
                      /\ DistinctKeys(table) /\ UsedSince /\ OthersFillTable
<1>3. ASSUME TableOK' PROVE TableInv'
  BY <1>1, <1>2, <1>3 DEF TableInv, TypeOK, MapType, OtherTypes, Distinct
<1>4. TableOK
  BY DEF TableInv, TypeOK
<1>5. CASE UNCHANGED entries
  BY <1>3, <1>4, <1>5
     DEF entries, InTable, UsedSince, OthersFillTable, Behind
<1>6. CASE Stop \/ Crash
  <2>1. /\ table' = <<>> /\ ip' = [s \in Sensors |-> NoAddress]
        /\ used' = [s \in Sensors |-> {s}]
    BY <1>6 DEF Stop, Crash, End
  <2>2. InTable' = {}
    BY <2>1 DEF InTable
  <2>3. DistinctKeys(table') /\ UsedSince' /\ OthersFillTable'
    BY <2>1 DEF DistinctKeys, UsedSince, OthersFillTable
  <2> QED
    BY <1>3, <2>1, <2>2, <2>3, BoundsAssumption
<1>7. ASSUME NEW s \in Sensors, Ingest(s) PROVE TableInv'
  <2>1. address[s] \in Addresses /\ Remember(s, address[s])
    BY <1>1, <1>7, SensorsAreHosts DEF Ingest, MapType
  <2> QED
    BY <1>3, <2>1, KeepStep
<1>8. CASE Delete
  <2> DEFINE s == Head(commands).sensor
  <2>1. s \in Sensors
    BY <1>1, <1>8, DeleteNamesSensor DEF Delete
  <2>2. s \in InTable /\ table' = MovedToEnd(s) /\ ip' = ip /\ Use(s)
    BY <1>4, <1>8, <2>1 DEF Delete
  <2> HIDE DEF s
  <2> QED
    BY <1>3, <1>4, <2>1, <2>2, LookupStep
<1>9. CASE \/ Start \/ Poll \/ Ignore \/ Restart \/ Provision \/ DeleteUnknown \/ DeleteEnds
           \/ \E s \in Sensors : Probe(s) \/ Forget(s)
           \/ \E h \in Hosts, a \in Addresses \union {NoAddress} : Lease(h, a)
  <2>1. UNCHANGED entries
    BY <1>9 DEF Start, Poll, Ignore, Restart, Provision, DeleteUnknown, DeleteEnds,
                Probe, Forget, Lease
  <2> QED
    BY <1>5, <2>1
<1> QED
  BY <1>6, <1>7, <1>8, <1>9 DEF Next, Manage

LEMMA TableInvHolds == Spec => []TableInv
<1>1. IndInv /\ IndInv' /\ TableInv /\ [Next]_vars => TableInv'
  <2>1. TableInv /\ UNCHANGED vars => TableInv'
    BY DEF TableInv, vars, lan, entries, manager, TypeOK, Distinct, InTable, UsedSince,
           OthersFillTable, Behind
  <2> QED
    BY <2>1, TableStep
<1> QED
  BY <1>1, InitInv, InvStep, InitTable, PTL DEF Spec

\* Addresses, table, commands and history are of their types; the table has its
\* bound, and an address for each of its keys.
THEOREM TypeCorrect == Spec => []TypeOK
<1>1. TableInv => TypeOK
  BY DEF TableInv
<1> QED
  BY <1>1, TableInvHolds, PTL

\* A sensor stays known until as many others as the table holds were used since
\* it was.  (ingest_api.py:44-49, 56-60)
THEOREM RecentIsAlwaysKnown == Spec => []RecentIsKnown
<1>1. TableInv => RecentIsKnown
  <2> SUFFICES ASSUME TableInv, NEW s \in Sensors, s \notin used[s],
                      Cardinality(used[s]) < MaxEntries
               PROVE  s \in InTable
    BY DEF RecentIsKnown
  <2>1. used[s] \in SUBSET Sensors
    BY DEF TableInv, TypeOK
  <2>2. Cardinality(used[s]) \in Nat
    BY <2>1, HostsAssumption, FS_Subset, FS_CardinalityType
  <2> QED
    BY <2>2, BoundsAssumption DEF TableInv, OthersFillTable
<1> QED
  BY <1>1, TableInvHolds, PTL
=============================================================================
