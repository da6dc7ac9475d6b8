-------------------------- MODULE PortRightsProofs --------------------------
(***************************************************************************)
(* Rights, references and notifications, for any numbers of ports, spaces  *)
(* and names, any limit of user references and any bounds.                 *)
(***************************************************************************)
EXTENDS PortRights, FiniteSetTheorems, TLAPS

-----------------------------------------------------------------------------
(* The inductive invariant.                                                *)

Bit(b) == IF b THEN 1 ELSE 0

Has(e, p, right) == e.port = p /\ right \in e.type

Pointers(p) == {slot \in Slots : entry[slot].port = p}

\* The calls under way that have copied in such a right.
Claims(p, right) ==
  {s \in Spaces : busy[s] # None /\ busy[s].port = p /\ busy[s].right = right}

\* The counts of a live port, and the references of any port.
CountsOK(p) ==
  /\ port[p].active =>
       /\ port[p].srights = Cardinality(With(p, "send")) + naked[p].send + stray[p]
       /\ port[p].sorights = Cardinality(With(p, "once")) + naked[p].once + naked[p].dest
  /\ port[p].refs = Cardinality(Pointers(p)) + naked[p].send + naked[p].once
                    + naked[p].dest + naked[p].receive + Bit(port[p].dying)

\* A port lives as long as its receive right, which it knows the place of.
ReceiverOK(p) ==
  /\ port[p].active <=> port[p].receiver # None \/ naked[p].receive = 1
  /\ port[p].receiver # None => naked[p].receive = 0
  /\ port[p].dying => ~port[p].active
  /\ \A slot \in Slots : Has(entry[slot], p, "receive") <=> port[p].receiver = slot

\* What a call under way has copied in is still there.
ClaimsOK(p) ==
  /\ Cardinality(Claims(p, "send")) <= naked[p].send
  /\ Cardinality(Claims(p, "once")) <= naked[p].once

\* No-senders requests and notifications.  (srights, unlike the number of
\* senders, is what the code looks at.)
NoSendersOK(p) ==
  /\ \A k \in nosenders[p] : k <= port[p].mscount
  /\ port[p].active /\ port[p].mscount \in nosenders[p] => port[p].srights = 0
  /\ port[p].active /\ port[p].ns /\ p \notin early => port[p].srights > 0

PortOK(p) == CountsOK(p) /\ ReceiverOK(p) /\ ClaimsOK(p) /\ NoSendersOK(p)

\* The user references of a name; a request that the entry knows of is in the
\* port's table as long as the port lives.
SlotOK(slot) ==
  /\ IsFiniteSet(Requests(slot))
  /\ slot[1] \in alive =>
       entry[slot].urefs + Bit(entry[slot].request) = held[slot] + deaths[slot] + Owed(slot)
  /\ entry[slot].request /\ port[entry[slot].port].active =>
       dnrequests[entry[slot].port][slot] > 0

\* The entry whose right a call has copied in is as the call left it, and there
\* is room to give back what was taken.
BusyOK(s) ==
  busy[s] # None =>
    /\ s \in alive /\ busy[s].slot[1] = s
    /\ busy[s].soright => entry[busy[s].slot].type = {}
    /\ IF entry[busy[s].slot].type = {} THEN busy[s].back = 1
       ELSE /\ entry[busy[s].slot].port = busy[s].port
            /\ entry[busy[s].slot].urefs + busy[s].back < UrefsMax

\* A space has one entry for the send and receive rights of a port.
Unique ==
  \A x, y \in Slots :
    /\ x[1] = y[1] /\ entry[x].port = entry[y].port
    /\ entry[x].type \cap {"send", "receive"} # {}
    /\ entry[y].type \cap {"send", "receive"} # {}
    => x = y

RightsInv ==
  /\ TypeOK /\ Unique
  /\ \A p \in Ports : PortOK(p)
  /\ \A slot \in Slots : SlotOK(slot)
  /\ \A s \in Spaces : BusyOK(s)

-----------------------------------------------------------------------------
(* Entries.                                                                *)

LEMMA TypeFacts ==
  ASSUME NEW T \in Types
  PROVE  /\ "send" \in T => T = {"send"} \/ T = {"send", "receive"}
         /\ "receive" \in T => T = {"receive"} \/ T = {"send", "receive"}
         /\ "once" \in T => T = {"once"}
         /\ "dead" \in T => T = {"dead"}
         /\ "send" \notin T /\ "receive" \notin T /\ "once" \notin T /\ "dead" \notin T
              => T = {}
         /\ T \cap {"send", "receive"} # {} <=> "send" \in T \/ "receive" \in T
BY DEF Types

LEMMA EntryFacts ==
  ASSUME NEW e \in Entries
  PROVE  /\ e = [port |-> e.port, type |-> e.type, urefs |-> e.urefs, request |-> e.request]
         /\ e.port \in Ports \cup {None} /\ e.type \in Types
         /\ e.urefs \in Nat /\ e.urefs <= UrefsMax /\ e.request \in BOOLEAN
         /\ e.port = None <=> e.type = {} \/ e.type = {"dead"}
         /\ e.urefs = 0 <=> e.type = {} \/ e.type = {"receive"}
         /\ e.type = {"once"} => e.urefs = 1
         /\ e.urefs = UrefsMax => e.type = {"dead"}
         /\ e.request => e.port # None
BY PortRightsAssumption DEF Entries

LEMMA MakeEntry ==
  ASSUME NEW p \in Ports \cup {None}, NEW T \in Types, NEW n \in 0 .. UrefsMax,
         NEW b \in BOOLEAN,
         p = None <=> T = {} \/ T = {"dead"},
         n = 0 <=> T = {} \/ T = {"receive"},
         T = {"once"} => n = 1,
         n = UrefsMax => T = {"dead"},
         b => p # None
  PROVE  [port |-> p, type |-> T, urefs |-> n, request |-> b] \in Entries
BY DEF Entries

LEMMA EmptyEntry ==
  /\ Empty \in Entries
  /\ \A e \in Entries : e = Empty <=> e.type = {}
<1>1. Empty \in Entries
  BY PortRightsAssumption DEF Entries, Empty, Types
<1>2. ASSUME NEW e \in Entries, e.type = {} PROVE e = Empty
  <2>1. /\ e = [port |-> e.port, type |-> e.type, urefs |-> e.urefs, request |-> e.request]
        /\ e.port = None /\ e.urefs = 0 /\ e.request = FALSE
    BY <1>2, EntryFacts
  <2> QED
    BY <1>2, <2>1 DEF Empty
<1> QED
  BY <1>1, <1>2 DEF Empty

-----------------------------------------------------------------------------
(* Counting.                                                               *)

\* Two sets that differ in x at most.
LEMMA CountChange ==
  ASSUME NEW A, NEW B, NEW x, IsFiniteSet(A), A \ {x} = B \ {x}
  PROVE  /\ IsFiniteSet(B)
         /\ Cardinality(A) \in Nat /\ Cardinality(B) \in Nat
         /\ Cardinality(B) = Cardinality(A) + Bit(x \in B) - Bit(x \in A)
<1> DEFINE C == A \ {x}
<1>1. /\ IsFiniteSet(C) /\ x \notin C
      /\ Cardinality(C) = IF x \in A THEN Cardinality(A) - 1 ELSE Cardinality(A)
  BY FS_RemoveElement
<1>2. B = IF x \in B THEN C \cup {x} ELSE C
  OBVIOUS
<1>3. /\ IsFiniteSet(C \cup {x}) /\ Cardinality(C \cup {x}) = Cardinality(C) + 1
  BY <1>1, FS_AddElement
<1>4. Cardinality(A) \in Nat /\ Cardinality(C) \in Nat
  BY <1>1, FS_CardinalityType
<1> HIDE DEF C
<1>5. CASE x \in B
  <2>1. B = C \cup {x}
    BY <1>2, <1>5
  <2> QED
    BY <1>1, <1>3, <1>4, <1>5, <2>1 DEF Bit
<1>6. CASE x \notin B
  <2>1. B = C
    BY <1>2, <1>6
  <2> QED
    BY <1>1, <1>4, <1>6, <2>1 DEF Bit
<1> QED
  BY <1>5, <1>6

LEMMA CountsNat ==
  ASSUME NEW p
  PROVE  /\ \A right : /\ IsFiniteSet(With(p, right)) /\ Cardinality(With(p, right)) \in Nat
                       /\ \A slot \in Slots : Has(entry[slot], p, right) =>
                            Cardinality(With(p, right)) > 0
         /\ IsFiniteSet(Pointers(p)) /\ Cardinality(Pointers(p)) \in Nat
         /\ \A slot \in Slots : entry[slot].port = p => Cardinality(Pointers(p)) > 0
         /\ \A right : IsFiniteSet(Claims(p, right)) /\ Cardinality(Claims(p, right)) \in Nat
<1>1. /\ IsFiniteSet(Pointers(p))
      /\ \A right : /\ IsFiniteSet(With(p, right))
                    /\ IsFiniteSet(Claims(p, right))
  <2>1. \A right : /\ With(p, right) \in SUBSET Slots
                   /\ Claims(p, right) \in SUBSET Spaces
    BY DEF With, Claims
  <2>2. Pointers(p) \in SUBSET Slots
    BY DEF Pointers
  <2> QED
    BY <2>1, <2>2, PortRightsAssumption, FS_Subset
<1>2. \A S : IsFiniteSet(S) => Cardinality(S) \in Nat /\ (Cardinality(S) = 0 <=> S = {})
  BY FS_CardinalityType, FS_EmptySet
<1>3. \A slot \in Slots : /\ entry[slot].port = p => Pointers(p) # {}
                          /\ \A right : Has(entry[slot], p, right) => With(p, right) # {}
  BY DEF Pointers, With, Has
<1> QED
  BY <1>1, <1>2, <1>3

\* One entry changes.
LEMMA EntryCounts ==
  ASSUME NEW slot \in Slots, NEW e \in Entries, entry \in [Slots -> Entries],
         entry' = [entry EXCEPT ![slot] = e], NEW p \in Ports
  PROVE  /\ Cardinality(With(p, "send")')
              = Cardinality(With(p, "send"))
                + Bit(Has(e, p, "send")) - Bit(Has(entry[slot], p, "send"))
         /\ Cardinality(With(p, "once")')
              = Cardinality(With(p, "once"))
                + Bit(Has(e, p, "once")) - Bit(Has(entry[slot], p, "once"))
         /\ Cardinality(Pointers(p)')
              = Cardinality(Pointers(p)) + Bit(e.port = p) - Bit(entry[slot].port = p)
<1>1. entry'[slot] = e /\ \A x \in Slots : x # slot => entry'[x] = entry[x]
  OBVIOUS
<1>2. ASSUME NEW right
      PROVE  Cardinality(With(p, right)')
               = Cardinality(With(p, right))
                 + Bit(Has(e, p, right)) - Bit(Has(entry[slot], p, right))
  <2>1. With(p, right) \ {slot} = With(p, right)' \ {slot}
    BY <1>1 DEF With
  <2>2. /\ slot \in With(p, right) <=> Has(entry[slot], p, right)
        /\ slot \in With(p, right)' <=> Has(e, p, right)
    BY <1>1 DEF With, Has
  <2>3. IsFiniteSet(With(p, right))
    BY CountsNat
  <2>4. Cardinality(With(p, right)') = Cardinality(With(p, right))
          + Bit(slot \in With(p, right)') - Bit(slot \in With(p, right))
    BY <2>1, <2>3, CountChange
  <2> QED
    BY <2>2, <2>4 DEF Bit
<1>3. Cardinality(Pointers(p)')
        = Cardinality(Pointers(p)) + Bit(e.port = p) - Bit(entry[slot].port = p)
  <2>1. Pointers(p) \ {slot} = Pointers(p)' \ {slot}
    BY <1>1 DEF Pointers
  <2>2. /\ slot \in Pointers(p) <=> entry[slot].port = p
        /\ slot \in Pointers(p)' <=> e.port = p
    BY <1>1 DEF Pointers
  <2>3. IsFiniteSet(Pointers(p))
    BY CountsNat
  <2>4. Cardinality(Pointers(p)') = Cardinality(Pointers(p))
          + Bit(slot \in Pointers(p)') - Bit(slot \in Pointers(p))
    BY <2>1, <2>3, CountChange
  <2> QED
    BY <2>2, <2>4 DEF Bit
<1> QED
  BY <1>2, <1>3

LEMMA PointerGone ==
  ASSUME NEW slot \in Slots, NEW e \in Entries, entry \in [Slots -> Entries],
         entry' = [entry EXCEPT ![slot] = e], NEW p \in Ports,
         entry[slot].port = p, e.port # p
  PROVE  Cardinality(Pointers(p)') = Cardinality(Pointers(p)) - 1
<1>1. Bit(e.port = p) = 0 /\ Bit(entry[slot].port = p) = 1
  BY DEF Bit
<1>2. Cardinality(Pointers(p)) \in Nat
  BY CountsNat
<1>3. Cardinality(Pointers(p)')
        = Cardinality(Pointers(p)) + Bit(e.port = p) - Bit(entry[slot].port = p)
  BY EntryCounts
<1> QED
  BY <1>1, <1>2, <1>3

\* One request for a name is registered or leaves the table.
LEMMA RequestsOfName ==
  ASSUME NEW slot \in Slots, NEW p \in Ports, NEW d \in Nat,
         dnrequests \in [Ports -> [Slots -> Nat]], IsFiniteSet(Requests(slot)),
         dnrequests'[p][slot] = d,
         \A q \in Ports : q # p => dnrequests'[q][slot] = dnrequests[q][slot],
         d = dnrequests[p][slot] + 1 \/ d = dnrequests[p][slot] - 1
  PROVE  /\ IsFiniteSet(Requests(slot))'
         /\ Owed(slot) \in Nat /\ Owed(slot)' \in Nat
         /\ Owed(slot)' = Owed(slot) + d - dnrequests[p][slot]
<1> DEFINE c == dnrequests[p][slot]
           x == IF d = c + 1 THEN <<p, d>> ELSE <<p, c>>
<1>1. /\ c \in Nat /\ dnrequests'[p][slot] = d
      /\ \A q \in Ports : q # p => dnrequests'[q][slot] = dnrequests[q][slot]
  OBVIOUS
<1>2. /\ \A y : y \in Requests(slot) <=>
              \E q \in Ports, i \in Nat : y = <<q, i>> /\ i \in 1 .. dnrequests[q][slot]
      /\ \A y : y \in Requests(slot)' <=>
              \E q \in Ports, i \in Nat : y = <<q, i>> /\ i \in 1 .. dnrequests'[q][slot]
  BY DEF Requests
<1>3. Requests(slot) \ {x} = Requests(slot)' \ {x}
  <2>1. ASSUME NEW q \in Ports, NEW i \in Nat, <<q, i>> # x
        PROVE  i \in 1 .. dnrequests[q][slot] <=> i \in 1 .. dnrequests'[q][slot]
    <3>1. CASE q = p
      <4>1. i # (IF d = c + 1 THEN d ELSE c)
        BY <2>1, <3>1
      <4>2. CASE d = c + 1
        <5>1. i # c + 1
          BY <4>1, <4>2
        <5>2. \A n \in Nat : i # n + 1 => (i \in 1 .. n <=> i \in 1 .. (n + 1))
          OBVIOUS
        <5>3. c \in Nat
          BY <1>1
        <5>4. i \in 1 .. c <=> i \in 1 .. (c + 1)
          BY <5>1, <5>2, <5>3
        <5> QED
          BY <1>1, <3>1, <4>2, <5>4
      <4>3. CASE d = c - 1
        <5>1. i # c
          BY <1>1, <4>1, <4>3
        <5>2. \A n \in Nat : i # n => (i \in 1 .. n <=> i \in 1 .. (n - 1))
          OBVIOUS
        <5>3. c \in Nat
          BY <1>1
        <5>4. i \in 1 .. c <=> i \in 1 .. (c - 1)
          BY <5>1, <5>2, <5>3
        <5> QED
          BY <1>1, <3>1, <4>3, <5>4
      <4> QED
        BY <4>2, <4>3
    <3>2. CASE q # p
      BY <1>1, <3>2
    <3> QED
      BY <3>1, <3>2
  <2> QED
    BY <1>2, <2>1
<1>4. /\ x \in Requests(slot) <=> d = c - 1
      /\ x \in Requests(slot)' <=> d = c + 1
  <2>1. CASE d = c + 1
    <3>1. x = <<p, d>> /\ d \notin 1 .. c /\ d \in 1 .. d /\ d # c - 1
      BY <1>1, <2>1
    <3> QED
      BY <1>1, <1>2, <2>1, <3>1
  <2>2. CASE d = c - 1
    <3>1. x = <<p, c>> /\ c \in 1 .. c /\ c \notin 1 .. d /\ d # c + 1
      BY <1>1, <2>2
    <3> QED
      BY <1>1, <1>2, <2>2, <3>1
  <2> QED
    BY <2>1, <2>2
<1> HIDE DEF x
<1>5. /\ IsFiniteSet(Requests(slot)')
      /\ Cardinality(Requests(slot)) \in Nat /\ Cardinality(Requests(slot)') \in Nat
      /\ Cardinality(Requests(slot)') = Cardinality(Requests(slot))
           + Bit(x \in Requests(slot)') - Bit(x \in Requests(slot))
  BY <1>3, CountChange
<1> QED
  BY <1>1, <1>4, <1>5 DEF Bit, Owed

LEMMA RequestsChange ==
  ASSUME NEW slot \in Slots, NEW p \in Ports, NEW d \in Nat,
         dnrequests \in [Ports -> [Slots -> Nat]], IsFiniteSet(Requests(slot)),
         dnrequests' = [dnrequests EXCEPT ![p][slot] = d],
         d = dnrequests[p][slot] + 1 \/ d = dnrequests[p][slot] - 1
  PROVE  /\ IsFiniteSet(Requests(slot))'
         /\ Owed(slot) \in Nat /\ Owed(slot)' \in Nat
         /\ Owed(slot)' = Owed(slot) + d - dnrequests[p][slot]
<1>1. /\ dnrequests'[p][slot] = d
      /\ \A q \in Ports : q # p => dnrequests'[q][slot] = dnrequests[q][slot]
  OBVIOUS
<1> QED
  BY <1>1, RequestsOfName

-----------------------------------------------------------------------------
(* What a step leaves alone.                                               *)

\* A port whose fields, rights, entries and claims are as they were.
LEMMA PortKept ==
  ASSUME NEW q \in Ports, PortOK(q),
         port'[q] = port[q], naked'[q] = naked[q], stray'[q] = stray[q],
         nosenders'[q] = nosenders[q], q \in early <=> q \in early',
         \A x \in Slots : \/ entry'[x] = entry[x]
                          \/ entry[x].port # q /\ entry'[x].port # q
                          \/ entry'[x].port = entry[x].port /\ entry'[x].type = entry[x].type,
         \A s \in Spaces : \/ busy'[s] = busy[s]
                           \/ /\ busy[s] # None => busy[s].port # q
                              /\ busy'[s] # None => busy'[s].port # q
  PROVE  PortOK(q)'
<1>1. \A right : With(q, right)' = With(q, right)
  BY DEF With
<1>2. Pointers(q)' = Pointers(q)
  BY DEF Pointers
<1>3. \A right : Claims(q, right)' = Claims(q, right)
  BY DEF Claims
<1>4. \A x \in Slots : Has(entry'[x], q, "receive") <=> Has(entry[x], q, "receive")
  BY DEF Has
<1>5. CountsOK(q)'
  BY <1>1, <1>2 DEF PortOK, CountsOK
<1>6. ReceiverOK(q)'
  BY <1>4 DEF PortOK, ReceiverOK
<1>7. ClaimsOK(q)'
  BY <1>3 DEF PortOK, ClaimsOK
<1>8. NoSendersOK(q)'
  BY DEF PortOK, NoSendersOK
<1> QED
  BY <1>5, <1>6, <1>7, <1>8 DEF PortOK

\* A name whose entry, references and requests are as they were.
LEMMA SlotKept ==
  ASSUME NEW x \in Slots, SlotOK(x), TypeOK, alive' \subseteq alive,
         entry'[x] = entry[x], deaths'[x] = deaths[x],
         x[1] \in alive' => held'[x] = held[x],
         \A q \in Ports : dnrequests'[q][x] = dnrequests[q][x],
         \A q \in Ports : port'[q].active => port[q].active
  PROVE  SlotOK(x)'
<1>1. Requests(x)' = Requests(x)
  BY DEF Requests
<1>2. entry[x].request => entry[x].port \in Ports
  <2>1. entry[x] \in Entries
    BY DEF TypeOK
  <2> QED
    BY <2>1, EntryFacts
<1> QED
  BY <1>1, <1>2 DEF SlotOK, Owed

\* A step of one slot and one port.
LEMMA Framed ==
  ASSUME RightsInv, TypeOK', NEW slot \in Slots, NEW p, alive' = alive,
         \/ entry'[slot] = entry[slot]
         \/ entry[slot].port \in {p, None} /\ entry'[slot].port \in {p, None},
         \A x \in Slots : x # slot =>
           /\ entry'[x] = entry[x] /\ held'[x] = held[x] /\ deaths'[x] = deaths[x]
           /\ \A q \in Ports : dnrequests'[q][x] = dnrequests[q][x],
         \A q \in Ports : q # p =>
           /\ port'[q] = port[q] /\ naked'[q] = naked[q] /\ stray'[q] = stray[q]
           /\ nosenders'[q] = nosenders[q] /\ (q \in early <=> q \in early'),
         p \in Ports => PortOK(p)' /\ (port'[p].active => port[p].active),
         SlotOK(slot)',
         \/ busy' = busy /\ (busy[slot[1]] = None \/ entry'[slot] = entry[slot])
         \/ /\ \A s \in Spaces : s # slot[1] => busy'[s] = busy[s]
            /\ busy[slot[1]] # None => busy[slot[1]].port = p
            /\ busy'[slot[1]] # None => busy'[slot[1]].port = p
            /\ BusyOK(slot[1])',
         \/ entry'[slot].type \cap {"send", "receive"} = {}
         \/ /\ entry[slot].type \cap {"send", "receive"} # {}
            /\ entry'[slot].port = entry[slot].port
         \/ \A y \in Slots : y[1] = slot[1] /\ entry[y].port = entry'[slot].port =>
                               entry[y].type \cap {"send", "receive"} = {}
  PROVE  RightsInv'
<1>1. /\ TypeOK /\ Unique /\ \A q \in Ports : PortOK(q)
      /\ \A x \in Slots : SlotOK(x)
      /\ \A s \in Spaces : BusyOK(s)
  BY DEF RightsInv
<1>2. slot[1] \in Spaces
  BY PortRightsAssumption
<1>3. ASSUME NEW q \in Ports PROVE PortOK(q)'
  <2>1. CASE q = p
    BY <2>1
  <2>2. CASE q # p
    <3>1. q # None
      BY PortRightsAssumption
    <3>2. \A x \in Slots : \/ entry'[x] = entry[x]
                           \/ entry[x].port # q /\ entry'[x].port # q
      BY <2>2, <3>1
    <3>3. \A s \in Spaces : \/ busy'[s] = busy[s]
                            \/ /\ busy[s] # None => busy[s].port # q
                               /\ busy'[s] # None => busy'[s].port # q
      BY <2>2
    <3> QED
      BY <1>1, <2>2, <3>2, <3>3, PortKept
  <2> QED
    BY <2>1, <2>2
<1>4. \A q \in Ports : port'[q].active => port[q].active
  OBVIOUS
<1>5. ASSUME NEW x \in Slots PROVE SlotOK(x)'
  BY <1>1, <1>4, SlotKept
<1>6. ASSUME NEW s \in Spaces PROVE BusyOK(s)'
  <2>1. busy[s] # None => busy[s].slot \in Slots
    BY <1>1 DEF TypeOK, Calls
  <2>2. CASE \/ s # slot[1]
             \/ busy' = busy /\ (busy[slot[1]] = None \/ entry'[slot] = entry[slot])
    <3>1. busy'[s] = busy[s] /\ BusyOK(s)
      BY <1>1, <2>2
    <3>2. busy[s] # None => entry'[busy[s].slot] = entry[busy[s].slot]
      <4>1. SUFFICES ASSUME busy[s] # None, busy[s].slot = slot
                     PROVE  entry'[slot] = entry[slot]
        BY <2>1
      <4>2. s = slot[1]
        BY <3>1, <4>1 DEF BusyOK
      <4> QED
        BY <2>2, <4>1, <4>2
    <3> QED
      BY <3>1, <3>2 DEF BusyOK
  <2> QED
    BY <2>2
<1>7. Unique'
  <2> SUFFICES ASSUME NEW x \in Slots, NEW y \in Slots,
                      x[1] = y[1], entry'[x].port = entry'[y].port,
                      entry'[x].type \cap {"send", "receive"} # {},
                      entry'[y].type \cap {"send", "receive"} # {}
               PROVE  x = y
    BY DEF Unique
  <2>1. CASE x # slot /\ y # slot
    BY <1>1, <2>1 DEF Unique
  <2>2. CASE x = slot /\ y # slot
    BY <1>1, <2>2 DEF Unique
  <2>3. CASE x # slot /\ y = slot
    BY <1>1, <2>3 DEF Unique
  <2> QED
    BY <2>1, <2>2, <2>3
<1> QED
  BY <1>3, <1>5, <1>6, <1>7 DEF RightsInv

\* A step of one port.
LEMMA FramedPort ==
  ASSUME RightsInv, TypeOK', NEW p \in Ports,
         UNCHANGED <<alive, entry, dnrequests, busy, deaths, held>>,
         \A q \in Ports : q # p =>
           /\ port'[q] = port[q] /\ naked'[q] = naked[q] /\ stray'[q] = stray[q]
           /\ nosenders'[q] = nosenders[q] /\ (q \in early <=> q \in early'),
         PortOK(p)', port'[p].active => port[p].active
  PROVE  RightsInv'
<1>1. /\ TypeOK /\ Unique /\ \A q \in Ports : PortOK(q)
      /\ \A x \in Slots : SlotOK(x)
      /\ \A s \in Spaces : BusyOK(s)
  BY DEF RightsInv
<1>2. ASSUME NEW q \in Ports PROVE PortOK(q)'
  BY <1>1, PortKept
<1>3. \A q \in Ports : port'[q].active => port[q].active
  OBVIOUS
<1>4. ASSUME NEW x \in Slots PROVE SlotOK(x)'
  BY <1>1, <1>3, SlotKept
<1>5. ASSUME NEW s \in Spaces PROVE BusyOK(s)'
  BY <1>1 DEF BusyOK
<1>6. Unique'
  BY <1>1 DEF Unique
<1> QED
  BY <1>2, <1>4, <1>5, <1>6 DEF RightsInv

-----------------------------------------------------------------------------
(* Steps of one port that change no entry.                                 *)

\* The counts of p with fields r and naked rights n account for the same entries.
Balanced(p, r, n) ==
  /\ r.active = port[p].active /\ r.receiver = port[p].receiver
  /\ n.receive = naked[p].receive /\ (r.dying => port[p].dying)
  /\ r.active =>
       /\ r.srights - n.send = port[p].srights - naked[p].send
       /\ r.sorights - n.once - n.dest = port[p].sorights - naked[p].once - naked[p].dest
  /\ r.refs - n.send - n.once - n.dest - Bit(r.dying)
       = port[p].refs - naked[p].send - naked[p].once - naked[p].dest - Bit(port[p].dying)

LEMMA PortAct ==
  ASSUME RightsInv, NEW p \in Ports, NEW r \in PortRecords, NEW n \in NakedRights,
         UNCHANGED <<alive, entry, dnrequests, busy, deaths, held, stray>>,
         port' = [port EXCEPT ![p] = r], naked' = [naked EXCEPT ![p] = n],
         nosenders' \in [Ports -> SUBSET (0 .. MaxMscount)], early' \subseteq Ports,
         \A q \in Ports : q # p => /\ nosenders'[q] = nosenders[q]
                                   /\ q \in early <=> q \in early',
         Balanced(p, r, n),
         n.send >= naked[p].send \/ (Free(p, "send") > 0 /\ n.send = naked[p].send - 1),
         n.once >= naked[p].once \/ (Free(p, "once") > 0 /\ n.once = naked[p].once - 1),
         NoSendersOK(p)'
  PROVE  RightsInv'
<1>1. TypeOK /\ PortOK(p)
  BY DEF RightsInv
<1>2. /\ port \in [Ports -> PortRecords] /\ naked \in [Ports -> NakedRights]
      /\ stray \in [Ports -> Nat]
  BY <1>1 DEF TypeOK
<1>3. /\ port'[p] = r /\ naked'[p] = n
      /\ \A q \in Ports : q # p => port'[q] = port[q] /\ naked'[q] = naked[q]
  BY <1>2
<1>4. TypeOK'
  <2>1. port' \in [Ports -> PortRecords] /\ naked' \in [Ports -> NakedRights]
    BY <1>2
  <2> QED
    BY <1>1, <2>1 DEF TypeOK
<1>5. /\ port[p] \in PortRecords /\ naked[p] \in NakedRights /\ stray[p] \in Nat
  BY <1>2
<1>6. /\ \A right : With(p, right)' = With(p, right) /\ Claims(p, right)' = Claims(p, right)
      /\ Pointers(p)' = Pointers(p)
  BY DEF With, Claims, Pointers
<1>7. /\ Cardinality(With(p, "send")) \in Nat /\ Cardinality(With(p, "once")) \in Nat
      /\ Cardinality(Claims(p, "send")) \in Nat /\ Cardinality(Claims(p, "once")) \in Nat
      /\ Cardinality(Pointers(p)) \in Nat
  BY CountsNat
<1>8. CountsOK(p)'
  <2>1. ASSUME r.active
        PROVE  /\ r.srights = Cardinality(With(p, "send")) + n.send + stray[p]
               /\ r.sorights = Cardinality(With(p, "once")) + n.once + n.dest
    <3>1. /\ port[p].srights = Cardinality(With(p, "send")) + naked[p].send + stray[p]
          /\ port[p].sorights = Cardinality(With(p, "once")) + naked[p].once + naked[p].dest
      BY <1>1, <2>1 DEF PortOK, CountsOK, Balanced
    <3>2. /\ r.srights - n.send = port[p].srights - naked[p].send
          /\ r.sorights - n.once - n.dest = port[p].sorights - naked[p].once - naked[p].dest
      BY <2>1 DEF Balanced
    <3> QED
      BY <1>5, <1>7, <3>1, <3>2 DEF PortRecords, NakedRights
  <2>2. r.refs = Cardinality(Pointers(p)) + n.send + n.once + n.dest + n.receive + Bit(r.dying)
    BY <1>1, <1>5, <1>7 DEF PortOK, CountsOK, PortRecords, NakedRights, Bit, Balanced
  <2>3. r.active <=> port[p].active
    BY DEF Balanced
  <2> QED
    BY <1>3, <1>6, <2>1, <2>2, <2>3 DEF CountsOK
<1>9. ReceiverOK(p)'
  BY <1>1, <1>3 DEF PortOK, ReceiverOK, Balanced
<1>10. ClaimsOK(p)'
  <2>1. /\ Cardinality(Claims(p, "send")) <= n.send
        /\ Cardinality(Claims(p, "once")) <= n.once
    <3>1. /\ Free(p, "send") = naked[p].send - Cardinality(Claims(p, "send"))
          /\ Free(p, "once") = naked[p].once - Cardinality(Claims(p, "once"))
      BY DEF Free, Claims
    <3> QED
      BY <1>1, <1>5, <1>7, <3>1 DEF PortOK, ClaimsOK, NakedRights
  <2> QED
    BY <1>3, <1>6, <2>1 DEF ClaimsOK
<1>11. PortOK(p)'
  BY <1>8, <1>9, <1>10 DEF PortOK
<1>12. port'[p].active => port[p].active
  BY <1>3 DEF Balanced
<1> QED
  BY <1>3, <1>4, <1>11, <1>12, FramedPort

\* An entry with a right to p, and what the invariant says of both.
LEMMA EntryOf ==
  ASSUME RightsInv, NEW slot \in Slots
  PROVE  /\ entry[slot] \in Entries
         /\ entry[slot].port # None =>
              /\ entry[slot].port \in Ports
              /\ Cardinality(Pointers(entry[slot].port)) > 0
         /\ "receive" \in entry[slot].type =>
              /\ entry[slot].port # None /\ port[entry[slot].port].active
              /\ port[entry[slot].port].receiver = slot
              /\ naked[entry[slot].port].receive = 0
         /\ "send" \in entry[slot].type =>
              /\ entry[slot].port # None /\ entry[slot].urefs > 0
              /\ Cardinality(With(entry[slot].port, "send")) > 0
              /\ port[entry[slot].port].active => port[entry[slot].port].srights > 0
         /\ "once" \in entry[slot].type =>
              /\ entry[slot].port # None /\ entry[slot].urefs = 1
              /\ Cardinality(With(entry[slot].port, "once")) > 0
<1> DEFINE e == entry[slot]
<1>1. e \in Entries
  BY DEF RightsInv, TypeOK
<1>2. /\ e.port \in Ports \cup {None} /\ e.type \in Types /\ e.urefs \in Nat
      /\ e.port = None <=> e.type = {} \/ e.type = {"dead"}
      /\ e.urefs = 0 <=> e.type = {} \/ e.type = {"receive"}
      /\ e.type = {"once"} => e.urefs = 1
  BY <1>1, EntryFacts
<1>3. /\ "receive" \in e.type => e.port # None
      /\ "send" \in e.type => e.port # None /\ e.urefs # 0
      /\ "once" \in e.type => e.port # None /\ e.urefs = 1
  BY <1>2, TypeFacts
<1>4. /\ e.port # None => Cardinality(Pointers(e.port)) > 0
      /\ \A right : right \in e.type => Cardinality(With(e.port, right)) > 0
  BY CountsNat DEF Has
<1>5. ASSUME "receive" \in e.type
      PROVE  port[e.port].active /\ port[e.port].receiver = slot /\ naked[e.port].receive = 0
  <2>1. ReceiverOK(e.port) /\ Has(e, e.port, "receive")
    BY <1>2, <1>3, <1>5 DEF RightsInv, PortOK, Has
  <2> QED
    BY <2>1, PortRightsAssumption DEF ReceiverOK
<1>6. ASSUME "send" \in e.type, port[e.port].active PROVE port[e.port].srights > 0
  <2>1. e.port \in Ports /\ CountsOK(e.port) /\ TypeOK
    BY <1>2, <1>3, <1>6 DEF RightsInv, PortOK
  <2>2. naked[e.port] \in NakedRights /\ stray[e.port] \in Nat
    BY <2>1 DEF TypeOK
  <2>3. Cardinality(With(e.port, "send")) \in Nat /\ Cardinality(With(e.port, "send")) > 0
    BY <1>4, <1>6, CountsNat
  <2> QED
    BY <1>6, <2>1, <2>2, <2>3 DEF CountsOK, NakedRights
<1> QED
  BY <1>1, <1>2, <1>3, <1>4, <1>5, <1>6

\* The fields of a port, one by one.
PortT(p) ==
  /\ port[p] = [active |-> port[p].active, dying |-> port[p].dying,
                receiver |-> port[p].receiver, srights |-> port[p].srights,
                sorights |-> port[p].sorights, mscount |-> port[p].mscount,
                refs |-> port[p].refs, ns |-> port[p].ns, pd |-> port[p].pd]
  /\ port[p].active \in BOOLEAN /\ port[p].dying \in BOOLEAN
  /\ port[p].ns \in BOOLEAN /\ port[p].pd \in BOOLEAN
  /\ port[p].receiver \in Slots \cup {None}
  /\ port[p].srights \in Nat /\ port[p].sorights \in Nat /\ port[p].refs \in Nat
  /\ port[p].mscount \in Nat /\ port[p].mscount <= MaxMscount
  /\ naked[p] = [send |-> naked[p].send, once |-> naked[p].once,
                 dest |-> naked[p].dest, receive |-> naked[p].receive]
  /\ naked[p].send \in Nat /\ naked[p].once \in Nat /\ naked[p].dest \in Nat
  /\ naked[p].receive \in {0, 1}
  /\ stray[p] \in Nat /\ nosenders[p] \subseteq Nat

LEMMA PortTypes == ASSUME TypeOK, NEW p \in Ports PROVE PortT(p)
<1>1. port[p] \in PortRecords /\ naked[p] \in NakedRights /\ stray[p] \in Nat
      /\ nosenders[p] \subseteq 0 .. MaxMscount
  BY DEF TypeOK
<1> QED
  BY <1>1, PortRightsAssumption DEF PortT, PortRecords, NakedRights

-----------------------------------------------------------------------------
(* The records that the routines make of a port's fields.                  *)

Fields(r, active, dying, receiver, srights, sorights, mscount, refs, ns, pd) ==
  /\ r.active = active /\ r.dying = dying /\ r.receiver = receiver
  /\ r.srights = srights /\ r.sorights = sorights /\ r.mscount = mscount
  /\ r.refs = refs /\ r.ns = ns /\ r.pd = pd

LEMMA RecMade ==
  ASSUME NEW r \in PortRecords, r.mscount < MaxMscount
  PROVE  /\ MadeSend(r) \in PortRecords
         /\ Fields(MadeSend(r), r.active, r.dying, r.receiver, r.srights + 1, r.sorights,
                   r.mscount + 1, r.refs + 1, r.ns, r.pd)
<1>1. ASSUME NEW a \in 0 .. MaxMscount, NEW b \in Nat, NEW c \in Nat
      PROVE  LET t == [r EXCEPT !.mscount = a, !.srights = b, !.refs = c]
             IN  /\ t \in PortRecords
                 /\ Fields(t, r.active, r.dying, r.receiver, b, r.sorights, a, c, r.ns, r.pd)
  BY DEF PortRecords, Fields
<1>2. /\ r.mscount + 1 \in 0 .. MaxMscount /\ r.srights + 1 \in Nat /\ r.refs + 1 \in Nat
  BY PortRightsAssumption DEF PortRecords
<1>3. MadeSend(r) = [r EXCEPT !.mscount = r.mscount + 1, !.srights = r.srights + 1,
                              !.refs = r.refs + 1]
  BY DEF MadeSend
<1> QED
  BY <1>1, <1>2, <1>3, ZenonT(60)

LEMMA RecCleared ==
  ASSUME NEW r \in PortRecords
  PROVE  /\ Cleared(r) \in PortRecords
         /\ Fields(Cleared(r), r.active, r.dying, None, r.srights, r.sorights, 0, r.refs,
                   r.ns, r.pd)
<1>1. ASSUME NEW a \in 0 .. MaxMscount, NEW x \in Slots \cup {None}
      PROVE  LET t == [r EXCEPT !.mscount = a, !.receiver = x]
             IN  /\ t \in PortRecords
                 /\ Fields(t, r.active, r.dying, x, r.srights, r.sorights, a, r.refs, r.ns, r.pd)
  BY DEF PortRecords, Fields
<1>2. 0 \in 0 .. MaxMscount /\ None \in Slots \cup {None}
  BY PortRightsAssumption
<1> QED
  BY <1>1, <1>2, Zenon DEF Cleared

LEMMA RecLost ==
  ASSUME NEW r \in PortRecords, r.srights > 0
  PROVE  /\ LoseSend(r) \in PortRecords
         /\ Fields(LoseSend(r), r.active, r.dying, r.receiver, r.srights - 1, r.sorights,
                   r.mscount, r.refs, r.ns /\ r.srights > 1, r.pd)
<1>1. ASSUME NEW a \in Nat, NEW b \in BOOLEAN
      PROVE  LET t == [r EXCEPT !.srights = a, !.ns = b]
             IN  /\ t \in PortRecords
                 /\ Fields(t, r.active, r.dying, r.receiver, a, r.sorights, r.mscount, r.refs,
                           b, r.pd)
  BY DEF PortRecords, Fields
<1>2. r.srights - 1 \in Nat /\ (r.ns /\ r.srights > 1) \in BOOLEAN
  BY DEF PortRecords
<1>3. LoseSend(r) = [r EXCEPT !.srights = r.srights - 1, !.ns = r.ns /\ r.srights > 1]
  BY DEF LoseSend
<1> QED
  BY <1>1, <1>2, <1>3, Zenon

\* The changes of one or two fields.
LEMMA RecChanged ==
  ASSUME NEW r \in PortRecords, NEW a \in Nat, NEW b \in Nat, NEW c \in BOOLEAN,
         NEW x \in Slots \cup {None}
  PROVE  /\ LET t == [r EXCEPT !.refs = b]
            IN  t \in PortRecords /\ Fields(t, r.active, r.dying, r.receiver, r.srights,
                                            r.sorights, r.mscount, b, r.ns, r.pd)
         /\ LET t == [r EXCEPT !.srights = a, !.refs = b]
            IN  t \in PortRecords /\ Fields(t, r.active, r.dying, r.receiver, a,
                                            r.sorights, r.mscount, b, r.ns, r.pd)
         /\ LET t == [r EXCEPT !.sorights = a, !.refs = b]
            IN  t \in PortRecords /\ Fields(t, r.active, r.dying, r.receiver, r.srights, a,
                                            r.mscount, b, r.ns, r.pd)
         /\ LET t == [r EXCEPT !.receiver = x, !.refs = b]
            IN  t \in PortRecords /\ Fields(t, r.active, r.dying, x, r.srights, r.sorights,
                                            r.mscount, b, r.ns, r.pd)
         /\ LET t == [r EXCEPT !.receiver = x]
            IN  t \in PortRecords /\ Fields(t, r.active, r.dying, x, r.srights, r.sorights,
                                            r.mscount, r.refs, r.ns, r.pd)
         /\ LET t == [r EXCEPT !.dying = c, !.refs = b]
            IN  t \in PortRecords /\ Fields(t, r.active, c, r.receiver, r.srights,
                                            r.sorights, r.mscount, b, r.ns, r.pd)
         /\ LET t == [r EXCEPT !.ns = c]
            IN  t \in PortRecords /\ Fields(t, r.active, r.dying, r.receiver, r.srights,
                                            r.sorights, r.mscount, r.refs, c, r.pd)
         /\ LET t == [r EXCEPT !.pd = c]
            IN  t \in PortRecords /\ Fields(t, r.active, r.dying, r.receiver, r.srights,
                                            r.sorights, r.mscount, r.refs, r.ns, c)
         /\ a \in 0 .. MaxMscount =>
              LET t == [r EXCEPT !.mscount = a]
              IN  t \in PortRecords /\ Fields(t, r.active, r.dying, r.receiver, r.srights,
                                              r.sorights, a, r.refs, r.ns, r.pd)
         /\ LET t == [r EXCEPT !.pd = FALSE, !.ns = FALSE, !.srights = 0, !.sorights = 0,
                               !.active = FALSE, !.dying = TRUE]
            IN  t \in PortRecords /\ Fields(t, FALSE, TRUE, r.receiver, 0, 0, r.mscount,
                                            r.refs, FALSE, FALSE)
<1> USE DEF PortRecords, Fields
<1>1. LET t == [r EXCEPT !.refs = b]
      IN  t \in PortRecords /\ Fields(t, r.active, r.dying, r.receiver, r.srights,
                                      r.sorights, r.mscount, b, r.ns, r.pd)
  OBVIOUS
<1>2. LET t == [r EXCEPT !.srights = a, !.refs = b]
      IN  t \in PortRecords /\ Fields(t, r.active, r.dying, r.receiver, a,
                                      r.sorights, r.mscount, b, r.ns, r.pd)
  OBVIOUS
<1>3. LET t == [r EXCEPT !.sorights = a, !.refs = b]
      IN  t \in PortRecords /\ Fields(t, r.active, r.dying, r.receiver, r.srights, a,
                                      r.mscount, b, r.ns, r.pd)
  OBVIOUS
<1>4. LET t == [r EXCEPT !.receiver = x, !.refs = b]
      IN  t \in PortRecords /\ Fields(t, r.active, r.dying, x, r.srights, r.sorights,
                                      r.mscount, b, r.ns, r.pd)
  OBVIOUS
<1>5. LET t == [r EXCEPT !.receiver = x]
      IN  t \in PortRecords /\ Fields(t, r.active, r.dying, x, r.srights, r.sorights,
                                      r.mscount, r.refs, r.ns, r.pd)
  OBVIOUS
<1>6. LET t == [r EXCEPT !.dying = c, !.refs = b]
      IN  t \in PortRecords /\ Fields(t, r.active, c, r.receiver, r.srights,
                                      r.sorights, r.mscount, b, r.ns, r.pd)
  OBVIOUS
<1>7. LET t == [r EXCEPT !.ns = c]
      IN  t \in PortRecords /\ Fields(t, r.active, r.dying, r.receiver, r.srights,
                                      r.sorights, r.mscount, r.refs, c, r.pd)
  OBVIOUS
<1>8. LET t == [r EXCEPT !.pd = c]
      IN  t \in PortRecords /\ Fields(t, r.active, r.dying, r.receiver, r.srights,
                                      r.sorights, r.mscount, r.refs, r.ns, c)
  OBVIOUS
<1>9. a \in 0 .. MaxMscount =>
        LET t == [r EXCEPT !.mscount = a]
        IN  t \in PortRecords /\ Fields(t, r.active, r.dying, r.receiver, r.srights,
                                        r.sorights, a, r.refs, r.ns, r.pd)
  OBVIOUS
<1>10. LET t == [r EXCEPT !.pd = FALSE, !.ns = FALSE, !.srights = 0, !.sorights = 0,
                          !.active = FALSE, !.dying = TRUE]
       IN  t \in PortRecords /\ Fields(t, FALSE, TRUE, r.receiver, 0, 0, r.mscount,
                                       r.refs, FALSE, FALSE)
  OBVIOUS
<1> HIDE DEF PortRecords, Fields
<1> QED
  BY <1>1, <1>2, <1>3, <1>4, <1>5, <1>6, <1>7, <1>8, <1>9, <1>10

-----------------------------------------------------------------------------
(* Naked rights and requests.                                              *)

LEMMA BalancedBy ==
  ASSUME TypeOK, NEW p \in Ports, NEW r \in PortRecords, NEW n \in NakedRights,
         NEW ds \in Int, NEW do \in Int, NEW dd \in Int,
         r.active = port[p].active, r.receiver = port[p].receiver, r.dying = port[p].dying,
         n.receive = naked[p].receive, n.send = naked[p].send + ds,
         n.once = naked[p].once + do, n.dest = naked[p].dest + dd,
         r.active => /\ r.srights = port[p].srights + ds
                     /\ r.sorights = port[p].sorights + do + dd,
         r.refs = port[p].refs + ds + do + dd
  PROVE  Balanced(p, r, n)
<1>t. PortT(p)
  BY PortTypes
<1>1. Bit(r.dying) = Bit(port[p].dying) /\ Bit(r.dying) \in {0, 1}
  BY DEF Bit
<1>2. r.active => /\ r.srights - n.send = port[p].srights - naked[p].send
                  /\ r.sorights - n.once - n.dest
                       = port[p].sorights - naked[p].once - naked[p].dest
  BY <1>t DEF PortT
<1>3. r.refs - n.send - n.once - n.dest - Bit(r.dying)
        = port[p].refs - naked[p].send - naked[p].once - naked[p].dest - Bit(port[p].dying)
  BY <1>t, <1>1 DEF PortT
<1> QED
  BY <1>2, <1>3 DEF Balanced

\* The rights of a live port, and the references of any, are at least what is
\* naked.
LEMMA NakedCounted ==
  ASSUME RightsInv, NEW p \in Ports
  PROVE  /\ port[p].active => /\ port[p].srights >= naked[p].send
                              /\ port[p].sorights >= naked[p].once + naked[p].dest
         /\ port[p].refs >= naked[p].send + naked[p].once + naked[p].dest + naked[p].receive
                            + Bit(port[p].dying)
<1>1. PortT(p) /\ CountsOK(p)
  BY PortTypes DEF RightsInv, PortOK
<1>2. /\ Cardinality(With(p, "send")) \in Nat /\ Cardinality(With(p, "once")) \in Nat
      /\ Cardinality(Pointers(p)) \in Nat
  BY CountsNat
<1>3. Bit(port[p].dying) \in {0, 1}
  BY DEF Bit
<1> QED
  BY <1>1, <1>2, <1>3 DEF PortT, CountsOK

\* What is free is naked.
LEMMA FreeNaked ==
  ASSUME TypeOK, NEW p \in Ports
  PROVE  /\ Free(p, "send") > 0 => naked[p].send > 0
         /\ Free(p, "once") > 0 => naked[p].once > 0
<1>1. /\ Free(p, "send") = naked[p].send - Cardinality(Claims(p, "send"))
      /\ Free(p, "once") = naked[p].once - Cardinality(Claims(p, "once"))
  BY DEF Free, Claims
<1>2. Cardinality(Claims(p, "send")) \in Nat /\ Cardinality(Claims(p, "once")) \in Nat
  BY CountsNat
<1>3. naked[p].send \in Nat /\ naked[p].once \in Nat
  BY PortTypes DEF PortT
<1> QED
  BY <1>1, <1>2, <1>3

\* Steps that have nothing to do with no-senders notifications ...
LEMMA NoSendersKept ==
  ASSUME NEW p, NoSendersOK(p), nosenders'[p] = nosenders[p], p \in early <=> p \in early',
         port'[p].mscount = port[p].mscount, port'[p].ns = port[p].ns,
         port'[p].active = port[p].active,
         \/ port'[p].srights = port[p].srights
         \/ port[p].active => port[p].srights # 0 /\ port'[p].srights > 0
  PROVE  NoSendersOK(p)'
BY DEF NoSendersOK

\* ... and those that take a send right from a live port.
LEMMA NoSendersLost ==
  ASSUME NEW p \in Ports, PortT(p), NoSendersOK(p), port[p].active, port[p].srights > 0,
         nosenders'[p] = nosenders[p] \cup NoSendersFor(p), p \in early <=> p \in early',
         port'[p].mscount = port[p].mscount, port'[p].srights = port[p].srights - 1,
         port'[p].ns = (port[p].ns /\ port[p].srights > 1)
  PROVE  NoSendersOK(p)'
<1>1. /\ port[p].mscount \notin nosenders[p]
      /\ port[p].srights \in Nat /\ port[p].mscount \in Nat
      /\ port[p].srights - 1 = 0 <=> port[p].srights = 1
      /\ port[p].srights > 1 => port[p].srights - 1 > 0
  BY DEF NoSendersOK, PortT
<1>2. NoSendersFor(p) = IF port[p].ns /\ port[p].srights = 1 THEN {port[p].mscount} ELSE {}
  BY DEF NoSendersFor
<1>3. \A k \in nosenders'[p] : k <= port'[p].mscount
  BY <1>1, <1>2 DEF NoSendersOK
<1>4. port'[p].mscount \in nosenders'[p] => port'[p].srights = 0
  BY <1>1, <1>2
<1>5. port'[p].ns => port'[p].srights > 0
  BY <1>1
<1> QED
  BY <1>3, <1>4, <1>5 DEF NoSendersOK

LEMMA MakeSendOnceInv ==
  ASSUME RightsInv, NEW slot \in Slots, MakeSendOnce(slot) PROVE RightsInv'
<1>0. PICK p \in Ports : p = entry[slot].port /\ port[p].active
  BY EntryOf DEF MakeSendOnce
<1>1. TypeOK /\ PortOK(p) /\ PortT(p) /\ port[p] \in PortRecords
  BY PortTypes DEF RightsInv, TypeOK
<1> DEFINE r == [port[p] EXCEPT !.sorights = port[p].sorights + 1, !.refs = port[p].refs + 1]
           n == [naked[p] EXCEPT !.once = naked[p].once + 1]
<1>2. /\ port' = [port EXCEPT ![p] = r] /\ naked' = [naked EXCEPT ![p] = n]
      /\ UNCHANGED <<alive, entry, dnrequests, busy, deaths, held, stray, nosenders, early>>
  BY <1>0, <1>1, Zenon DEF MakeSendOnce, TypeOK
<1>3. /\ n \in NakedRights
      /\ n.send = naked[p].send + 0 /\ n.once = naked[p].once + 1
      /\ n.dest = naked[p].dest + 0 /\ n.receive = naked[p].receive
  BY <1>1 DEF PortT, NakedRights
<1>4. /\ r \in PortRecords
      /\ Fields(r, port[p].active, port[p].dying, port[p].receiver, port[p].srights,
                port[p].sorights + 1, port[p].mscount, port[p].refs + 1, port[p].ns, port[p].pd)
  <2>1. port[p].sorights + 1 \in Nat /\ port[p].refs + 1 \in Nat
    BY <1>1 DEF PortT
  <2> QED
    BY <1>1, <2>1, RecChanged, Zenon
<1> HIDE DEF r, n
<1>5. port'[p] = r
  BY <1>1, <1>2 DEF TypeOK
<1>6. NoSendersOK(p)'
  BY <1>1, <1>2, <1>4, <1>5, NoSendersKept DEF PortOK, Fields
<1>7. Balanced(p, r, n) /\ n.send >= naked[p].send /\ n.once >= naked[p].once
  <2>1. /\ port[p].srights = port[p].srights + 0
        /\ port[p].sorights + 1 = port[p].sorights + 1 + 0
        /\ port[p].refs + 1 = port[p].refs + 0 + 1 + 0
        /\ n.send >= naked[p].send /\ n.once >= naked[p].once
    BY <1>1, <1>3 DEF PortT
  <2> QED
    BY <1>1, <1>3, <1>4, <2>1, BalancedBy DEF Fields
<1>8. nosenders' \in [Ports -> SUBSET (0 .. MaxMscount)] /\ early' \subseteq Ports
  BY <1>1, <1>2 DEF TypeOK
<1> QED
  BY <1>2, <1>3, <1>4, <1>6, <1>7, <1>8, PortAct

LEMMA MakeSendInv ==
  ASSUME RightsInv, NEW slot \in Slots, MakeSend(slot) PROVE RightsInv'
<1>0. PICK p \in Ports : p = entry[slot].port /\ port[p].active
  BY EntryOf DEF MakeSend
<1>1. TypeOK /\ PortOK(p)
  BY DEF RightsInv
<1> DEFINE r == MadeSend(port[p])
           n == [naked[p] EXCEPT !.send = @ + 1]
<1>2. /\ port' = [port EXCEPT ![p] = r] /\ naked' = [naked EXCEPT ![p] = n]
      /\ nosenders' = [nosenders EXCEPT ![p] = {k \in @ : k >= port'[p].mscount}]
      /\ early' = early \ {p} /\ port[p].mscount < MaxMscount
      /\ UNCHANGED <<alive, entry, dnrequests, busy, deaths, held, stray>>
  <2>1. naked' = [naked EXCEPT ![p].send = @ + 1]
    BY <1>0 DEF MakeSend
  <2>2. naked' = [naked EXCEPT ![p] = n]
    BY <1>1, <2>1 DEF TypeOK
  <2> QED
    BY <1>0, <2>2 DEF MakeSend
<1>t. PortT(p) /\ port[p] \in PortRecords
  BY <1>1, PortTypes DEF TypeOK
<1>3. /\ n \in NakedRights
      /\ n.send = naked[p].send + 1 /\ n.once = naked[p].once
      /\ n.dest = naked[p].dest /\ n.receive = naked[p].receive
  BY <1>t DEF PortT, NakedRights
<1>4. /\ r \in PortRecords
      /\ Fields(r, port[p].active, port[p].dying, port[p].receiver, port[p].srights + 1,
                port[p].sorights, port[p].mscount + 1, port[p].refs + 1, port[p].ns, port[p].pd)
  BY <1>t, <1>2, RecMade
<1> HIDE DEF r, n
<1>5. nosenders' \in [Ports -> SUBSET (0 .. MaxMscount)] /\ early' \subseteq Ports
  BY <1>1, <1>2 DEF TypeOK
<1>6. nosenders'[p] = {} /\ port'[p] = r
  <2>0. port'[p] = r
    BY <1>1, <1>2 DEF TypeOK
  <2>1. nosenders'[p] = {k \in nosenders[p] : k >= r.mscount}
    BY <1>1, <1>2, <2>0 DEF TypeOK
  <2>2. \A k \in nosenders[p] : k \in Nat /\ k <= port[p].mscount
    BY <1>1, <1>t DEF PortT, PortOK, NoSendersOK
  <2> QED
    BY <1>t, <1>4, <2>0, <2>1, <2>2 DEF PortT, Fields
<1>7. NoSendersOK(p)'
  BY <1>t, <1>4, <1>6 DEF PortT, NoSendersOK, Fields
<1>8. \A q \in Ports : q # p => nosenders'[q] = nosenders[q] /\ (q \in early <=> q \in early')
  BY <1>1, <1>2 DEF TypeOK
<1>9. Balanced(p, r, n) /\ n.send >= naked[p].send /\ n.once >= naked[p].once
  <2>1. Bit(r.dying) = Bit(port[p].dying) /\ Bit(r.dying) \in {0, 1}
    BY <1>4 DEF Fields, Bit
  <2>2. /\ r.srights - n.send = port[p].srights - naked[p].send
        /\ r.sorights - n.once - n.dest = port[p].sorights - naked[p].once - naked[p].dest
        /\ n.send >= naked[p].send /\ n.once >= naked[p].once
    BY <1>t, <1>3, <1>4 DEF PortT, Fields
  <2>3. r.refs - n.send - n.once - n.dest - Bit(r.dying)
          = port[p].refs - naked[p].send - naked[p].once - naked[p].dest - Bit(port[p].dying)
    BY <1>t, <1>3, <1>4, <2>1 DEF PortT, Fields
  <2> QED
    BY <1>3, <1>4, <2>2, <2>3 DEF Balanced, Fields
<1> QED
  BY <1>2, <1>3, <1>4, <1>5, <1>7, <1>8, <1>9, PortAct

\* A send right is copied, by ipc_right_copyin or by the kernel.
LEMMA CopiedInv ==
  ASSUME RightsInv, NEW p \in Ports, naked[p].send > 0 \/ Cardinality(With(p, "send")) > 0,
         port' = [port EXCEPT ![p].srights = IF port[p].active THEN @ + 1 ELSE @,
                              ![p].refs = @ + 1],
         naked' = [naked EXCEPT ![p].send = @ + 1],
         UNCHANGED <<alive, entry, dnrequests, busy, deaths, held, stray, nosenders, early>>
  PROVE  RightsInv'
<1>1. TypeOK /\ PortOK(p) /\ PortT(p) /\ port[p] \in PortRecords
  BY PortTypes DEF RightsInv, TypeOK
<1> DEFINE a == IF port[p].active THEN port[p].srights + 1 ELSE port[p].srights
           r == [port[p] EXCEPT !.srights = a, !.refs = port[p].refs + 1]
           n == [naked[p] EXCEPT !.send = naked[p].send + 1]
<1>2. /\ port' = [port EXCEPT ![p] = r] /\ naked' = [naked EXCEPT ![p] = n]
  BY <1>1, Zenon DEF TypeOK
<1>3. /\ n \in NakedRights
      /\ n.send = naked[p].send + 1 /\ n.once = naked[p].once + 0
      /\ n.dest = naked[p].dest + 0 /\ n.receive = naked[p].receive
  BY <1>1 DEF PortT, NakedRights
<1>4. /\ r \in PortRecords
      /\ Fields(r, port[p].active, port[p].dying, port[p].receiver, a,
                port[p].sorights, port[p].mscount, port[p].refs + 1, port[p].ns, port[p].pd)
  <2>1. a \in Nat /\ port[p].refs + 1 \in Nat
    BY <1>1 DEF PortT
  <2> QED
    BY <1>1, <2>1, RecChanged, Zenon
<1> HIDE DEF r, n
<1>5. port'[p] = r
  BY <1>1, <1>2 DEF TypeOK
<1>6. NoSendersOK(p)'
  <2>1. port[p].active => port[p].srights # 0
    <3>1. Cardinality(With(p, "send")) \in Nat
      BY CountsNat
    <3> QED
      BY <1>1, <3>1 DEF PortOK, CountsOK, PortT
  <2>2. port[p].active => a > 0
    BY <1>1 DEF PortT
  <2> HIDE DEF a
  <2> QED
    BY <1>1, <1>2, <1>4, <1>5, <2>1, <2>2, NoSendersKept DEF PortOK, Fields
<1>7. Balanced(p, r, n) /\ n.send >= naked[p].send /\ n.once >= naked[p].once
  <2>1. /\ port[p].active => a = port[p].srights + 1
        /\ port[p].sorights = port[p].sorights + 0 + 0
        /\ port[p].refs + 1 = port[p].refs + 1 + 0 + 0
        /\ n.send >= naked[p].send /\ n.once >= naked[p].once
    BY <1>1, <1>3 DEF PortT
  <2> HIDE DEF a
  <2> QED
    BY <1>1, <1>3, <1>4, <2>1, BalancedBy DEF Fields
<1>8. nosenders' \in [Ports -> SUBSET (0 .. MaxMscount)] /\ early' \subseteq Ports
  BY <1>1 DEF TypeOK
<1> QED
  BY <1>2, <1>3, <1>4, <1>6, <1>7, <1>8, PortAct

LEMMA CopySendNakedInv ==
  ASSUME RightsInv, NEW p \in Ports, CopySendNaked(p) PROVE RightsInv'
<1>1. naked[p].send > 0
  BY FreeNaked DEF RightsInv, CopySendNaked
<1> QED
  BY <1>1, CopiedInv DEF CopySendNaked

LEMMA ReleaseSendInv ==
  ASSUME RightsInv, NEW p \in Ports, ipc_port_release_send(p) PROVE RightsInv'
<1>1. TypeOK /\ PortOK(p) /\ PortT(p) /\ port[p] \in PortRecords
  BY PortTypes DEF RightsInv, TypeOK
<1>2. /\ naked[p].send > 0 /\ port[p].refs > 0
      /\ port[p].active => port[p].srights > 0
  <2>1. naked[p].send > 0
    BY <1>1, FreeNaked DEF ipc_port_release_send
  <2>2. Bit(port[p].dying) \in {0, 1}
    BY DEF Bit
  <2> QED
    BY <1>1, <2>1, <2>2, NakedCounted DEF PortT
<1> DEFINE t == IF port[p].active THEN LoseSend(port[p]) ELSE port[p]
           r == [t EXCEPT !.refs = t.refs - 1]
           n == [naked[p] EXCEPT !.send = naked[p].send - 1]
<1>3. /\ port' = [port EXCEPT ![p] = r] /\ naked' = [naked EXCEPT ![p] = n]
      /\ UNCHANGED <<alive, entry, dnrequests, busy, deaths, held, stray, early>>
      /\ Free(p, "send") > 0
  <2>1. port' = [port EXCEPT ![p] = r]
    BY Zenon DEF ipc_port_release_send
  <2>2. naked' = [naked EXCEPT ![p] = n]
    BY <1>1 DEF ipc_port_release_send, TypeOK
  <2> QED
    BY <2>1, <2>2 DEF ipc_port_release_send
<1>4. /\ n \in NakedRights
      /\ n.send = naked[p].send + (-1) /\ n.once = naked[p].once + 0
      /\ n.dest = naked[p].dest + 0 /\ n.receive = naked[p].receive
      /\ n.send = naked[p].send - 1 /\ n.once >= naked[p].once
  BY <1>1, <1>2 DEF PortT, NakedRights
<1>5. /\ t \in PortRecords
      /\ Fields(t, port[p].active, port[p].dying, port[p].receiver,
                IF port[p].active THEN port[p].srights - 1 ELSE port[p].srights,
                port[p].sorights, port[p].mscount, port[p].refs,
                IF port[p].active THEN port[p].ns /\ port[p].srights > 1 ELSE port[p].ns,
                port[p].pd)
  <2>1. CASE port[p].active
    BY <1>1, <1>2, <2>1, RecLost, Zenon
  <2>2. CASE ~port[p].active
    BY <1>1, <2>2 DEF Fields
  <2> QED
    BY <2>1, <2>2
<1> HIDE DEF t
<1>6. /\ r \in PortRecords
      /\ Fields(r, t.active, t.dying, t.receiver, t.srights,
                t.sorights, t.mscount, t.refs - 1, t.ns, t.pd)
  <2>1. t.refs - 1 \in Nat
    BY <1>1, <1>2, <1>5 DEF PortT, Fields
  <2> QED
    BY <1>5, <2>1, RecChanged, Zenon
<1> HIDE DEF r, n
<1>7. port'[p] = r /\ nosenders'[p] = IF port[p].active THEN nosenders[p] \cup NoSendersFor(p)
                                      ELSE nosenders[p]
  BY <1>1, <1>3 DEF TypeOK, ipc_port_release_send
<1>8. NoSendersOK(p)'
  <2>1. CASE port[p].active
    BY <1>1, <1>2, <1>3, <1>5, <1>6, <1>7, <2>1, NoSendersLost DEF PortOK, Fields
  <2>2. CASE ~port[p].active
    BY <1>1, <1>2, <1>3, <1>5, <1>6, <1>7, <2>2, NoSendersKept DEF PortOK, Fields
  <2> QED
    BY <2>1, <2>2
<1>9. Balanced(p, r, n)
  <2>1. /\ port[p].active => r.srights = port[p].srights + (-1)
        /\ r.sorights = port[p].sorights + 0 + 0
        /\ r.refs = port[p].refs + (-1) + 0 + 0
    BY <1>1, <1>5, <1>6 DEF PortT, Fields
  <2> QED
    BY <1>1, <1>4, <1>5, <1>6, <2>1, BalancedBy DEF Fields
<1>10. /\ nosenders' \in [Ports -> SUBSET (0 .. MaxMscount)] /\ early' \subseteq Ports
       /\ \A q \in Ports : q # p => nosenders'[q] = nosenders[q]
  <2>1. NoSendersFor(p) \subseteq 0 .. MaxMscount
    BY <1>1 DEF PortT, NoSendersFor
  <2> QED
    BY <1>1, <1>3, <2>1 DEF TypeOK, ipc_port_release_send
<1> QED
  BY <1>3, <1>4, <1>6, <1>8, <1>9, <1>10, PortAct

LEMMA NotifyInv ==
  ASSUME RightsInv, NEW p \in Ports, ipc_notify_send_once(p) PROVE RightsInv'
<1>1. TypeOK /\ PortOK(p) /\ PortT(p) /\ port[p] \in PortRecords
  BY PortTypes DEF RightsInv, TypeOK
<1>2. naked[p].once > 0
  BY <1>1, FreeNaked DEF ipc_notify_send_once
<1> DEFINE r == port[p]
           n == [naked[p] EXCEPT !.once = naked[p].once - 1, !.dest = naked[p].dest + 1]
<1>3. /\ port' = [port EXCEPT ![p] = r] /\ naked' = [naked EXCEPT ![p] = n]
      /\ UNCHANGED <<alive, entry, dnrequests, busy, deaths, held, stray, nosenders, early, port>>
      /\ Free(p, "once") > 0
  BY <1>1 DEF ipc_notify_send_once, TypeOK
<1>4. /\ n \in NakedRights
      /\ n.send = naked[p].send + 0 /\ n.once = naked[p].once + (-1)
      /\ n.dest = naked[p].dest + 1 /\ n.receive = naked[p].receive
      /\ n.once = naked[p].once - 1 /\ n.send >= naked[p].send
  <2>1. ASSUME NEW a \in Nat, NEW b \in Nat
        PROVE  LET m == [naked[p] EXCEPT !.once = a, !.dest = b]
               IN  /\ m \in NakedRights /\ m.send = naked[p].send /\ m.once = a
                   /\ m.dest = b /\ m.receive = naked[p].receive
    BY <1>1 DEF PortT, NakedRights
  <2>2. /\ naked[p].once - 1 \in Nat /\ naked[p].dest + 1 \in Nat
        /\ naked[p].send \in Nat /\ naked[p].once \in Nat
    BY <1>1, <1>2 DEF PortT
  <2>3. /\ n \in NakedRights /\ n.send = naked[p].send /\ n.once = naked[p].once - 1
        /\ n.dest = naked[p].dest + 1 /\ n.receive = naked[p].receive
    BY <2>1, <2>2, Zenon
  <2> HIDE DEF n
  <2> QED
    BY <2>2, <2>3
<1> HIDE DEF r, n
<1>5. NoSendersOK(p)'
  BY <1>1, <1>3, NoSendersKept DEF PortOK
<1>6. Balanced(p, r, n)
  <2>1. /\ r.srights = port[p].srights + 0
        /\ r.sorights = port[p].sorights + (-1) + 1
        /\ r.refs = port[p].refs + 0 + (-1) + 1
    BY <1>1 DEF PortT, r
  <2> QED
    BY <1>1, <1>4, <2>1, BalancedBy DEF r
<1>7. nosenders' \in [Ports -> SUBSET (0 .. MaxMscount)] /\ early' \subseteq Ports
  BY <1>1, <1>3 DEF TypeOK
<1> QED
  BY <1>1, <1>3, <1>4, <1>5, <1>6, <1>7, PortAct DEF r

LEMMA CopyoutDestInv ==
  ASSUME RightsInv, NEW p \in Ports, CopyoutDest(p) PROVE RightsInv'
<1>1. TypeOK /\ PortOK(p) /\ PortT(p) /\ port[p] \in PortRecords
  BY PortTypes DEF RightsInv, TypeOK
<1>2. naked[p].dest > 0 /\ port[p].refs > 0 /\ (port[p].active => port[p].sorights > 0)
  <2>1. naked[p].dest > 0 /\ Bit(port[p].dying) \in {0, 1}
    BY DEF CopyoutDest, Bit
  <2> QED
    BY <1>1, <2>1, NakedCounted DEF PortT
<1> DEFINE a == IF port[p].active THEN port[p].sorights - 1 ELSE port[p].sorights
           r == [port[p] EXCEPT !.sorights = a, !.refs = port[p].refs - 1]
           n == [naked[p] EXCEPT !.dest = naked[p].dest - 1]
<1>3. /\ port' = [port EXCEPT ![p] = r] /\ naked' = [naked EXCEPT ![p] = n]
      /\ UNCHANGED <<alive, entry, dnrequests, busy, deaths, held, stray, nosenders, early>>
  BY <1>1 DEF CopyoutDest, TypeOK
<1>4. /\ n \in NakedRights
      /\ n.send = naked[p].send + 0 /\ n.once = naked[p].once + 0
      /\ n.dest = naked[p].dest + (-1) /\ n.receive = naked[p].receive
      /\ n.send >= naked[p].send /\ n.once >= naked[p].once
  BY <1>1, <1>2 DEF PortT, NakedRights
<1>5. /\ r \in PortRecords
      /\ Fields(r, port[p].active, port[p].dying, port[p].receiver, port[p].srights, a,
                port[p].mscount, port[p].refs - 1, port[p].ns, port[p].pd)
  <2>1. a \in Nat /\ port[p].refs - 1 \in Nat
    BY <1>1, <1>2 DEF PortT
  <2> QED
    BY <1>1, <2>1, RecChanged, Zenon
<1> HIDE DEF r, n
<1>6. port'[p] = r
  BY <1>1, <1>3 DEF TypeOK
<1>7. NoSendersOK(p)'
  BY <1>1, <1>3, <1>5, <1>6, NoSendersKept DEF PortOK, Fields
<1>8. Balanced(p, r, n)
  <2>1. /\ port[p].srights = port[p].srights + 0
        /\ port[p].active => a = port[p].sorights + 0 + (-1)
        /\ port[p].refs - 1 = port[p].refs + 0 + 0 + (-1)
    BY <1>1 DEF PortT
  <2> HIDE DEF a
  <2> QED
    BY <1>1, <1>4, <1>5, <2>1, BalancedBy DEF Fields
<1>9. nosenders' \in [Ports -> SUBSET (0 .. MaxMscount)] /\ early' \subseteq Ports
  BY <1>1, <1>3 DEF TypeOK
<1> QED
  BY <1>3, <1>4, <1>5, <1>7, <1>8, <1>9, PortAct

\* Steps that change what a port knows of requests, and none of its counts.
LEMMA RequestInv ==
  ASSUME RightsInv, NEW p \in Ports, NEW r \in PortRecords,
         port' = [port EXCEPT ![p] = r], naked' = naked,
         UNCHANGED <<alive, entry, dnrequests, busy, deaths, held, stray>>,
         r.active = port[p].active, r.dying = port[p].dying, r.receiver = port[p].receiver,
         r.srights = port[p].srights, r.sorights = port[p].sorights, r.refs = port[p].refs,
         nosenders' \in [Ports -> SUBSET (0 .. MaxMscount)], early' \subseteq Ports,
         \A q \in Ports : q # p => /\ nosenders'[q] = nosenders[q]
                                   /\ q \in early <=> q \in early',
         NoSendersOK(p)'
  PROVE  RightsInv'
<1>1. TypeOK /\ PortT(p) /\ naked[p] \in NakedRights
  BY PortTypes DEF RightsInv, TypeOK
<1>2. naked' = [naked EXCEPT ![p] = naked[p]]
  BY <1>1 DEF TypeOK
<1>3. Balanced(p, r, naked[p])
  BY DEF Balanced
<1>4. naked[p].send >= naked[p].send /\ naked[p].once >= naked[p].once
  BY <1>1 DEF PortT
<1> QED
  BY <1>1, <1>2, <1>3, <1>4, PortAct

LEMMA NsRequestInv ==
  ASSUME RightsInv, NEW p \in Ports, NEW sync \in Nat, NEW notify \in BOOLEAN,
         ipc_port_nsrequest(p, sync, notify)
  PROVE  RightsInv'
<1>1. TypeOK /\ PortOK(p) /\ PortT(p) /\ port[p] \in PortRecords /\ port[p].active
  BY PortTypes DEF RightsInv, TypeOK, ipc_port_nsrequest
<1> DEFINE b == notify /\ ~AlreadyNoSenders(p, sync)
           r == [port[p] EXCEPT !.ns = b]
<1>2. /\ port' = [port EXCEPT ![p] = r]
      /\ UNCHANGED <<alive, entry, dnrequests, naked, busy, deaths, held, stray>>
      /\ early' = IF notify /\ port[p].srights = 0 /\ sync > port[p].mscount
                  THEN early \cup {p} ELSE early \ {p}
  BY <1>1 DEF ipc_port_nsrequest, TypeOK
<1>3. nosenders' = [nosenders EXCEPT ![p] = IF notify /\ AlreadyNoSenders(p, sync)
                                            THEN nosenders[p] \cup {port[p].mscount}
                                            ELSE nosenders[p]]
  BY DEF ipc_port_nsrequest
<1>4. /\ r \in PortRecords
      /\ Fields(r, port[p].active, port[p].dying, port[p].receiver, port[p].srights,
                port[p].sorights, port[p].mscount, port[p].refs, b, port[p].pd)
  <2>1. b \in BOOLEAN
    OBVIOUS
  <2> HIDE DEF b
  <2> QED
    BY <1>1, <2>1, RecChanged, Zenon
<1> HIDE DEF r
<1>5. /\ port'[p] = r
      /\ nosenders'[p] = IF notify /\ AlreadyNoSenders(p, sync)
                         THEN nosenders[p] \cup {port[p].mscount}
                         ELSE nosenders[p]
  BY <1>1, <1>2, <1>3 DEF TypeOK
<1>6. NoSendersOK(p)'
  <2>1. /\ port[p].srights \in Nat /\ port[p].mscount \in Nat
        /\ port'[p].srights = port[p].srights /\ port'[p].mscount = port[p].mscount
        /\ port'[p].ns => notify /\ ~AlreadyNoSenders(p, sync)
    BY <1>1, <1>4, <1>5 DEF PortT, Fields
  <2>2. \A k \in nosenders'[p] : k <= port'[p].mscount
    BY <1>1, <1>5, <2>1 DEF PortOK, NoSendersOK
  <2>3. port'[p].mscount \in nosenders'[p] => port'[p].srights = 0
    BY <1>1, <1>5, <2>1 DEF PortOK, NoSendersOK, AlreadyNoSenders
  <2>4. port'[p].ns /\ p \notin early' => port'[p].srights > 0
    BY <1>2, <2>1 DEF AlreadyNoSenders
  <2> QED
    BY <2>2, <2>3, <2>4 DEF NoSendersOK
<1>7. /\ nosenders' \in [Ports -> SUBSET (0 .. MaxMscount)] /\ early' \subseteq Ports
      /\ \A q \in Ports : q # p => /\ nosenders'[q] = nosenders[q]
                                   /\ q \in early <=> q \in early'
  <2>1. /\ port[p].mscount \in 0 .. MaxMscount
        /\ nosenders \in [Ports -> SUBSET (0 .. MaxMscount)] /\ early \subseteq Ports
    BY <1>1 DEF PortT, TypeOK
  <2> QED
    BY <1>2, <1>3, <2>1
<1> QED
  BY <1>2, <1>4, <1>6, <1>7, RequestInv, Zenon DEF Fields

LEMMA PdRequestInv ==
  ASSUME RightsInv, NEW p \in Ports, ipc_port_pdrequest(p) PROVE RightsInv'
<1>1. TypeOK /\ PortOK(p) /\ PortT(p) /\ port[p] \in PortRecords
  BY PortTypes DEF RightsInv, TypeOK
<1> DEFINE b == ~port[p].pd
           r == [port[p] EXCEPT !.pd = b]
<1>2. /\ port' = [port EXCEPT ![p] = r]
      /\ UNCHANGED <<alive, entry, dnrequests, naked, busy, deaths, nosenders, held, early, stray>>
  BY <1>1 DEF ipc_port_pdrequest, TypeOK
<1>3. /\ r \in PortRecords
      /\ Fields(r, port[p].active, port[p].dying, port[p].receiver, port[p].srights,
                port[p].sorights, port[p].mscount, port[p].refs, port[p].ns, b)
  <2>1. b \in BOOLEAN
    OBVIOUS
  <2> HIDE DEF b
  <2> QED
    BY <1>1, <2>1, RecChanged, Zenon
<1> HIDE DEF r
<1>4. port'[p] = r
  BY <1>1, <1>2 DEF TypeOK
<1>5. NoSendersOK(p)'
  BY <1>1, <1>2, <1>3, <1>4, NoSendersKept DEF PortOK, Fields
<1>6. nosenders' \in [Ports -> SUBSET (0 .. MaxMscount)] /\ early' \subseteq Ports
  BY <1>1, <1>2 DEF TypeOK
<1> QED
  BY <1>2, <1>3, <1>5, <1>6, RequestInv, Zenon DEF Fields

LEMMA SetMscountInv ==
  ASSUME RightsInv, NEW p \in Ports, NEW n \in 0 .. MaxMscount, mach_port_set_mscount(p, n)
  PROVE  RightsInv'
<1>1. TypeOK /\ PortOK(p) /\ PortT(p) /\ port[p] \in PortRecords
  BY PortTypes DEF RightsInv, TypeOK
<1> DEFINE r == [port[p] EXCEPT !.mscount = n]
<1>2. /\ port' = [port EXCEPT ![p] = r] /\ nosenders' = [nosenders EXCEPT ![p] = {}]
      /\ UNCHANGED <<alive, entry, dnrequests, naked, busy, deaths, held, early, stray>>
  BY <1>1 DEF mach_port_set_mscount, TypeOK
<1>3. /\ r \in PortRecords
      /\ Fields(r, port[p].active, port[p].dying, port[p].receiver, port[p].srights,
                port[p].sorights, n, port[p].refs, port[p].ns, port[p].pd)
  <2>1. n \in Nat
    BY PortRightsAssumption
  <2> QED
    BY <1>1, <2>1, RecChanged, Zenon
<1> HIDE DEF r
<1>4. port'[p] = r /\ nosenders'[p] = {}
  BY <1>1, <1>2 DEF TypeOK
<1>5. NoSendersOK(p)'
  BY <1>1, <1>2, <1>3, <1>4 DEF PortOK, NoSendersOK, Fields
<1>6. /\ nosenders' \in [Ports -> SUBSET (0 .. MaxMscount)] /\ early' \subseteq Ports
      /\ \A q \in Ports : q # p => nosenders'[q] = nosenders[q]
  BY <1>1, <1>2 DEF TypeOK
<1> QED
  BY <1>2, <1>3, <1>5, <1>6, RequestInv, Zenon DEF Fields

LEMMA DestroyDoneInv ==
  ASSUME RightsInv, NEW p \in Ports, DestroyDone(p) PROVE RightsInv'
<1>1. /\ TypeOK /\ PortOK(p) /\ PortT(p) /\ port[p] \in PortRecords
      /\ naked[p] \in NakedRights /\ port[p].dying
  BY PortTypes DEF RightsInv, TypeOK, DestroyDone
<1>2. port[p].refs > 0 /\ Bit(port[p].dying) = 1 /\ Bit(FALSE) = 0
  <2>1. Bit(port[p].dying) = 1 /\ Bit(FALSE) = 0
    BY <1>1 DEF Bit
  <2>2. PortT(p) /\ port[p].refs >= naked[p].send + naked[p].once + naked[p].dest
                                    + naked[p].receive + Bit(port[p].dying)
    BY <1>1, NakedCounted
  <2>3. /\ naked[p].send \in Nat /\ naked[p].once \in Nat /\ naked[p].dest \in Nat
        /\ naked[p].receive \in Nat /\ port[p].refs \in Nat
    BY <1>1 DEF PortT
  <2>4. port[p].refs >= naked[p].send + naked[p].once + naked[p].dest + naked[p].receive + 1
    BY <2>1, <2>2
  <2>5. port[p].refs > 0
    BY <2>3, <2>4
  <2> QED
    BY <2>1, <2>5
<1> DEFINE r == [port[p] EXCEPT !.dying = FALSE, !.refs = port[p].refs - 1]
<1>3. /\ port' = [port EXCEPT ![p] = r] /\ naked' = [naked EXCEPT ![p] = naked[p]]
      /\ UNCHANGED <<alive, entry, dnrequests, naked, busy, deaths, nosenders, held, early, stray>>
  BY <1>1, Zenon DEF DestroyDone, TypeOK
<1>4. /\ r \in PortRecords
      /\ Fields(r, port[p].active, FALSE, port[p].receiver, port[p].srights,
                port[p].sorights, port[p].mscount, port[p].refs - 1, port[p].ns, port[p].pd)
  <2>1. port[p].refs - 1 \in Nat /\ FALSE \in BOOLEAN
    BY <1>1, <1>2 DEF PortT
  <2> QED
    BY <1>1, <2>1, RecChanged, Zenon
<1> HIDE DEF r
<1>5. port'[p] = r
  BY <1>1, <1>3 DEF TypeOK
<1>6. NoSendersOK(p)'
  BY <1>1, <1>3, <1>4, <1>5, NoSendersKept DEF PortOK, Fields
<1>7. Balanced(p, r, naked[p])
  <2>1. r.refs - naked[p].send - naked[p].once - naked[p].dest - Bit(r.dying)
          = port[p].refs - naked[p].send - naked[p].once - naked[p].dest - Bit(port[p].dying)
    <3>1. Bit(r.dying) = 0 /\ r.refs = port[p].refs - 1 /\ PortT(p)
      BY <1>1, <1>4 DEF Fields, Bit
    <3> QED
      BY <1>2, <3>1 DEF PortT
  <2> QED
    BY <1>4, <2>1 DEF Balanced, Fields
<1>8. /\ nosenders' \in [Ports -> SUBSET (0 .. MaxMscount)] /\ early' \subseteq Ports
      /\ naked[p].send >= naked[p].send /\ naked[p].once >= naked[p].once
  BY <1>1, <1>3 DEF TypeOK, PortT
<1> QED
  BY <1>1, <1>3, <1>4, <1>6, <1>7, <1>8, PortAct

-----------------------------------------------------------------------------
(* The receive right goes, and with it, perhaps, the port.                 *)

LEMMA DestroyPortOK ==
  ASSUME RightsInv, NEW p \in Ports, NEW r \in PortRecords, NEW lost \in Nat,
         DestroyPort(p, r, lost), UNCHANGED busy,
         port[p].active, r.active, ~r.dying, r.receiver = None,
         r.srights = Cardinality(With(p, "send")') + naked[p].send + stray[p] + lost,
         r.sorights = Cardinality(With(p, "once")') + naked[p].once + naked[p].dest,
         r.refs = Cardinality(Pointers(p)') + naked[p].send + naked[p].once
                  + naked[p].dest + 1,
         Cardinality(With(p, "send")') \in Nat, Cardinality(With(p, "once")') \in Nat,
         Cardinality(Pointers(p)') \in Nat,
         \A x \in Slots : ~Has(entry'[x], p, "receive"),
         r.ns /\ p \notin early => r.srights > 0
  PROVE  /\ port' \in [Ports -> PortRecords] /\ naked' \in [Ports -> NakedRights]
         /\ nosenders' \in [Ports -> SUBSET (0 .. MaxMscount)]
         /\ stray' \in [Ports -> Nat] /\ early' \subseteq Ports
         /\ \A q \in Ports : q # p =>
              /\ port'[q] = port[q] /\ naked'[q] = naked[q] /\ stray'[q] = stray[q]
              /\ nosenders'[q] = nosenders[q] /\ (q \in early <=> q \in early')
         /\ PortOK(p)'
<1>1. /\ TypeOK /\ PortOK(p) /\ PortT(p)
      /\ port \in [Ports -> PortRecords] /\ naked \in [Ports -> NakedRights]
      /\ nosenders \in [Ports -> SUBSET (0 .. MaxMscount)]
      /\ stray \in [Ports -> Nat] /\ early \subseteq Ports
  BY PortTypes DEF RightsInv, TypeOK
<1>2. /\ nosenders' = [nosenders EXCEPT ![p] = {}]
      /\ nosenders' \in [Ports -> SUBSET (0 .. MaxMscount)] /\ nosenders'[p] = {}
      /\ \A q \in Ports : q # p => nosenders'[q] = nosenders[q]
  BY <1>1 DEF DestroyPort
<1>3. ClaimsOK(p)'
  <2>1. \A right : Claims(p, right)' = Claims(p, right)
    BY DEF Claims
  <2>2. naked'[p].send = naked[p].send /\ naked'[p].once = naked[p].once
    BY <1>1 DEF DestroyPort, PortT
  <2> QED
    BY <1>1, <2>1, <2>2 DEF PortOK, ClaimsOK
<1>4. ASSUME NEW v \in {0, 1}, naked' = [naked EXCEPT ![p].receive = v]
      PROVE  /\ naked' \in [Ports -> NakedRights]
             /\ naked'[p].send = naked[p].send /\ naked'[p].once = naked[p].once
             /\ naked'[p].dest = naked[p].dest /\ naked'[p].receive = v
             /\ \A q \in Ports : q # p => naked'[q] = naked[q]
  <2>1. LET n == [naked[p] EXCEPT !.receive = v]
        IN  /\ n \in NakedRights /\ n.send = naked[p].send /\ n.once = naked[p].once
            /\ n.dest = naked[p].dest /\ n.receive = v
    BY <1>1 DEF PortT, NakedRights
  <2>2. naked' = [naked EXCEPT ![p] = [naked[p] EXCEPT !.receive = v]]
    BY <1>1, <1>4
  <2> QED
    BY <1>1, <2>1, <2>2
<1>n. /\ naked[p].send \in Nat /\ naked[p].once \in Nat /\ naked[p].dest \in Nat
      /\ stray[p] \in Nat /\ Bit(FALSE) = 0 /\ Bit(TRUE) = 1
      /\ r.refs \in Nat /\ r.srights \in Nat /\ r.sorights \in Nat /\ r.mscount \in Nat
  BY <1>1, PortRightsAssumption DEF PortT, Bit, PortRecords
<1>5. CASE /\ port' = [port EXCEPT ![p] = [r EXCEPT !.pd = FALSE]]
           /\ naked' = [naked EXCEPT ![p].receive = 1]
           /\ stray' = [stray EXCEPT ![p] = @ + lost] /\ UNCHANGED early
  <2> DEFINE t == [r EXCEPT !.pd = FALSE]
  <2>1. t \in PortRecords /\ Fields(t, r.active, r.dying, r.receiver, r.srights,
                                    r.sorights, r.mscount, r.refs, r.ns, FALSE)
    <3>1. FALSE \in BOOLEAN
      OBVIOUS
    <3> QED
      BY <3>1, RecChanged, Zenon
  <2>2. port' = [port EXCEPT ![p] = t]
    BY <1>5
  <2> HIDE DEF t
  <2>3. /\ port' \in [Ports -> PortRecords] /\ port'[p] = t
        /\ \A q \in Ports : q # p => port'[q] = port[q]
    BY <1>1, <2>1, <2>2
  <2>4. /\ stray' \in [Ports -> Nat] /\ stray'[p] = stray[p] + lost
        /\ \A q \in Ports : q # p => stray'[q] = stray[q]
    BY <1>1, <1>5
  <2>5. /\ naked' \in [Ports -> NakedRights]
        /\ naked'[p].send = naked[p].send /\ naked'[p].once = naked[p].once
        /\ naked'[p].dest = naked[p].dest /\ naked'[p].receive = 1
        /\ \A q \in Ports : q # p => naked'[q] = naked[q]
    BY <1>4, <1>5
  <2>6. CountsOK(p)'
    <3>1. Bit(port'[p].dying) = 0
      BY <2>1, <2>3 DEF Fields, Bit
    <3>2. port'[p].refs = Cardinality(Pointers(p)') + naked'[p].send + naked'[p].once
                          + naked'[p].dest + naked'[p].receive + Bit(port'[p].dying)
      BY <1>n, <2>1, <2>3, <2>5, <3>1 DEF Fields
    <3>3. /\ port'[p].srights = Cardinality(With(p, "send")') + naked'[p].send + stray'[p]
          /\ port'[p].sorights = Cardinality(With(p, "once")') + naked'[p].once
                                 + naked'[p].dest
      BY <1>n, <2>1, <2>3, <2>4, <2>5 DEF Fields
    <3> QED
      BY <3>2, <3>3 DEF CountsOK
  <2>7. ReceiverOK(p)'
    BY <2>1, <2>3, <2>5, PortRightsAssumption, ZenonT(60) DEF ReceiverOK, Fields
  <2>8. NoSendersOK(p)'
    BY <1>2, <1>5, <2>1, <2>3 DEF NoSendersOK, Fields
  <2> QED
    BY <1>1, <1>2, <1>3, <1>5, <2>3, <2>4, <2>5, <2>6, <2>7, <2>8 DEF PortOK
<1>6. CASE /\ port' = [port EXCEPT ![p] = [r EXCEPT !.pd = FALSE, !.ns = FALSE,
                                                    !.srights = 0, !.sorights = 0,
                                                    !.active = FALSE, !.dying = TRUE]]
           /\ naked' = [naked EXCEPT ![p].receive = 0]
           /\ stray' = [stray EXCEPT ![p] = 0] /\ early' = early \ {p}
  <2> DEFINE t == [r EXCEPT !.pd = FALSE, !.ns = FALSE, !.srights = 0, !.sorights = 0,
                            !.active = FALSE, !.dying = TRUE]
  <2>1. t \in PortRecords /\ Fields(t, FALSE, TRUE, r.receiver, 0, 0, r.mscount, r.refs,
                                    FALSE, FALSE)
    <3>1. 0 \in Nat /\ FALSE \in BOOLEAN /\ None \in Slots \cup {None}
      OBVIOUS
    <3> QED
      BY <3>1, RecChanged, Zenon
  <2>2. port' = [port EXCEPT ![p] = t]
    BY <1>6
  <2> HIDE DEF t
  <2>3. /\ port' \in [Ports -> PortRecords] /\ port'[p] = t
        /\ \A q \in Ports : q # p => port'[q] = port[q]
    BY <1>1, <2>1, <2>2
  <2>4. /\ stray' \in [Ports -> Nat]
        /\ \A q \in Ports : q # p => stray'[q] = stray[q]
    BY <1>1, <1>6
  <2>5. /\ naked' \in [Ports -> NakedRights]
        /\ naked'[p].send = naked[p].send /\ naked'[p].once = naked[p].once
        /\ naked'[p].dest = naked[p].dest /\ naked'[p].receive = 0
        /\ \A q \in Ports : q # p => naked'[q] = naked[q]
    BY <1>4, <1>6
  <2>6. CountsOK(p)'
    <3>1. Bit(port'[p].dying) = 1
      BY <2>1, <2>3 DEF Fields, Bit
    <3>2. port'[p].refs = Cardinality(Pointers(p)') + naked'[p].send + naked'[p].once
                          + naked'[p].dest + naked'[p].receive + Bit(port'[p].dying)
      BY <1>n, <2>1, <2>3, <2>5, <3>1 DEF Fields
    <3>3. ~port'[p].active
      BY <2>1, <2>3 DEF Fields
    <3> QED
      BY <3>2, <3>3 DEF CountsOK
  <2>7. ReceiverOK(p)'
    BY <2>1, <2>3, <2>5, PortRightsAssumption DEF ReceiverOK, Fields
  <2>8. NoSendersOK(p)'
    BY <1>2, <2>1, <2>3 DEF NoSendersOK, Fields
  <2>9. early' \subseteq Ports /\ \A q \in Ports : q # p => (q \in early <=> q \in early')
    BY <1>1, <1>6
  <2> QED
    BY <1>2, <1>3, <2>3, <2>4, <2>5, <2>6, <2>7, <2>8, <2>9 DEF PortOK
<1> QED
  BY <1>5, <1>6 DEF DestroyPort

LEMMA ReleaseReceiveInv ==
  ASSUME RightsInv, NEW p \in Ports, ipc_port_release_receive(p) PROVE RightsInv'
<1>1. /\ TypeOK /\ PortOK(p) /\ PortT(p) /\ port[p] \in PortRecords
      /\ naked[p].receive = 1 /\ DestroyPort(p, port[p], 0)
      /\ UNCHANGED <<alive, entry, dnrequests, busy, deaths, held>>
  <2>1. naked[p].receive \in {0, 1} /\ naked[p].receive > 0
    BY PortTypes DEF RightsInv, PortT, ipc_port_release_receive
  <2> QED
    BY <2>1, PortTypes DEF RightsInv, TypeOK, ipc_port_release_receive
<1>2. /\ port[p].active /\ ~port[p].dying /\ port[p].receiver = None
      /\ \A x \in Slots : ~Has(entry'[x], p, "receive")
  BY <1>1, PortRightsAssumption DEF PortOK, ReceiverOK
<1>3. /\ \A right : With(p, right)' = With(p, right) /\ Pointers(p)' = Pointers(p)
  BY <1>1 DEF With, Pointers
<1>4. /\ Cardinality(With(p, "send")) \in Nat /\ Cardinality(With(p, "once")) \in Nat
      /\ Cardinality(Pointers(p)) \in Nat
  BY CountsNat
<1>5. /\ port[p].srights = Cardinality(With(p, "send")) + naked[p].send + stray[p] + 0
      /\ port[p].sorights = Cardinality(With(p, "once")) + naked[p].once + naked[p].dest
      /\ port[p].refs = Cardinality(Pointers(p)) + naked[p].send + naked[p].once
                        + naked[p].dest + 1
  <2>1. Bit(port[p].dying) = 0
    BY <1>2 DEF Bit
  <2> QED
    BY <1>1, <1>2, <1>4, <2>1 DEF PortOK, CountsOK, PortT
<1>6. /\ TypeOK' /\ PortOK(p)'
      /\ \A q \in Ports : q # p =>
           /\ port'[q] = port[q] /\ naked'[q] = naked[q] /\ stray'[q] = stray[q]
           /\ nosenders'[q] = nosenders[q] /\ (q \in early <=> q \in early')
  <2>1. port[p].ns /\ p \notin early => port[p].srights > 0
    BY <1>1, <1>2 DEF PortOK, NoSendersOK
  <2>2. /\ port' \in [Ports -> PortRecords] /\ naked' \in [Ports -> NakedRights]
        /\ nosenders' \in [Ports -> SUBSET (0 .. MaxMscount)]
        /\ stray' \in [Ports -> Nat] /\ early' \subseteq Ports
        /\ \A q \in Ports : q # p =>
             /\ port'[q] = port[q] /\ naked'[q] = naked[q] /\ stray'[q] = stray[q]
             /\ nosenders'[q] = nosenders[q] /\ (q \in early <=> q \in early')
        /\ PortOK(p)'
    BY <1>1, <1>2, <1>3, <1>4, <1>5, <2>1, DestroyPortOK
  <2>3. TypeOK'
    BY <1>1, <2>2 DEF TypeOK
  <2> QED
    BY <2>2, <2>3
<1> QED
  BY <1>1, <1>2, <1>6, FramedPort

-----------------------------------------------------------------------------
(* Dead names, and entries whose port has died.                            *)

\* What ipc_right_check makes of an entry.
LEMMA CheckedFacts ==
  ASSUME RightsInv, NEW slot \in Slots
  PROVE  /\ Checked(slot) \in Entries
         /\ Stale(slot) => /\ Checked(slot).type = {"dead"} /\ Checked(slot).port = None
                           /\ entry[slot].port \in Ports
         /\ ~Stale(slot) => Checked(slot) = entry[slot]
         /\ Checked(slot).port = None =>
              Checked(slot).urefs = entry[slot].urefs + Bit(entry[slot].request)
         /\ entry[slot].port = None => ~entry[slot].request /\ ~Stale(slot)
<1> DEFINE e == entry[slot]
<1>1. /\ e \in Entries /\ e.port \in Ports \cup {None} /\ e.type \in Types
      /\ e.urefs \in Nat /\ e.urefs <= UrefsMax /\ e.request \in BOOLEAN
      /\ e.port = None <=> e.type = {} \/ e.type = {"dead"}
      /\ e.urefs = 0 <=> e.type = {} \/ e.type = {"receive"}
      /\ e.urefs = UrefsMax => e.type = {"dead"}
      /\ e.request => e.port # None
  BY EntryOf, EntryFacts
<1>2. CASE ~Stale(slot)
  <2>1. Checked(slot) = e
    BY <1>2 DEF Checked
  <2>2. e.port = None => e.urefs = e.urefs + Bit(e.request)
    BY <1>1 DEF Bit
  <2> QED
    BY <1>1, <1>2, <2>1, <2>2
<1>3. CASE Stale(slot)
  <2>1. e.port \in Ports /\ e.port # None /\ ~port[e.port].active
    BY <1>1, <1>3 DEF Stale
  <2>2. e.type # {"receive"}
    BY <2>1, EntryOf
  <2>3. /\ e.urefs \in Nat /\ e.urefs > 0 /\ e.urefs < UrefsMax
    <3>1. e.urefs # 0 /\ e.urefs # UrefsMax
      BY <1>1, <2>1, <2>2
    <3> QED
      BY <1>1, <3>1, PortRightsAssumption
  <2> DEFINE n == e.urefs + (IF e.request THEN 1 ELSE 0)
  <2>4. n \in 0 .. UrefsMax /\ n # 0 /\ n = e.urefs + Bit(e.request)
    BY <1>1, <2>3, PortRightsAssumption DEF Bit
  <2>5. Checked(slot) = [port |-> None, type |-> {"dead"}, urefs |-> n, request |-> FALSE]
    BY <1>3 DEF Checked, Convert, Empty
  <2> HIDE DEF n
  <2>6. [port |-> None, type |-> {"dead"}, urefs |-> n, request |-> FALSE] \in Entries
    <3>1. {"dead"} \in Types /\ {"dead"} # {} /\ {"dead"} # {"receive"} /\ {"dead"} # {"once"}
      BY DEF Types
    <3> QED
      BY <2>4, <3>1 DEF Entries
  <2> QED
    BY <1>1, <1>3, <2>1, <2>4, <2>5, <2>6
<1> QED
  BY <1>2, <1>3

\* An entry becomes, or stays, a dead name or nothing.
LEMMA DeadAct ==
  ASSUME RightsInv, NEW slot \in Slots, NEW e \in Entries, e.port = None,
         entry' = [entry EXCEPT ![slot] = e], port' = CheckedPorts(slot),
         entry[slot].port = None \/ Stale(slot), busy[slot[1]] = None,
         UNCHANGED <<alive, dnrequests, naked, busy, nosenders, early, stray>>,
         held' \in [Slots -> Int], deaths' \in [Slots -> Nat],
         \A x \in Slots : x # slot => held'[x] = held[x] /\ deaths'[x] = deaths[x],
         slot[1] \in alive => e.urefs = held'[slot] + deaths'[slot] + Owed(slot)
  PROVE  RightsInv'
<1>1. /\ TypeOK /\ SlotOK(slot) /\ entry \in [Slots -> Entries]
  BY DEF RightsInv, TypeOK
<1>2. entry' \in [Slots -> Entries] /\ entry'[slot] = e
      /\ \A x \in Slots : x # slot => entry'[x] = entry[x]
  BY <1>1
<1>3. /\ e.type \cap {"send", "receive"} = {} /\ e.request = FALSE
      /\ \A q \in Ports : \A right : ~Has(e, q, right)
      /\ e.urefs \in Nat
  <2>1. /\ e.type = {} \/ e.type = {"dead"}
        /\ e.request = FALSE /\ e.urefs \in Nat
    BY EntryFacts
  <2>2. \A q \in Ports : q # None
    BY PortRightsAssumption
  <2> QED
    BY <2>1, <2>2 DEF Has
<1>4. SlotOK(slot)'
  <2>1. Requests(slot)' = Requests(slot)
    BY DEF Requests
  <2>2. e.urefs + Bit(e.request) = e.urefs
    BY <1>3 DEF Bit
  <2> QED
    BY <1>1, <1>2, <1>3, <2>1, <2>2 DEF SlotOK, Owed
<1>5. CASE entry[slot].port = None
  <2>1. port' = port
    BY <1>5, CheckedFacts DEF CheckedPorts
  <2>2. TypeOK'
    BY <1>1, <1>2, <2>1 DEF TypeOK
  <2>3. None \notin Ports
    BY PortRightsAssumption
  <2> QED
    BY <1>2, <1>3, <1>4, <1>5, <2>1, <2>2, <2>3, Framed
<1>6. CASE Stale(slot)
  <2>0. PICK p \in Ports : p = entry[slot].port /\ ~port[p].active
    BY <1>6, CheckedFacts DEF Stale
  <2>1. PortOK(p) /\ PortT(p) /\ port[p] \in PortRecords
    BY <1>1, PortTypes DEF RightsInv, TypeOK
  <2>2. /\ Cardinality(Pointers(p)) \in Nat /\ Cardinality(Pointers(p)) > 0
    BY <2>0, CountsNat
  <2>3. Cardinality(Pointers(p)') = Cardinality(Pointers(p)) - 1
    <3>1. e.port # p
      BY PortRightsAssumption
    <3> QED
      BY <1>1, <2>0, <3>1, PointerGone
  <2> DEFINE r == [port[p] EXCEPT !.refs = port[p].refs - 1]
  <2>4. /\ port[p].refs > 0
        /\ port[p].refs - 1 = Cardinality(Pointers(p)') + naked[p].send + naked[p].once
                              + naked[p].dest + naked[p].receive + Bit(port[p].dying)
    <3>1. Bit(port[p].dying) \in {0, 1}
      BY DEF Bit
    <3> QED
      BY <2>1, <2>2, <2>3, <3>1 DEF PortOK, CountsOK, PortT
  <2>5. r \in PortRecords /\ Fields(r, port[p].active, port[p].dying, port[p].receiver,
                                    port[p].srights, port[p].sorights, port[p].mscount,
                                    port[p].refs - 1, port[p].ns, port[p].pd)
    <3>1. port[p].refs - 1 \in Nat
      BY <2>1, <2>4 DEF PortT
    <3> QED
      BY <2>1, <3>1, RecChanged, Zenon
  <2>6. port' = [port EXCEPT ![p] = r]
    BY <1>1, <1>6, <2>0 DEF CheckedPorts, TypeOK
  <2> HIDE DEF r
  <2>7. /\ port'[p] = r /\ port' \in [Ports -> PortRecords]
        /\ \A q \in Ports : q # p => port'[q] = port[q]
    BY <1>1, <2>5, <2>6 DEF TypeOK
  <2>8. TypeOK'
    BY <1>1, <1>2, <2>7 DEF TypeOK
  <2>9. PortOK(p)'
    <3>1. CountsOK(p)'
      BY <2>0, <2>4, <2>5, <2>7 DEF CountsOK, Fields
    <3>2. ReceiverOK(p)'
      <4>1. ~Has(entry[slot], p, "receive") /\ port[p].receiver # slot
        BY <2>0, <2>1, PortRightsAssumption DEF PortOK, ReceiverOK
      <4>2. \A x \in Slots : Has(entry'[x], p, "receive") <=> Has(entry[x], p, "receive")
        BY <1>2, <1>3, <4>1
      <4> QED
        BY <2>1, <2>5, <2>7, <4>2 DEF PortOK, ReceiverOK, Fields
    <3>3. ClaimsOK(p)'
      <4>1. \A right : Claims(p, right)' = Claims(p, right)
        BY DEF Claims
      <4> QED
        BY <2>1, <4>1 DEF PortOK, ClaimsOK
    <3>4. NoSendersOK(p)'
      BY <2>1, <2>5, <2>7, NoSendersKept DEF PortOK, Fields
    <3> QED
      BY <3>1, <3>2, <3>3, <3>4 DEF PortOK
  <2>10. port'[p].active => port[p].active
    BY <2>5, <2>7 DEF Fields
  <2> QED
    BY <1>2, <1>3, <1>4, <2>0, <2>7, <2>8, <2>9, <2>10, Framed
<1> QED
  BY <1>5, <1>6

-----------------------------------------------------------------------------
(* Steps of one entry and the port that it points to.                      *)

\* The rights and references of the entry, which becomes e, move to or from the
\* naked ones, which become n, or to or from nowhere; the fields r count them.
Moved(slot, p, e, r, n) ==
  /\ r.active =>
       /\ r.srights - n.send - Bit(Has(e, p, "send"))
            = port[p].srights - naked[p].send - Bit(Has(entry[slot], p, "send"))
       /\ r.sorights - n.once - n.dest - Bit(Has(e, p, "once"))
            = port[p].sorights - naked[p].once - naked[p].dest
              - Bit(Has(entry[slot], p, "once"))
  /\ r.refs - n.send - n.once - n.dest - n.receive - Bit(e.port = p)
       = port[p].refs - naked[p].send - naked[p].once - naked[p].dest - naked[p].receive
         - Bit(entry[slot].port = p)

\* All of such a step but what it means for the calls under way.
Touched(slot, p, e, r, n) ==
  /\ entry[slot].port \in {p, None} /\ e.port \in {p, None}
  /\ entry' = [entry EXCEPT ![slot] = e] /\ port' = [port EXCEPT ![p] = r]
  /\ naked' = [naked EXCEPT ![p] = n] /\ UNCHANGED <<alive, stray>>
  /\ dnrequests' \in [Ports -> [Slots -> Nat]] /\ held' \in [Slots -> Int]
  /\ deaths' \in [Slots -> Nat] /\ early' \subseteq Ports
  /\ nosenders' \in [Ports -> SUBSET (0 .. MaxMscount)]
  /\ \A x \in Slots : x # slot =>
       /\ held'[x] = held[x] /\ deaths'[x] = deaths[x]
       /\ \A q \in Ports : dnrequests'[q][x] = dnrequests[q][x]
  /\ \A q \in Ports : q # p => nosenders'[q] = nosenders[q] /\ (q \in early <=> q \in early')
  /\ r.active = port[p].active /\ r.dying = port[p].dying
  /\ Moved(slot, p, e, r, n)
  /\ ReceiverOK(p)' /\ NoSendersOK(p)' /\ SlotOK(slot)'
  /\ \/ e.type \cap {"send", "receive"} = {}
     \/ /\ entry[slot].type \cap {"send", "receive"} # {}
        /\ e.port = entry[slot].port
     \/ \A y \in Slots : y[1] = slot[1] /\ entry[y].port = e.port =>
                           entry[y].type \cap {"send", "receive"} = {}

LEMMA SumMoved ==
  ASSUME NEW w \in Nat, NEW x \in Nat, NEW y \in Nat, NEW a \in Nat, NEW b \in Nat,
         NEW m \in Nat, NEW n \in Nat, NEW o \in Nat, NEW q \in Nat,
         NEW i \in Nat, NEW j \in Nat, NEW k \in Nat, NEW l \in Nat, NEW d \in Nat
  PROVE  /\ b = w + n + k /\ a - m - x = b - n - y => a = w + x - y + m + k
         /\ b = w + n + q /\ a - m - o - x = b - n - q - y => a = w + x - y + m + o
         /\ b = w + n + q + j + l + d /\ a - m - o - i - k - x = b - n - q - j - l - y
              => a = w + x - y + m + o + i + k + d
OBVIOUS

LEMMA MovedCounts ==
  ASSUME RightsInv, NEW slot \in Slots, NEW p \in Ports, NEW e \in Entries,
         NEW r \in PortRecords, NEW n \in NakedRights,
         entry' = [entry EXCEPT ![slot] = e], port'[p] = r, naked'[p] = n,
         stray' = stray, r.active = port[p].active, r.dying = port[p].dying,
         Moved(slot, p, e, r, n)
  PROVE  CountsOK(p)'
<1>1. TypeOK /\ CountsOK(p) /\ PortT(p) /\ entry \in [Slots -> Entries]
  BY PortTypes DEF RightsInv, PortOK, TypeOK
<1>2. /\ r.srights \in Nat /\ r.sorights \in Nat /\ r.refs \in Nat
      /\ n.send \in Nat /\ n.once \in Nat /\ n.dest \in Nat /\ n.receive \in Nat
  BY DEF PortRecords, NakedRights
<1>3. /\ Cardinality(With(p, "send")) \in Nat /\ Cardinality(With(p, "once")) \in Nat
      /\ Cardinality(Pointers(p)) \in Nat
  BY CountsNat
<1> DEFINE s1 == Bit(Has(e, p, "send"))
           s0 == Bit(Has(entry[slot], p, "send"))
           o1 == Bit(Has(e, p, "once"))
           o0 == Bit(Has(entry[slot], p, "once"))
           e1 == Bit(e.port = p)
           e0 == Bit(entry[slot].port = p)
           d == Bit(port[p].dying)
<1>4. /\ s1 \in Nat /\ s0 \in Nat /\ o1 \in Nat /\ o0 \in Nat /\ e1 \in Nat /\ e0 \in Nat
      /\ d \in Nat
  BY DEF Bit
<1>5. /\ Cardinality(With(p, "send")') = Cardinality(With(p, "send")) + s1 - s0
      /\ Cardinality(With(p, "once")') = Cardinality(With(p, "once")) + o1 - o0
      /\ Cardinality(Pointers(p)') = Cardinality(Pointers(p)) + e1 - e0
  BY <1>1, EntryCounts
<1>6. /\ r.active => /\ r.srights - n.send - s1 = port[p].srights - naked[p].send - s0
                     /\ r.sorights - n.once - n.dest - o1
                          = port[p].sorights - naked[p].once - naked[p].dest - o0
      /\ r.refs - n.send - n.once - n.dest - n.receive - e1
           = port[p].refs - naked[p].send - naked[p].once - naked[p].dest - naked[p].receive
             - e0
  BY DEF Moved
<1>7. /\ port[p].active =>
           /\ port[p].srights = Cardinality(With(p, "send")) + naked[p].send + stray[p]
           /\ port[p].sorights = Cardinality(With(p, "once")) + naked[p].once + naked[p].dest
      /\ port[p].refs = Cardinality(Pointers(p)) + naked[p].send + naked[p].once
                        + naked[p].dest + naked[p].receive + d
      /\ Bit(r.dying) = d
  BY <1>1 DEF CountsOK
<1> HIDE DEF s1, s0, o1, o0, e1, e0, d
<1>8. /\ r.active =>
           /\ r.srights = Cardinality(With(p, "send")') + n.send + stray[p]
           /\ r.sorights = Cardinality(With(p, "once")') + n.once + n.dest
      /\ r.refs = Cardinality(Pointers(p)') + n.send + n.once + n.dest + n.receive + d
  <2>1. /\ port[p].srights \in Nat /\ port[p].sorights \in Nat /\ port[p].refs \in Nat
        /\ naked[p].send \in Nat /\ naked[p].once \in Nat /\ naked[p].dest \in Nat
        /\ naked[p].receive \in Nat /\ stray[p] \in Nat
    BY <1>1 DEF PortT
  <2>2. r.active => r.srights = Cardinality(With(p, "send")') + n.send + stray[p]
    BY <1>2, <1>3, <1>4, <1>5, <1>6, <1>7, <2>1, SumMoved
  <2>3. r.active => r.sorights = Cardinality(With(p, "once")') + n.once + n.dest
    BY <1>2, <1>3, <1>4, <1>5, <1>6, <1>7, <2>1, SumMoved
  <2>4. r.refs = Cardinality(Pointers(p)') + n.send + n.once + n.dest + n.receive + d
    BY <1>2, <1>3, <1>4, <1>5, <1>6, <1>7, <2>1, SumMoved
  <2> QED
    BY <2>2, <2>3, <2>4
<1> QED
  BY <1>7, <1>8 DEF CountsOK

LEMMA SlotAct ==
  ASSUME RightsInv, NEW slot \in Slots, NEW p \in Ports, NEW e \in Entries,
         NEW r \in PortRecords, NEW n \in NakedRights, Touched(slot, p, e, r, n),
         busy' \in [Spaces -> {None} \cup Calls], ClaimsOK(p)',
         \/ busy' = busy /\ busy[slot[1]] = None
         \/ /\ \A s \in Spaces : s # slot[1] => busy'[s] = busy[s]
            /\ busy[slot[1]] # None => busy[slot[1]].port = p
            /\ busy'[slot[1]] # None => busy'[slot[1]].port = p
            /\ BusyOK(slot[1])'
  PROVE  RightsInv'
<1>1. TypeOK /\ PortOK(p)
  BY DEF RightsInv
<1>2. /\ entry' = [entry EXCEPT ![slot] = e] /\ port' = [port EXCEPT ![p] = r]
      /\ naked' = [naked EXCEPT ![p] = n] /\ UNCHANGED <<alive, stray>>
      /\ r.active = port[p].active /\ r.dying = port[p].dying
      /\ Moved(slot, p, e, r, n)
      /\ ReceiverOK(p)' /\ NoSendersOK(p)' /\ SlotOK(slot)'
  BY DEF Touched
<1>3. /\ entry' \in [Slots -> Entries] /\ entry'[slot] = e
      /\ \A x \in Slots : x # slot => entry'[x] = entry[x]
      /\ port' \in [Ports -> PortRecords] /\ port'[p] = r
      /\ naked' \in [Ports -> NakedRights] /\ naked'[p] = n
      /\ \A q \in Ports : q # p => port'[q] = port[q] /\ naked'[q] = naked[q]
  BY <1>1, <1>2 DEF TypeOK
<1>4. TypeOK'
  BY <1>1, <1>2, <1>3 DEF TypeOK, Touched
<1>5. PortOK(p)'
  <2>1. CountsOK(p)'
    BY <1>2, <1>3, MovedCounts
  <2> QED
    BY <1>2, <2>1 DEF PortOK
<1>6. entry[slot].port \in {p, None} /\ entry'[slot].port \in {p, None}
  BY <1>3 DEF Touched
<1>7. \A x \in Slots : x # slot =>
        /\ entry'[x] = entry[x] /\ held'[x] = held[x] /\ deaths'[x] = deaths[x]
        /\ \A q \in Ports : dnrequests'[q][x] = dnrequests[q][x]
  BY <1>3 DEF Touched
<1>8. \A q \in Ports : q # p =>
        /\ port'[q] = port[q] /\ naked'[q] = naked[q] /\ stray'[q] = stray[q]
        /\ nosenders'[q] = nosenders[q] /\ (q \in early <=> q \in early')
  BY <1>2, <1>3 DEF Touched
<1>9. \/ entry'[slot].type \cap {"send", "receive"} = {}
      \/ /\ entry[slot].type \cap {"send", "receive"} # {}
         /\ entry'[slot].port = entry[slot].port
      \/ \A y \in Slots : y[1] = slot[1] /\ entry[y].port = entry'[slot].port =>
                            entry[y].type \cap {"send", "receive"} = {}
  BY <1>3 DEF Touched
<1>10. /\ port'[p].active => port[p].active
  BY <1>2, <1>3
<1> QED
  BY <1>2, <1>4, <1>5, <1>6, <1>7, <1>8, <1>9, <1>10, Framed

LEMMA ReceiverKept ==
  ASSUME NEW p, ReceiverOK(p), NEW slot \in Slots,
         port'[p].active = port[p].active, port'[p].dying = port[p].dying,
         port'[p].receiver = port[p].receiver, naked'[p].receive = naked[p].receive,
         \A x \in Slots : x # slot => entry'[x] = entry[x],
         Has(entry'[slot], p, "receive") <=> Has(entry[slot], p, "receive")
  PROVE  ReceiverOK(p)'
<1>1. \A x \in Slots : Has(entry'[x], p, "receive") <=> Has(entry[x], p, "receive")
  OBVIOUS
<1> QED
  BY <1>1 DEF ReceiverOK

LEMMA ClaimsKept ==
  ASSUME RightsInv, NEW p \in Ports, busy' = busy,
         naked'[p].send \in Nat, naked'[p].once \in Nat,
         \/ naked'[p].send >= naked[p].send
         \/ Free(p, "send") > 0 /\ naked'[p].send = naked[p].send - 1,
         \/ naked'[p].once >= naked[p].once
         \/ Free(p, "once") > 0 /\ naked'[p].once = naked[p].once - 1
  PROVE  ClaimsOK(p)'
<1>1. \A right : Claims(p, right)' = Claims(p, right)
  BY DEF Claims
<1>2. Cardinality(Claims(p, "send")) \in Nat /\ Cardinality(Claims(p, "once")) \in Nat
  BY CountsNat
<1>3. /\ Free(p, "send") = naked[p].send - Cardinality(Claims(p, "send"))
      /\ Free(p, "once") = naked[p].once - Cardinality(Claims(p, "once"))
  BY DEF Free, Claims
<1>4. naked[p].send \in Nat /\ naked[p].once \in Nat /\ ClaimsOK(p)
  BY PortTypes DEF RightsInv, PortT, PortOK
<1>5. /\ Cardinality(Claims(p, "send")) <= naked'[p].send
      /\ Cardinality(Claims(p, "once")) <= naked'[p].once
  BY <1>2, <1>3, <1>4 DEF ClaimsOK
<1> QED
  BY <1>1, <1>5 DEF ClaimsOK

\* The references that the entry has more or less are the task's, which a
\* request that is cancelled or kept has no part in.
LEMMA RefsMoved ==
  ASSUME RightsInv, NEW slot \in Slots, NEW e \in Entries, entry'[slot] = e,
         UNCHANGED <<alive, deaths>>, held' \in [Slots -> Int],
         slot[1] \in alive => held'[slot] = held[slot] + e.urefs - entry[slot].urefs,
         \/ /\ dnrequests' = dnrequests /\ e.request = entry[slot].request
            /\ e.request => /\ e.port = entry[slot].port
                            /\ port'[e.port].active => port[e.port].active
         \/ /\ dnrequests' = Cancelled(slot) /\ ~e.request
            /\ entry[slot].request => port[entry[slot].port].active
  PROVE  /\ SlotOK(slot)' /\ dnrequests' \in [Ports -> [Slots -> Nat]]
         /\ \A x \in Slots : x # slot =>
              \A q \in Ports : dnrequests'[q][x] = dnrequests[q][x]
<1>1. /\ TypeOK /\ SlotOK(slot) /\ dnrequests \in [Ports -> [Slots -> Nat]]
      /\ held[slot] \in Int /\ deaths[slot] \in Nat /\ entry[slot] \in Entries
      /\ IsFiniteSet(Requests(slot))
  BY DEF RightsInv, TypeOK, SlotOK
<1>2. /\ e.urefs \in Nat /\ entry[slot].urefs \in Nat /\ e.request \in BOOLEAN
      /\ entry[slot].request \in BOOLEAN
      /\ entry[slot].request => entry[slot].port \in Ports
  BY <1>1, EntryFacts
<1>3. Owed(slot) \in Nat
  BY <1>1, FS_CardinalityType DEF Owed
<1>4. slot[1] \in alive =>
        entry[slot].urefs + Bit(entry[slot].request) = held[slot] + deaths[slot] + Owed(slot)
  BY <1>1 DEF SlotOK
<1>5. CASE dnrequests' = dnrequests /\ e.request = entry[slot].request
  <2>1. Requests(slot)' = Requests(slot)
    BY <1>5 DEF Requests
  <2>2. Owed(slot)' = Owed(slot)
    BY <2>1 DEF Owed
  <2>3. Bit(e.request) = Bit(entry[slot].request) /\ Bit(e.request) \in Nat
    BY <1>5 DEF Bit
  <2>4. slot[1] \in alive => e.urefs + Bit(e.request) = held'[slot] + deaths[slot] + Owed(slot)
    <3>1. ASSUME NEW a \in Int, NEW b \in Int, NEW h \in Int, NEW w \in Int, NEW k \in Int,
                 NEW c \in Int, a + c = h + k + w
          PROVE  b + c = h + b - a + k + w
      BY <3>1
    <3>2. ASSUME slot[1] \in alive
          PROVE  e.urefs + Bit(e.request) = held'[slot] + deaths[slot] + Owed(slot)
      <4>1. held'[slot] = held[slot] + e.urefs - entry[slot].urefs
        BY <3>2
      <4>2. entry[slot].urefs + Bit(e.request) = held[slot] + deaths[slot] + Owed(slot)
        BY <1>4, <2>3, <3>2
      <4>3. /\ e.urefs \in Int /\ entry[slot].urefs \in Int /\ held[slot] \in Int
            /\ deaths[slot] \in Int /\ Owed(slot) \in Int /\ Bit(e.request) \in Int
        BY <1>1, <1>2, <1>3, <2>3
      <4>4. e.urefs + Bit(e.request)
              = held[slot] + e.urefs - entry[slot].urefs + deaths[slot] + Owed(slot)
        BY <3>1, <4>2, <4>3
      <4> QED
        BY <4>1, <4>4, Zenon
    <3> QED
      BY <3>2
  <2>5. e.request /\ port'[e.port].active => dnrequests'[e.port][slot] > 0
    <3>1. ASSUME e.request /\ port'[e.port].active
          PROVE  e.port = entry[slot].port /\ entry[slot].request /\ port[e.port].active
                 /\ dnrequests' = dnrequests
      BY <1>5, <3>1
    <3> QED
      BY <1>1, <3>1 DEF SlotOK
  <2> QED
    BY <1>1, <1>5, <2>1, <2>2, <2>4, <2>5 DEF SlotOK
<1>6. CASE dnrequests' = Cancelled(slot) /\ ~e.request /\ ~entry[slot].request
  BY <1>2, <1>5, <1>6 DEF Cancelled
<1>7. CASE dnrequests' = Cancelled(slot) /\ ~e.request /\ entry[slot].request
  <2>0. PICK q \in Ports : q = entry[slot].port
    BY <1>2, <1>7
  <2>1. entry[slot].request => port[entry[slot].port].active
    BY <1>7
  <2> DEFINE d == dnrequests[q][slot] - 1
  <2>2. dnrequests[q][slot] \in Nat /\ dnrequests[q][slot] > 0
    BY <1>1, <1>7, <2>0, <2>1 DEF SlotOK
  <2>3. d \in Nat
    BY <2>2
  <2>4. dnrequests' = [dnrequests EXCEPT ![q][slot] = d]
    BY <1>7, <2>0 DEF Cancelled
  <2>5. /\ dnrequests' \in [Ports -> [Slots -> Nat]]
        /\ \A x \in Slots : x # slot => \A z \in Ports : dnrequests'[z][x] = dnrequests[z][x]
    BY <1>1, <2>3, <2>4
  <2>6. /\ IsFiniteSet(Requests(slot))' /\ Owed(slot)' \in Nat
        /\ Owed(slot)' = Owed(slot) + d - dnrequests[q][slot]
    BY <1>1, <2>3, <2>4, RequestsChange
  <2>7. Bit(e.request) = 0 /\ Bit(entry[slot].request) = 1
    BY <1>7 DEF Bit
  <2>8. slot[1] \in alive => e.urefs + Bit(e.request) = held'[slot] + deaths[slot] + Owed(slot)'
    <3>1. Owed(slot)' = Owed(slot) - 1
      BY <1>3, <2>2, <2>6
    <3>2. e.urefs + Bit(e.request) = e.urefs /\ held'[slot] \in Int
      BY <1>2, <2>7
    <3>3. slot[1] \in alive => entry[slot].urefs + 1 = held[slot] + deaths[slot] + Owed(slot)
      BY <1>4, <2>7
    <3>4. ASSUME NEW a \in Int, NEW b \in Int, NEW h \in Int, NEW w \in Int, NEW k \in Int,
                 a + 1 = h + k + w
          PROVE  b = h + b - a + k + (w - 1)
      BY <3>4
    <3>5. ASSUME slot[1] \in alive PROVE e.urefs = held'[slot] + deaths[slot] + Owed(slot)'
      <4>1. held'[slot] = held[slot] + e.urefs - entry[slot].urefs
        BY <3>5
      <4>2. e.urefs = held[slot] + e.urefs - entry[slot].urefs + deaths[slot] + (Owed(slot) - 1)
        <5>1. /\ e.urefs \in Int /\ entry[slot].urefs \in Int /\ held[slot] \in Int
              /\ deaths[slot] \in Int /\ Owed(slot) \in Int
          BY <1>1, <1>2, <1>3
        <5>2. entry[slot].urefs + 1 = held[slot] + deaths[slot] + Owed(slot)
          BY <3>3, <3>5
        <5> QED
          BY <3>4, <5>1, <5>2
      <4> QED
        BY <3>1, <4>1, <4>2
    <3> QED
      BY <3>2, <3>5
  <2> QED
    BY <1>7, <2>5, <2>6, <2>8 DEF SlotOK
<1> QED
  BY <1>2, <1>5, <1>6, <1>7

LEMMA TouchedBy ==
  ASSUME RightsInv, NEW slot \in Slots, NEW p \in Ports, NEW e \in Entries,
         NEW r \in PortRecords, NEW n \in NakedRights,
         entry[slot].port \in {p, None}, e.port \in {p, None},
         entry' = [entry EXCEPT ![slot] = e], port' = [port EXCEPT ![p] = r],
         naked' = [naked EXCEPT ![p] = n], UNCHANGED <<alive, stray, deaths, early>>,
         held' \in [Slots -> Int], \A x \in Slots : x # slot => held'[x] = held[x],
         held'[slot] = held[slot] + e.urefs - entry[slot].urefs \/ slot[1] \notin alive,
         \/ /\ dnrequests' = dnrequests /\ e.request = entry[slot].request
            /\ e.request => e.port = entry[slot].port
         \/ /\ dnrequests' = Cancelled(slot) /\ ~e.request
            /\ entry[slot].request => port[entry[slot].port].active,
         nosenders' \in [Ports -> SUBSET (0 .. MaxMscount)],
         \A q \in Ports : q # p => nosenders'[q] = nosenders[q],
         r.active = port[p].active, r.dying = port[p].dying,
         Moved(slot, p, e, r, n), ReceiverOK(p)', NoSendersOK(p)',
         \/ e.type \cap {"send", "receive"} = {}
         \/ /\ entry[slot].type \cap {"send", "receive"} # {}
            /\ e.port = entry[slot].port
         \/ \A y \in Slots : y[1] = slot[1] /\ entry[y].port = e.port =>
                               entry[y].type \cap {"send", "receive"} = {}
  PROVE  Touched(slot, p, e, r, n)
<1>1. /\ TypeOK /\ early \subseteq Ports /\ deaths \in [Slots -> Nat]
      /\ entry \in [Slots -> Entries] /\ port \in [Ports -> PortRecords]
  BY DEF RightsInv, TypeOK
<1>2. entry'[slot] = e /\ port'[p] = r
  BY <1>1
<1>3. e.request => e.port \in Ports
  BY EntryFacts
<1>4. e.request => (port'[e.port].active => port[e.port].active)
  BY <1>1, <1>2, <1>3
<1>5. /\ SlotOK(slot)' /\ dnrequests' \in [Ports -> [Slots -> Nat]]
      /\ \A x \in Slots : x # slot =>
           \A q \in Ports : dnrequests'[q][x] = dnrequests[q][x]
  BY <1>2, <1>4, RefsMoved
<1> QED
  BY <1>1, <1>5 DEF Touched

\* The space is not locked by a call under way, nor does a call take the rights
\* that another one holds.
LEMMA SlotIdle ==
  ASSUME RightsInv, NEW slot \in Slots, NEW p \in Ports, NEW e \in Entries,
         NEW r \in PortRecords, NEW n \in NakedRights, Touched(slot, p, e, r, n),
         busy' = busy, busy[slot[1]] = None,
         n.send >= naked[p].send \/ (Free(p, "send") > 0 /\ n.send = naked[p].send - 1),
         n.once >= naked[p].once \/ (Free(p, "once") > 0 /\ n.once = naked[p].once - 1)
  PROVE  RightsInv'
<1>1. naked' = [naked EXCEPT ![p] = n] /\ naked \in [Ports -> NakedRights]
      /\ busy \in [Spaces -> {None} \cup Calls]
  BY DEF Touched, RightsInv, TypeOK
<1>2. naked'[p] = n
  BY <1>1
<1>3. n.send \in Nat /\ n.once \in Nat
  BY DEF NakedRights
<1>4. ClaimsOK(p)'
  BY <1>2, <1>3, ClaimsKept
<1> QED
  BY <1>1, <1>4, SlotAct

\* The rights and the reference that an entry holds are counted.
LEMMA EntryCounted ==
  ASSUME RightsInv, NEW slot \in Slots, NEW p \in Ports, entry[slot].port = p
  PROVE  /\ port[p].refs >= naked[p].send + naked[p].once + naked[p].dest
                            + naked[p].receive + 1
         /\ port[p].active /\ "send" \in entry[slot].type =>
              port[p].srights >= naked[p].send + 1
         /\ port[p].active /\ "once" \in entry[slot].type =>
              port[p].sorights >= naked[p].once + naked[p].dest + 1
<1>1. PortT(p) /\ CountsOK(p)
  BY PortTypes DEF RightsInv, PortOK
<1>2. /\ Cardinality(With(p, "send")) \in Nat /\ Cardinality(With(p, "once")) \in Nat
      /\ Cardinality(Pointers(p)) \in Nat /\ Cardinality(Pointers(p)) > 0
      /\ "send" \in entry[slot].type => Cardinality(With(p, "send")) > 0
      /\ "once" \in entry[slot].type => Cardinality(With(p, "once")) > 0
  BY CountsNat DEF Has
<1>3. Bit(port[p].dying) \in Nat
  BY DEF Bit
<1>4. /\ port[p].srights \in Nat /\ port[p].sorights \in Nat /\ port[p].refs \in Nat
      /\ naked[p].send \in Nat /\ naked[p].once \in Nat /\ naked[p].dest \in Nat
      /\ naked[p].receive \in Nat /\ stray[p] \in Nat
  BY <1>1 DEF PortT
<1>5. port[p].refs >= naked[p].send + naked[p].once + naked[p].dest + naked[p].receive + 1
  BY <1>1, <1>2, <1>3, <1>4 DEF CountsOK
<1>6. port[p].active /\ "send" \in entry[slot].type => port[p].srights >= naked[p].send + 1
  BY <1>1, <1>2, <1>4 DEF CountsOK
<1>7. port[p].active /\ "once" \in entry[slot].type =>
        port[p].sorights >= naked[p].once + naked[p].dest + 1
  BY <1>1, <1>2, <1>4 DEF CountsOK
<1> QED
  BY <1>5, <1>6, <1>7

\* The task gets or gives back references for the name.
HeldBy(slot, d) ==
  /\ held' \in [Slots -> Int] /\ \A x \in Slots : x # slot => held'[x] = held[x]
  /\ held'[slot] = held[slot] + d \/ slot[1] \notin alive

LEMMA HeldGiven ==
  ASSUME RightsInv, NEW slot \in Slots, NEW d \in Int,
         held' = [held EXCEPT ![slot] = @ + d]
  PROVE  HeldBy(slot, d)
BY DEF HeldBy, RightsInv, TypeOK

LEMMA PortNats ==
  ASSUME TypeOK, NEW p \in Ports
  PROVE  /\ port[p].srights \in Nat /\ port[p].sorights \in Nat /\ port[p].refs \in Nat
         /\ naked[p].send \in Nat /\ naked[p].once \in Nat /\ naked[p].dest \in Nat
         /\ naked[p].receive \in Nat /\ stray[p] \in Nat /\ port[p].mscount \in Nat
<1>1. PortT(p)
  BY PortTypes
<1> QED
  BY <1>1 DEF PortT

-----------------------------------------------------------------------------
(* Send-once rights.                                                       *)

LEMMA OnceTouched ==
  ASSUME RightsInv, NEW slot \in Slots, NEW p \in Ports, p = entry[slot].port,
         "once" \in entry[slot].type, port[p].active, NEW n \in NakedRights,
         n.send = naked[p].send, n.receive = naked[p].receive,
         n.once + n.dest = naked[p].once + naked[p].dest + 1,
         entry' = [entry EXCEPT ![slot] = Empty], naked' = [naked EXCEPT ![p] = n],
         dnrequests' = Cancelled(slot), HeldBy(slot, -entry[slot].urefs),
         UNCHANGED <<alive, port, deaths, nosenders, early, stray>>
  PROVE  Touched(slot, p, Empty, port[p], n)
<1>1. /\ TypeOK /\ PortOK(p) /\ PortT(p) /\ port[p] \in PortRecords
      /\ naked \in [Ports -> NakedRights] /\ port \in [Ports -> PortRecords]
      /\ entry \in [Slots -> Entries]
      /\ nosenders \in [Ports -> SUBSET (0 .. MaxMscount)]
  BY PortTypes DEF RightsInv, TypeOK
<1>2. /\ Empty \in Entries /\ Empty.port = None /\ Empty.type = {} /\ Empty.urefs = 0
      /\ Empty.request = FALSE
  BY EmptyEntry DEF Empty
<1>3. entry[slot].type = {"once"} /\ entry[slot].urefs \in Nat
  BY <1>1, EntryFacts, TypeFacts
<1>4. /\ Bit(Has(Empty, p, "send")) = 0 /\ Bit(Has(entry[slot], p, "send")) = 0
      /\ Bit(Has(Empty, p, "once")) = 0 /\ Bit(Has(entry[slot], p, "once")) = 1
      /\ Bit(Empty.port = p) = 0 /\ Bit(entry[slot].port = p) = 1
  BY <1>2, <1>3, PortRightsAssumption DEF Bit, Has
<1>5. Moved(slot, p, Empty, port[p], n)
  <2>1. /\ port[p].srights - n.send - 0 = port[p].srights - naked[p].send - 0
        /\ port[p].sorights - n.once - n.dest - 0
             = port[p].sorights - naked[p].once - naked[p].dest - 1
        /\ port[p].refs - n.send - n.once - n.dest - n.receive - 0
             = port[p].refs - naked[p].send - naked[p].once - naked[p].dest
               - naked[p].receive - 1
    <3>1. n.send \in Nat /\ n.once \in Nat /\ n.dest \in Nat /\ n.receive \in Nat
      BY DEF NakedRights
    <3>2. /\ port[p].srights \in Nat /\ port[p].sorights \in Nat /\ port[p].refs \in Nat
          /\ naked[p].send \in Nat /\ naked[p].once \in Nat /\ naked[p].dest \in Nat
          /\ naked[p].receive \in Nat
      BY <1>1, PortNats
    <3> QED
      BY <3>1, <3>2
  <2> QED
    BY <1>4, <2>1 DEF Moved
<1>6. port' = [port EXCEPT ![p] = port[p]] /\ naked'[p] = n
      /\ \A x \in Slots : x # slot => entry'[x] = entry[x]
      /\ entry'[slot] = Empty
  BY <1>1
<1>7. ReceiverOK(p)'
  <2>1. ~Has(entry[slot], p, "receive") /\ ~Has(Empty, p, "receive")
    BY <1>2, <1>3 DEF Has
  <2> QED
    BY <1>1, <1>6, <2>1, ReceiverKept DEF PortOK
<1>8. NoSendersOK(p)'
  BY <1>1, NoSendersKept DEF PortOK
<1>9. /\ held' \in [Slots -> Int] /\ \A x \in Slots : x # slot => held'[x] = held[x]
      /\ held'[slot] = held[slot] + Empty.urefs - entry[slot].urefs \/ slot[1] \notin alive
  <2>1. held[slot] \in Int
    BY <1>1 DEF TypeOK
  <2> QED
    BY <1>2, <1>3, <2>1 DEF HeldBy
<1>10. Empty.type \cap {"send", "receive"} = {}
  BY <1>2
<1> QED
  BY <1>1, <1>2, <1>5, <1>6, <1>7, <1>8, <1>9, <1>10, TouchedBy

-----------------------------------------------------------------------------
(* Send rights.                                                            *)

\* What an entry is after its send right has left it.
WithoutSend(e) ==
  IF e.type \ {"send"} = {} THEN Empty
  ELSE [e EXCEPT !.type = e.type \ {"send"}, !.urefs = 0]

LEMMA SendLeaves ==
  ASSUME NEW e \in Entries, "send" \in e.type, NEW p \in Ports, e.port = p
  PROVE  /\ WithoutSend(e) \in Entries /\ WithoutSend(e).urefs = 0
         /\ WithoutSend(e).port \in {p, None}
         /\ WithoutSend(e).type = e.type \ {"send"}
         /\ WithoutSend(e).type = {} \/ WithoutSend(e).type = {"receive"}
         /\ Has(WithoutSend(e), p, "receive") <=> Has(e, p, "receive")
         /\ WithoutSend(e).type = {} => WithoutSend(e) = Empty /\ ~WithoutSend(e).request
         /\ WithoutSend(e).type # {} => /\ WithoutSend(e).request = e.request
                                        /\ WithoutSend(e).port = p
         /\ Bit(Has(WithoutSend(e), p, "send")) = 0 /\ Bit(Has(e, p, "send")) = 1
         /\ Bit(Has(WithoutSend(e), p, "once")) = 0 /\ Bit(Has(e, p, "once")) = 0
         /\ Bit(WithoutSend(e).port = p) = (IF WithoutSend(e).type = {} THEN 0 ELSE 1)
         /\ Bit(e.port = p) = 1
<1>1. /\ e.type \in Types /\ e.urefs \in Nat /\ e.request \in BOOLEAN /\ p # None
      /\ e = [port |-> p, type |-> e.type, urefs |-> e.urefs, request |-> e.request]
  BY EntryFacts, PortRightsAssumption
<1>2. e.type = {"send"} \/ e.type = {"send", "receive"}
  BY <1>1, TypeFacts
<1>3. /\ Empty \in Entries /\ Empty.port = None /\ Empty.type = {} /\ Empty.urefs = 0
      /\ Empty.request = FALSE
  BY EmptyEntry DEF Empty
<1>4. CASE e.type = {"send"}
  <2>1. WithoutSend(e) = Empty
    BY <1>4 DEF WithoutSend
  <2>2. /\ Has(e, p, "send") /\ ~Has(e, p, "once") /\ ~Has(e, p, "receive")
        /\ \A right : ~Has(Empty, p, right)
    BY <1>3, <1>4 DEF Has
  <2> QED
    BY <1>1, <1>3, <1>4, <2>1, <2>2 DEF Bit
<1>5. CASE e.type = {"send", "receive"}
  <2> DEFINE f == [port |-> p, type |-> {"receive"}, urefs |-> 0, request |-> e.request]
  <2>1. e.type \ {"send"} = {"receive"} /\ {"receive"} # {}
    BY <1>5
  <2>2. WithoutSend(e) = f
    BY <1>1, <2>1 DEF WithoutSend
  <2>3. f \in Entries
    <3>1. {"receive"} \in Types /\ {"receive"} # {"dead"} /\ {"receive"} # {"once"}
      BY DEF Types
    <3>2. 0 \in 0 .. UrefsMax /\ 0 # UrefsMax
      BY PortRightsAssumption
    <3> QED
      BY <1>1, <2>1, <3>1, <3>2, MakeEntry
  <2>4. /\ f.port = p /\ f.type = {"receive"} /\ f.urefs = 0 /\ f.request = e.request
    OBVIOUS
  <2> HIDE DEF f
  <2>5. /\ Has(e, p, "send") /\ ~Has(e, p, "once") /\ Has(e, p, "receive")
        /\ ~Has(f, p, "send") /\ ~Has(f, p, "once") /\ Has(f, p, "receive")
    BY <1>5, <2>4 DEF Has
  <2>6. /\ Bit(Has(f, p, "send")) = 0 /\ Bit(Has(e, p, "send")) = 1
        /\ Bit(Has(f, p, "once")) = 0 /\ Bit(Has(e, p, "once")) = 0
        /\ Bit(f.port = p) = 1 /\ Bit(e.port = p) = 1
    BY <2>4, <2>5 DEF Bit
  <2> QED
    BY <2>1, <2>2, <2>3, <2>4, <2>5, <2>6
<1> QED
  BY <1>2, <1>4, <1>5

LEMMA CopySendTouched ==
  ASSUME RightsInv, NEW slot \in Slots, CopySend(slot),
         UNCHANGED <<alive, deaths, nosenders, early, stray>>
  PROVE  \E p \in Ports, r \in PortRecords, n \in NakedRights :
           /\ p = entry[slot].port /\ Touched(slot, p, entry[slot], r, n)
           /\ n.send = naked[p].send + 1 /\ n.once = naked[p].once
<1>0. PICK p \in Ports : p = entry[slot].port
  BY EntryOf DEF CopySend
<1>1. /\ TypeOK /\ PortOK(p) /\ PortT(p) /\ port[p] \in PortRecords /\ port[p].active
      /\ entry[slot] \in Entries /\ entry \in [Slots -> Entries]
      /\ nosenders \in [Ports -> SUBSET (0 .. MaxMscount)]
      /\ held \in [Slots -> Int]
  BY <1>0, PortTypes DEF RightsInv, TypeOK, CopySend
<1> DEFINE r == [port[p] EXCEPT !.srights = port[p].srights + 1, !.refs = port[p].refs + 1]
           n == [naked[p] EXCEPT !.send = naked[p].send + 1]
<1>2. /\ port' = [port EXCEPT ![p] = r] /\ naked' = [naked EXCEPT ![p] = n]
      /\ UNCHANGED <<entry, dnrequests, held>>
      /\ entry' = [entry EXCEPT ![slot] = entry[slot]]
  BY <1>0, <1>1, Zenon DEF CopySend, TypeOK
<1>3. /\ n \in NakedRights /\ n.send = naked[p].send + 1 /\ n.once = naked[p].once
      /\ n.dest = naked[p].dest /\ n.receive = naked[p].receive
  BY <1>1 DEF PortT, NakedRights
<1>4. /\ r \in PortRecords
      /\ Fields(r, port[p].active, port[p].dying, port[p].receiver, port[p].srights + 1,
                port[p].sorights, port[p].mscount, port[p].refs + 1, port[p].ns, port[p].pd)
  <2>1. port[p].srights + 1 \in Nat /\ port[p].refs + 1 \in Nat
    BY <1>1, PortNats
  <2> QED
    BY <1>1, <2>1, RecChanged, Zenon
<1> HIDE DEF r, n
<1>5. port'[p] = r /\ naked'[p] = n
  BY <1>1, <1>2 DEF TypeOK
<1>n. /\ port[p].srights \in Nat /\ port[p].sorights \in Nat /\ port[p].refs \in Nat
      /\ naked[p].send \in Nat /\ naked[p].once \in Nat /\ naked[p].dest \in Nat
      /\ naked[p].receive \in Nat
  BY <1>1, PortNats
<1>6. Moved(slot, p, entry[slot], r, n)
  <2>1. \A b \in Nat :
          /\ r.srights - n.send - b = port[p].srights - naked[p].send - b
          /\ r.sorights - n.once - n.dest - b
               = port[p].sorights - naked[p].once - naked[p].dest - b
          /\ r.refs - n.send - n.once - n.dest - n.receive - b
               = port[p].refs - naked[p].send - naked[p].once - naked[p].dest
                 - naked[p].receive - b
    BY <1>n, <1>3, <1>4 DEF Fields
  <2>2. /\ Bit(Has(entry[slot], p, "send")) \in Nat /\ Bit(Has(entry[slot], p, "once")) \in Nat
        /\ Bit(entry[slot].port = p) \in Nat
    BY DEF Bit
  <2> QED
    BY <2>1, <2>2 DEF Moved
<1>7. ReceiverOK(p)'
  BY <1>1, <1>2, <1>3, <1>4, <1>5, ReceiverKept DEF PortOK, Fields
<1>8. NoSendersOK(p)'
  <2>1. port[p].srights # 0 /\ r.srights > 0
    <3>1. port[p].srights > 0
      BY <1>0, <1>1, EntryOf DEF CopySend
    <3> QED
      BY <1>n, <1>4, <3>1 DEF Fields
  <2> QED
    BY <1>1, <1>2, <1>4, <1>5, <2>1, NoSendersKept DEF PortOK, Fields
<1>9. held'[slot] = held[slot] + entry[slot].urefs - entry[slot].urefs
  <2>1. held[slot] \in Int /\ entry[slot].urefs \in Nat
    BY <1>1, EntryFacts
  <2> QED
    BY <1>2, <2>1
<1>10. \/ entry[slot].type \cap {"send", "receive"} = {}
       \/ /\ entry[slot].type \cap {"send", "receive"} # {}
          /\ entry[slot].port = entry[slot].port
  OBVIOUS
<1>11. Touched(slot, p, entry[slot], r, n)
  <2>1. r.active = port[p].active /\ r.dying = port[p].dying
    BY <1>4 DEF Fields
  <2>2. /\ nosenders' \in [Ports -> SUBSET (0 .. MaxMscount)] /\ held' \in [Slots -> Int]
        /\ \A x \in Slots : x # slot => held'[x] = held[x]
        /\ \A q \in Ports : q # p => nosenders'[q] = nosenders[q]
    BY <1>1, <1>2
  <2> QED
    BY <1>0, <1>1, <1>2, <1>3, <1>4, <1>6, <1>7, <1>8, <1>9, <1>10, <2>1, <2>2, TouchedBy
<1> QED
  BY <1>0, <1>3, <1>4, <1>11

LEMMA FewerUrefs ==
  ASSUME NEW e \in Entries, "send" \in e.type, NEW u \in 1 .. UrefsMax - 1
  PROVE  LET f == [e EXCEPT !.urefs = u]
         IN  /\ f \in Entries /\ f.port = e.port /\ f.type = e.type /\ f.urefs = u
             /\ f.request = e.request
<1>1. /\ e.type \in Types /\ e.request \in BOOLEAN /\ e.port \in Ports \cup {None}
      /\ e = [port |-> e.port, type |-> e.type, urefs |-> e.urefs, request |-> e.request]
      /\ e.port = None <=> e.type = {} \/ e.type = {"dead"}
      /\ e.request => e.port # None
  BY EntryFacts
<1>2. e.type # {} /\ e.type # {"dead"} /\ e.type # {"receive"} /\ e.type # {"once"}
  BY <1>1, TypeFacts
<1>3. u \in 0 .. UrefsMax /\ u # 0 /\ u # UrefsMax
  BY PortRightsAssumption
<1>4. [port |-> e.port, type |-> e.type, urefs |-> u, request |-> e.request] \in Entries
  BY <1>1, <1>2, <1>3, MakeEntry
<1>5. [e EXCEPT !.urefs = u]
        = [port |-> e.port, type |-> e.type, urefs |-> u, request |-> e.request]
  BY <1>1
<1> QED
  BY <1>4, <1>5

LEMMA MoveSendTouched ==
  ASSUME RightsInv, NEW slot \in Slots, NEW k \in {1, 2}, MoveSend(slot, k),
         UNCHANGED <<alive, deaths, nosenders, early, stray>>
  PROVE  \E p \in Ports, e \in Entries, r \in PortRecords, n \in NakedRights :
           /\ p = entry[slot].port /\ Touched(slot, p, e, r, n)
           /\ n.send = naked[p].send + k /\ n.once = naked[p].once
           /\ e.type # {} => e.port = p /\ e.urefs + k < UrefsMax
<1>0. PICK p \in Ports : p = entry[slot].port
  BY EntryOf DEF MoveSend
<1>1. /\ TypeOK /\ PortOK(p) /\ PortT(p) /\ port[p] \in PortRecords /\ port[p].active
      /\ entry[slot] \in Entries /\ entry \in [Slots -> Entries]
      /\ "send" \in entry[slot].type /\ entry[slot].urefs >= k
      /\ nosenders \in [Ports -> SUBSET (0 .. MaxMscount)]
      /\ held \in [Slots -> Int] /\ held[slot] \in Int
  BY <1>0, PortTypes DEF RightsInv, TypeOK, MoveSend
<1>n. /\ port[p].srights \in Nat /\ port[p].sorights \in Nat /\ port[p].refs \in Nat
      /\ naked[p].send \in Nat /\ naked[p].once \in Nat /\ naked[p].dest \in Nat
      /\ naked[p].receive \in Nat
  BY <1>1, PortNats
<1>u. /\ entry[slot].urefs \in Nat /\ entry[slot].urefs < UrefsMax
      /\ entry[slot].type \cap {"send", "receive"} # {}
      /\ entry[slot].request => entry[slot].port = p
  <2>1. /\ entry[slot].urefs \in Nat /\ entry[slot].urefs <= UrefsMax
        /\ entry[slot].urefs = UrefsMax => entry[slot].type = {"dead"}
        /\ entry[slot].type # {"dead"}
    BY <1>1, EntryFacts
  <2> QED
    BY <1>0, <1>1, <2>1, PortRightsAssumption
<1> DEFINE last == entry[slot].urefs = k
           w == WithoutSend(entry[slot])
           a == IF last THEN port[p].srights + k - 1 ELSE port[p].srights + k
           gone == last /\ w.type = {}
           b == IF gone THEN port[p].refs + k - 1 ELSE port[p].refs + k
           r == [port[p] EXCEPT !.srights = a, !.refs = b]
           n == [naked[p] EXCEPT !.send = naked[p].send + k]
           e == IF last THEN w ELSE [entry[slot] EXCEPT !.urefs = entry[slot].urefs - k]
<1>w. /\ w \in Entries /\ w.urefs = 0 /\ w.port \in {p, None}
      /\ w.type = entry[slot].type \ {"send"}
      /\ w.type = {} \/ w.type = {"receive"}
      /\ Has(w, p, "receive") <=> Has(entry[slot], p, "receive")
      /\ w.type = {} => w = Empty /\ ~w.request
      /\ w.type # {} => w.request = entry[slot].request /\ w.port = p
      /\ Bit(Has(w, p, "send")) = 0 /\ Bit(Has(entry[slot], p, "send")) = 1
      /\ Bit(Has(w, p, "once")) = 0 /\ Bit(Has(entry[slot], p, "once")) = 0
      /\ Bit(w.port = p) = (IF w.type = {} THEN 0 ELSE 1)
      /\ Bit(entry[slot].port = p) = 1
  BY <1>0, <1>1, SendLeaves
<1>2. /\ port' = [port EXCEPT ![p] = r] /\ naked' = [naked EXCEPT ![p] = n]
      /\ entry' = [entry EXCEPT ![slot] = e]
      /\ dnrequests' = IF gone THEN Cancelled(slot) ELSE dnrequests
      /\ held' = [held EXCEPT ![slot] = @ - k]
  <2>1. entry[slot].type \ {"send"} = w.type
    BY <1>w
  <2>2. /\ port' = [port EXCEPT ![p].srights = a, ![p].refs = b]
        /\ dnrequests' = IF gone THEN Cancelled(slot) ELSE dnrequests
        /\ naked' = [naked EXCEPT ![p].send = @ + k]
        /\ held' = [held EXCEPT ![slot] = @ - k]
    BY <1>0, <1>1, <2>1 DEF MoveSend, GiveBack, TypeOK
  <2>3. entry' = [entry EXCEPT ![slot] = e]
    BY Zenon DEF MoveSend, WithoutSend
  <2> QED
    BY <1>1, <2>2, <2>3 DEF TypeOK
<1>3. /\ n \in NakedRights /\ n.send = naked[p].send + k /\ n.once = naked[p].once
      /\ n.dest = naked[p].dest /\ n.receive = naked[p].receive
  BY <1>1 DEF PortT, NakedRights
<1>4. /\ r \in PortRecords
      /\ Fields(r, port[p].active, port[p].dying, port[p].receiver, a,
                port[p].sorights, port[p].mscount, b, port[p].ns, port[p].pd)
  <2>1. a \in Nat /\ b \in Nat
    BY <1>n
  <2> HIDE DEF a, b
  <2> QED
    BY <1>1, <2>1, RecChanged, Zenon
<1>5. /\ e \in Entries /\ e.port \in {p, None} /\ e.urefs = entry[slot].urefs - k
      /\ Has(e, p, "receive") <=> Has(entry[slot], p, "receive")
      /\ Bit(Has(e, p, "send")) = IF last THEN 0 ELSE 1
      /\ Bit(Has(e, p, "once")) = 0
      /\ Bit(e.port = p) = IF gone THEN 0 ELSE 1
      /\ gone => ~e.request
      /\ ~gone => e.request = entry[slot].request /\ (e.request => e.port = entry[slot].port)
      /\ e.type \cap {"send", "receive"} = {} \/ e.port = entry[slot].port
      /\ e.type # {} => e.port = p /\ e.urefs + k < UrefsMax
  <2>1. CASE last
    <3>1. e = w /\ entry[slot].urefs - k = 0 /\ entry[slot].urefs = k
      BY <1>u, <2>1
    <3>2. 0 + k < UrefsMax
      BY PortRightsAssumption
    <3> HIDE DEF e, w
    <3> QED
      BY <1>0, <1>w, <2>1, <3>1, <3>2
  <2>2. CASE ~last
    <3> DEFINE u == entry[slot].urefs - k
    <3>1. u \in 1 .. UrefsMax - 1 /\ u + k < UrefsMax
      BY <1>1, <1>u, <2>2, PortRightsAssumption
    <3>2. e = [entry[slot] EXCEPT !.urefs = u]
      BY <2>2
    <3> HIDE DEF u, e
    <3>3. /\ e \in Entries /\ e.port = entry[slot].port /\ e.type = entry[slot].type
          /\ e.urefs = u /\ e.request = entry[slot].request
      BY <1>1, <3>1, <3>2, FewerUrefs
    <3>4. u = entry[slot].urefs - k
      BY DEF u
    <3>5. \A right : Has(e, p, right) <=> Has(entry[slot], p, right)
      BY <3>3 DEF Has
    <3>6. /\ Bit(Has(e, p, "send")) = 1 /\ Bit(Has(e, p, "once")) = 0 /\ Bit(e.port = p) = 1
      BY <1>w, <3>3, <3>5 DEF Bit
    <3> QED
      BY <1>0, <2>2, <3>1, <3>3, <3>4, <3>5, <3>6
  <2> QED
    BY <2>1, <2>2
<1>6. /\ entry'[slot] = e /\ port'[p] = r /\ naked'[p] = n
      /\ \A x \in Slots : x # slot => entry'[x] = entry[x]
  BY <1>1, <1>2 DEF TypeOK
<1> HIDE DEF r, n, e, w
<1>7. Moved(slot, p, e, r, n)
  <2>1. /\ r.srights - n.send - (IF last THEN 0 ELSE 1) = port[p].srights - naked[p].send - 1
        /\ r.sorights - n.once - n.dest - 0
             = port[p].sorights - naked[p].once - naked[p].dest - 0
        /\ r.refs - n.send - n.once - n.dest - n.receive - (IF gone THEN 0 ELSE 1)
             = port[p].refs - naked[p].send - naked[p].once - naked[p].dest
               - naked[p].receive - 1
    BY <1>n, <1>3, <1>4 DEF Fields
  <2> QED
    BY <1>5, <1>w, <2>1 DEF Moved
<1>8. ReceiverOK(p)'
  BY <1>1, <1>3, <1>4, <1>5, <1>6, ReceiverKept DEF PortOK, Fields
<1>9. NoSendersOK(p)'
  <2>1. port[p].srights # 0 /\ r.srights > 0
    <3>1. port[p].srights > 0
      BY <1>0, <1>1, EntryOf
    <3> QED
      BY <1>n, <1>4, <3>1 DEF Fields
  <2> QED
    BY <1>1, <1>4, <1>6, <2>1, NoSendersKept DEF PortOK, Fields
<1>10. /\ held'[slot] = held[slot] + e.urefs - entry[slot].urefs /\ held' \in [Slots -> Int]
       /\ \A x \in Slots : x # slot => held'[x] = held[x]
  BY <1>1, <1>2, <1>5, <1>u
<1>11. Touched(slot, p, e, r, n)
  <2>1. r.active = port[p].active /\ r.dying = port[p].dying
    BY <1>4 DEF Fields
  <2>2. /\ nosenders' \in [Ports -> SUBSET (0 .. MaxMscount)]
        /\ \A q \in Ports : q # p => nosenders'[q] = nosenders[q]
        /\ entry[slot].port \in {p, None} /\ (entry[slot].request => port[entry[slot].port].active)
    BY <1>0, <1>1
  <2>3. \/ /\ dnrequests' = dnrequests /\ e.request = entry[slot].request
           /\ e.request => e.port = entry[slot].port
        \/ /\ dnrequests' = Cancelled(slot) /\ ~e.request
           /\ entry[slot].request => port[entry[slot].port].active
    BY <1>2, <1>5, <2>2
  <2>4. \/ e.type \cap {"send", "receive"} = {}
        \/ /\ entry[slot].type \cap {"send", "receive"} # {}
           /\ e.port = entry[slot].port
    BY <1>5, <1>u
  <2> QED
    BY <1>2, <1>3, <1>4, <1>5, <1>7, <1>8, <1>9, <1>10, <2>1, <2>2, <2>3, <2>4, TouchedBy
<1> QED
  BY <1>0, <1>3, <1>4, <1>5, <1>11

-----------------------------------------------------------------------------
(* A right is copied in.                                                   *)

LEMMA CopyinTouched ==
  ASSUME RightsInv, NEW slot \in Slots, NEW kind \in Kinds, CopyinRight(slot, kind),
         UNCHANGED <<alive, deaths, nosenders, early, stray>>
  PROVE  \E p \in Ports, e \in Entries, r \in PortRecords, n \in NakedRights :
           /\ p = entry[slot].port /\ Touched(slot, p, e, r, n)
           /\ n.send = naked[p].send + (IF kind = "once" THEN 0 ELSE 1)
           /\ n.once = naked[p].once + (IF kind = "once" THEN 1 ELSE 0)
           /\ e.type # {} => e.port = p /\ e.urefs + (IF kind = "copy" THEN 0 ELSE 1) < UrefsMax
           /\ kind = "copy" => e.type # {}
<1>1. CASE kind = "copy" /\ CopySend(slot)
  <2>1. PICK p \in Ports, r \in PortRecords, n \in NakedRights :
          /\ p = entry[slot].port /\ Touched(slot, p, entry[slot], r, n)
          /\ n.send = naked[p].send + 1 /\ n.once = naked[p].once
    BY <1>1, CopySendTouched
  <2>2. /\ entry[slot] \in Entries /\ entry[slot].type # {} /\ entry[slot].type # {"dead"}
    BY <1>1 DEF RightsInv, TypeOK, CopySend
  <2>3. entry[slot].urefs \in Nat /\ entry[slot].urefs + 0 < UrefsMax
    <3>1. /\ entry[slot].urefs \in Nat /\ entry[slot].urefs <= UrefsMax
          /\ entry[slot].urefs # UrefsMax
      BY <2>2, EntryFacts
    <3> QED
      BY <3>1, PortRightsAssumption
  <2>4. n.once = naked[p].once + 0
    <3>1. naked[p].once \in Nat
      BY PortNats DEF RightsInv
    <3> QED
      BY <2>1, <3>1
  <2> QED
    BY <1>1, <2>1, <2>2, <2>3, <2>4
<1>2. CASE kind = "move" /\ MoveSend(slot, 1)
  <2>1. PICK p \in Ports, e \in Entries, r \in PortRecords, n \in NakedRights :
          /\ p = entry[slot].port /\ Touched(slot, p, e, r, n)
          /\ n.send = naked[p].send + 1 /\ n.once = naked[p].once
          /\ e.type # {} => e.port = p /\ e.urefs + 1 < UrefsMax
    BY <1>2, MoveSendTouched
  <2>2. n.once = naked[p].once + 0
    <3>1. naked[p].once \in Nat
      BY PortNats DEF RightsInv
    <3> QED
      BY <2>1, <3>1
  <2> QED
    BY <1>2, <2>1, <2>2
<1>3. CASE kind = "once" /\ MoveSendOnce(slot)
  <2>0. PICK p \in Ports : p = entry[slot].port
    BY <1>3, EntryOf DEF MoveSendOnce
  <2>1. /\ TypeOK /\ PortT(p) /\ port[p] \in PortRecords /\ entry[slot].urefs = 1
    BY <1>3, <2>0, PortTypes, EntryOf DEF RightsInv, TypeOK, MoveSendOnce
  <2> DEFINE n == [naked[p] EXCEPT !.once = naked[p].once + 1]
  <2>2. /\ n \in NakedRights /\ n.send = naked[p].send /\ n.once = naked[p].once + 1
        /\ n.dest = naked[p].dest /\ n.receive = naked[p].receive
    BY <2>1 DEF PortT, NakedRights
  <2>3. /\ entry' = [entry EXCEPT ![slot] = Empty] /\ naked' = [naked EXCEPT ![p] = n]
        /\ dnrequests' = Cancelled(slot) /\ port' = port
        /\ "once" \in entry[slot].type /\ port[p].active
        /\ held' = [held EXCEPT ![slot] = @ - 1]
    BY <1>3, <2>0, <2>1 DEF MoveSendOnce, GiveBack, TypeOK
  <2> HIDE DEF n
  <2>4. HeldBy(slot, -entry[slot].urefs)
    BY <2>1, <2>3 DEF HeldBy, TypeOK
  <2>5. /\ n.once + n.dest = naked[p].once + naked[p].dest + 1
        /\ naked[p].send = naked[p].send + 0
    <3>1. naked[p].once \in Nat /\ naked[p].dest \in Nat /\ naked[p].send \in Nat
      BY <2>1, PortNats
    <3> QED
      BY <2>2, <3>1
  <2>6. Touched(slot, p, Empty, port[p], n)
    BY <2>0, <2>2, <2>3, <2>4, <2>5, OnceTouched
  <2>7. Empty \in Entries /\ Empty.type = {}
    BY EmptyEntry DEF Empty
  <2> QED
    BY <1>3, <2>0, <2>1, <2>2, <2>5, <2>6, <2>7
<1> QED
  BY <1>1, <1>2, <1>3 DEF CopyinRight

LEMMA CopyinInv ==
  ASSUME RightsInv, NEW slot \in Slots, NEW kind \in Kinds, ipc_object_copyin(slot, kind)
  PROVE  RightsInv'
<1>1. /\ CopyinRight(slot, kind) /\ UNCHANGED <<alive, busy, deaths, nosenders, early, stray>>
      /\ busy[slot[1]] = None
  BY DEF ipc_object_copyin, Ready
<1>2. PICK p \in Ports, e \in Entries, r \in PortRecords, n \in NakedRights :
        /\ Touched(slot, p, e, r, n)
        /\ n.send = naked[p].send + (IF kind = "once" THEN 0 ELSE 1)
        /\ n.once = naked[p].once + (IF kind = "once" THEN 1 ELSE 0)
  BY <1>1, CopyinTouched
<1>3. n.send >= naked[p].send /\ n.once >= naked[p].once
  <2>1. naked[p].send \in Nat /\ naked[p].once \in Nat
    BY PortNats DEF RightsInv
  <2> QED
    BY <1>2, <2>1
<1> QED
  BY <1>1, <1>2, <1>3, SlotIdle

LEMMA CopyinTwoInv ==
  ASSUME RightsInv, NEW slot \in Slots, CopyinTwo(slot) PROVE RightsInv'
<1>1. /\ MoveSend(slot, 2) /\ UNCHANGED <<alive, busy, deaths, nosenders, early, stray>>
      /\ busy[slot[1]] = None
  BY DEF CopyinTwo, Ready
<1>2. PICK p \in Ports, e \in Entries, r \in PortRecords, n \in NakedRights :
        /\ Touched(slot, p, e, r, n)
        /\ n.send = naked[p].send + 2 /\ n.once = naked[p].once
  BY <1>1, MoveSendTouched
<1>3. n.send >= naked[p].send /\ n.once >= naked[p].once
  <2>1. naked[p].send \in Nat /\ naked[p].once \in Nat
    BY PortNats DEF RightsInv
  <2> QED
    BY <1>2, <2>1
<1> QED
  BY <1>1, <1>2, <1>3, SlotIdle

\* The call that goes on has a claim to what it has copied in.
LEMMA HeaderCopyinInv ==
  ASSUME RightsInv, NEW slot \in Slots, NEW kind \in Kinds, HeaderCopyin(slot, kind)
  PROVE  RightsInv'
<1>1. /\ CopyinRight(slot, kind) /\ UNCHANGED <<alive, deaths, nosenders, early, stray>>
      /\ slot[1] \in alive /\ busy[slot[1]] = None
  BY DEF HeaderCopyin, Ready
<1>2. PICK p \in Ports, e \in Entries, r \in PortRecords, n \in NakedRights :
        /\ p = entry[slot].port /\ Touched(slot, p, e, r, n)
        /\ n.send = naked[p].send + (IF kind = "once" THEN 0 ELSE 1)
        /\ n.once = naked[p].once + (IF kind = "once" THEN 1 ELSE 0)
        /\ e.type # {} => e.port = p /\ e.urefs + (IF kind = "copy" THEN 0 ELSE 1) < UrefsMax
        /\ kind = "copy" => e.type # {}
  BY <1>1, CopyinTouched
<1>3. PICK s \in Spaces : s = slot[1]
  BY PortRightsAssumption
<1> DEFINE right == IF kind = "once" THEN "once" ELSE "send"
           soright == entry'[slot] = Empty /\ entry[slot].request
           back == IF kind = "copy" THEN 0 ELSE 1
           c == [slot |-> slot, port |-> p, right |-> right, back |-> back,
                 soright |-> soright]
<1>4. busy' = [busy EXCEPT ![s] = c] /\ busy \in [Spaces -> {None} \cup Calls]
  BY <1>2, <1>3 DEF HeaderCopyin, RightsInv, TypeOK
<1>5. /\ c \in Calls /\ c.slot = slot /\ c.port = p /\ c.right = right /\ c.back = back
      /\ c.soright => entry'[slot] = Empty
  <2>1. right \in {"send", "once"} /\ back \in {0, 1} /\ soright \in BOOLEAN
    OBVIOUS
  <2> HIDE DEF right, back
  <2> QED
    BY <2>1 DEF Calls
<1> HIDE DEF c
<1>6. /\ busy' \in [Spaces -> {None} \cup Calls] /\ busy'[s] = c
      /\ \A x \in Spaces : x # s => busy'[x] = busy[x]
  BY <1>4, <1>5
<1>7. entry'[slot] = e /\ naked'[p] = n
  BY <1>2 DEF Touched, RightsInv, TypeOK
<1>8. BusyOK(s)'
  <2>1. c.soright => e.type = {}
    BY <1>5, <1>7 DEF Empty
  <2>2. IF e.type = {} THEN back = 1 ELSE e.port = p /\ e.urefs + back < UrefsMax
    BY <1>2
  <2> HIDE DEF back
  <2> QED
    BY <1>1, <1>3, <1>5, <1>6, <1>7, <2>1, <2>2 DEF BusyOK
<1>9. ClaimsOK(p)'
  <2>0. c # None => c.port = p /\ c.right = right
    BY <1>5
  <2>1. ASSUME NEW x \in {"send", "once"}
        PROVE  /\ Cardinality(Claims(p, x)) \in Nat /\ Cardinality(Claims(p, x)') \in Nat
               /\ Cardinality(Claims(p, x)') <= Cardinality(Claims(p, x)) + 1
               /\ x # right => Cardinality(Claims(p, x)') = Cardinality(Claims(p, x))
    <3>1. Claims(p, x) \ {s} = Claims(p, x)' \ {s}
      BY <1>6 DEF Claims
    <3>2. s \notin Claims(p, x) /\ (x # right => s \notin Claims(p, x)')
      BY <1>1, <1>3, <1>6, <2>0 DEF Claims
    <3>3. IsFiniteSet(Claims(p, x)) /\ Cardinality(Claims(p, x)) \in Nat
      BY CountsNat
    <3>4. /\ Cardinality(Claims(p, x)') = Cardinality(Claims(p, x))
               + Bit(s \in Claims(p, x)') - Bit(s \in Claims(p, x))
          /\ Cardinality(Claims(p, x)') \in Nat
      BY <3>1, <3>3, CountChange
    <3>5. /\ Bit(s \in Claims(p, x)) = 0 /\ Bit(s \in Claims(p, x)') \in {0, 1}
          /\ x # right => Bit(s \in Claims(p, x)') = 0
      BY <3>2 DEF Bit
    <3> QED
      BY <3>3, <3>4, <3>5
  <2>2. naked[p].send \in Nat /\ naked[p].once \in Nat /\ ClaimsOK(p)
    BY PortNats DEF RightsInv, PortOK
  <2>3. Cardinality(Claims(p, "send")') <= n.send
    BY <1>2, <2>1, <2>2 DEF ClaimsOK
  <2>4. Cardinality(Claims(p, "once")') <= n.once
    BY <1>2, <2>1, <2>2 DEF ClaimsOK
  <2> QED
    BY <1>7, <2>3, <2>4 DEF ClaimsOK
<1>10. /\ \A x \in Spaces : x # slot[1] => busy'[x] = busy[x]
       /\ busy[slot[1]] # None => busy[slot[1]].port = p
       /\ busy'[slot[1]] # None => busy'[slot[1]].port = p
       /\ BusyOK(slot[1])'
  BY <1>1, <1>3, <1>5, <1>6, <1>8
<1> QED
  BY <1>2, <1>6, <1>9, <1>10, SlotAct

LEMMA HeaderDoneInv ==
  ASSUME RightsInv, NEW s \in Spaces, HeaderDone(s) PROVE RightsInv'
<1>1. /\ TypeOK /\ Unique /\ \A q \in Ports : PortOK(q)
      /\ \A x \in Slots : SlotOK(x)
      /\ \A t \in Spaces : BusyOK(t)
  BY DEF RightsInv
<1>2. /\ busy' = [busy EXCEPT ![s] = None] /\ busy \in [Spaces -> {None} \cup Calls]
      /\ UNCHANGED <<alive, entry, port, dnrequests, naked, deaths, nosenders, held, early,
                     stray>>
  BY <1>1 DEF HeaderDone, TypeOK
<1>3. /\ busy' \in [Spaces -> {None} \cup Calls] /\ busy'[s] = None
      /\ \A t \in Spaces : t # s => busy'[t] = busy[t]
  BY <1>2
<1>4. ASSUME NEW q \in Ports PROVE PortOK(q)'
  <2>1. \A right : Claims(q, right)' \subseteq Claims(q, right)
    BY <1>3 DEF Claims
  <2>2. /\ Cardinality(Claims(q, "send")') <= Cardinality(Claims(q, "send"))
        /\ Cardinality(Claims(q, "once")') <= Cardinality(Claims(q, "once"))
        /\ Cardinality(Claims(q, "send")') \in Nat /\ Cardinality(Claims(q, "once")') \in Nat
        /\ Cardinality(Claims(q, "send")) \in Nat /\ Cardinality(Claims(q, "once")) \in Nat
    BY <2>1, CountsNat, FS_Subset, FS_CardinalityType
  <2>3. naked[q].send \in Nat /\ naked[q].once \in Nat /\ PortOK(q)
    BY <1>1, PortNats
  <2>4. ClaimsOK(q)'
    BY <1>2, <2>2, <2>3 DEF PortOK, ClaimsOK
  <2>5. /\ \A right : With(q, right)' = With(q, right) /\ Pointers(q)' = Pointers(q)
    BY <1>2 DEF With, Pointers
  <2>6. CountsOK(q)' /\ ReceiverOK(q)' /\ NoSendersOK(q)'
    BY <1>2, <2>3, <2>5 DEF PortOK, CountsOK, ReceiverOK, NoSendersOK
  <2> QED
    BY <2>4, <2>6 DEF PortOK
<1>5. ASSUME NEW x \in Slots PROVE SlotOK(x)'
  BY <1>1, <1>2, SlotKept
<1>6. ASSUME NEW t \in Spaces PROVE BusyOK(t)'
  BY <1>1, <1>2, <1>3 DEF BusyOK
<1>7. TypeOK' /\ Unique'
  BY <1>1, <1>2, <1>3 DEF TypeOK, Unique
<1> QED
  BY <1>4, <1>5, <1>6, <1>7 DEF RightsInv

LEMMA DeadEntry ==
  ASSUME NEW u \in 1 .. UrefsMax
  PROVE  LET e == [Empty EXCEPT !.type = {"dead"}, !.urefs = u]
         IN  /\ e \in Entries /\ e.port = None /\ e.type = {"dead"} /\ e.urefs = u
             /\ e.request = FALSE
<1>1. [Empty EXCEPT !.type = {"dead"}, !.urefs = u]
        = [port |-> None, type |-> {"dead"}, urefs |-> u, request |-> FALSE]
  <2>1. ASSUME NEW f, f = [Empty EXCEPT !.type = {"dead"}, !.urefs = u]
        PROVE  f = [port |-> None, type |-> {"dead"}, urefs |-> u, request |-> FALSE]
    BY <2>1 DEF Empty
  <2> QED
    BY <2>1
<1>2. {"dead"} \in Types /\ {"dead"} # {} /\ {"dead"} # {"receive"} /\ {"dead"} # {"once"}
  BY DEF Types
<1>3. u \in 0 .. UrefsMax /\ u # 0
  BY PortRightsAssumption
<1>4. [port |-> None, type |-> {"dead"}, urefs |-> u, request |-> FALSE] \in Entries
  BY <1>2, <1>3 DEF Entries
<1> QED
  BY <1>1, <1>4

\* ipc_right_copyin_undo: the entry becomes a dead name with the reference that
\* was taken from it, and the one of the notification that was promised.
LEMMA HeaderUndoInv ==
  ASSUME RightsInv, NEW s \in Spaces, HeaderUndo(s) PROVE RightsInv'
<1>1. /\ TypeOK /\ BusyOK(s) /\ busy[s] # None /\ busy[s] \in Calls
      /\ entry \in [Slots -> Entries] /\ naked \in [Ports -> NakedRights]
      /\ port \in [Ports -> PortRecords] /\ busy \in [Spaces -> {None} \cup Calls]
      /\ held \in [Slots -> Int] /\ deaths \in [Slots -> Nat]
  BY DEF RightsInv, TypeOK, HeaderUndo
<1>2. PICK slot \in Slots, p \in Ports, right \in {"send", "once"}, back \in {0, 1},
           soright \in BOOLEAN :
        /\ slot = busy[s].slot /\ p = busy[s].port /\ right = busy[s].right
        /\ back = busy[s].back /\ soright = busy[s].soright
  BY <1>1 DEF Calls
<1>3. /\ PortOK(p) /\ PortT(p) /\ port[p] \in PortRecords /\ ~port[p].active
      /\ SlotOK(slot) /\ entry[slot] \in Entries
      /\ slot[1] = s /\ slot[1] \in alive
  BY <1>1, <1>2, PortTypes DEF RightsInv, HeaderUndo, BusyOK
<1> DEFINE o == entry[slot]
<1>4. /\ soright => o = Empty
      /\ IF o = Empty THEN back = 1 ELSE o.port = p /\ o.urefs + back < UrefsMax
      /\ Empty.port = None /\ Empty.urefs = 0 /\ Empty.request = FALSE /\ Empty.type = {}
  <2>1. o = Empty <=> o.type = {}
    BY <1>3, EmptyEntry
  <2> QED
    BY <1>1, <1>2, <2>1 DEF BusyOK, Empty
<1>5. /\ o.urefs \in Nat /\ o.request \in BOOLEAN /\ (o = Empty => o.urefs = 0 /\ ~o.request)
      /\ o # Empty => o.urefs # 0
  <2>1. o # Empty => o.type # {} /\ o.type # {"receive"}
    BY <1>3, <1>4, EmptyEntry, EntryOf
  <2> QED
    BY <1>3, <1>4, <2>1, EntryFacts
<1> DEFINE u == IF soright THEN 2 ELSE IF o = Empty THEN 1 ELSE o.urefs + back + Bit(o.request)
           e == [Empty EXCEPT !.type = {"dead"}, !.urefs = u]
           c == IF o = Empty THEN port[p].refs - 1 ELSE port[p].refs - 2
           r == [port[p] EXCEPT !.refs = c]
           n == [naked[p] EXCEPT ![right] = naked[p][right] - 1]
<1>6. u \in 1 .. UrefsMax
  BY <1>4, <1>5, PortRightsAssumption DEF Bit
<1>7. /\ e \in Entries /\ e.port = None /\ e.type = {"dead"} /\ e.urefs = u
      /\ e.request = FALSE
  <2> HIDE DEF u
  <2> QED
    BY <1>6, DeadEntry, Zenon
<1>8. entry' = [entry EXCEPT ![slot] = e]
  <2>1. CASE soright
    BY <1>2, <2>1 DEF HeaderUndo
  <2>2. CASE ~soright /\ o = Empty
    BY <1>2, <2>2 DEF HeaderUndo
  <2>3. CASE ~soright /\ o # Empty
    <3>1. Convert([o EXCEPT !.urefs = @ + back])
            = [Empty EXCEPT !.type = {"dead"},
                            !.urefs = o.urefs + back + (IF o.request THEN 1 ELSE 0)]
      <4>1. o = [port |-> o.port, type |-> o.type, urefs |-> o.urefs, request |-> o.request]
        BY <1>3, EntryFacts
      <4> QED
        BY <4>1 DEF Convert
    <3>2. entry' = [entry EXCEPT ![slot] = Convert([o EXCEPT !.urefs = @ + back])]
      BY <1>2, <2>3 DEF HeaderUndo
    <3> QED
      BY <2>3, <3>1, <3>2 DEF Bit
  <2> QED
    BY <2>1, <2>2, <2>3
<1>9. /\ port' = [port EXCEPT ![p] = r] /\ naked' = [naked EXCEPT ![p] = n]
      /\ busy' = [busy EXCEPT ![s] = None]
      /\ deaths' = [deaths EXCEPT ![slot] = IF soright THEN @ + 1 ELSE @]
      /\ held' = [held EXCEPT ![slot] = @ + back]
      /\ UNCHANGED <<alive, dnrequests, nosenders, early, stray>>
  <2>1. held' = [held EXCEPT ![slot] = @ - (-back)]
    BY <1>2 DEF HeaderUndo, GiveBack
  <2>2. held[slot] - (-back) = held[slot] + back
    BY <1>1
  <2>3. held' = [held EXCEPT ![slot] = @ + back]
    BY <2>1, <2>2
  <2> QED
    BY <1>1, <1>2, <2>3 DEF HeaderUndo
<1>10. /\ entry'[slot] = e /\ port'[p] = r /\ naked'[p] = n
       /\ \A x \in Slots : x # slot => entry'[x] = entry[x]
       /\ busy' \in [Spaces -> {None} \cup Calls] /\ busy'[s] = None
       /\ \A t \in Spaces : t # s => busy'[t] = busy[t]
  BY <1>1, <1>8, <1>9
<1>n. /\ port[p].refs \in Nat /\ naked[p].receive \in Nat /\ deaths[slot] \in Nat
      /\ naked[p].send \in Nat /\ naked[p].once \in Nat /\ naked[p].dest \in Nat
      /\ held[slot] \in Int /\ IsFiniteSet(Requests(slot)) /\ Owed(slot) \in Nat
  <2>1. IsFiniteSet(Requests(slot))
    BY <1>3 DEF SlotOK
  <2> QED
    BY <1>1, <2>1, PortNats, FS_CardinalityType DEF Owed
<1>c. /\ Cardinality(Claims(p, right)) > 0
      /\ \A x \in {"send", "once"} :
           /\ Cardinality(Claims(p, x)) \in Nat
           /\ Cardinality(Claims(p, x)') = Cardinality(Claims(p, x)) - Bit(x = right)
  <2>1. ASSUME NEW x \in {"send", "once"}
        PROVE  /\ Cardinality(Claims(p, x)) \in Nat
               /\ Cardinality(Claims(p, x)') = Cardinality(Claims(p, x)) - Bit(x = right)
    <3>1. Claims(p, x) \ {s} = Claims(p, x)' \ {s}
      BY <1>10 DEF Claims
    <3>2. (s \in Claims(p, x) <=> x = right) /\ s \notin Claims(p, x)'
      BY <1>1, <1>2, <1>10 DEF Claims
    <3>3. IsFiniteSet(Claims(p, x)) /\ Cardinality(Claims(p, x)) \in Nat
      BY CountsNat
    <3>4. Cardinality(Claims(p, x)') = Cardinality(Claims(p, x))
            + Bit(s \in Claims(p, x)') - Bit(s \in Claims(p, x))
      BY <3>1, <3>3, CountChange
    <3>5. Bit(s \in Claims(p, x)') = 0 /\ Bit(s \in Claims(p, x)) = Bit(x = right)
          /\ Bit(x = right) \in Nat
      BY <3>2 DEF Bit
    <3> QED
      BY <3>3, <3>4, <3>5
  <2>2. s \in Claims(p, right)
    BY <1>1, <1>2 DEF Claims
  <2>3. IsFiniteSet(Claims(p, right)) /\ Cardinality(Claims(p, right)) # 0
    BY <2>2, CountsNat, FS_EmptySet
  <2> QED
    BY <2>1, <2>3
<1>11. /\ n \in NakedRights /\ n.dest = naked[p].dest /\ n.receive = naked[p].receive
       /\ n.send = naked[p].send - Bit("send" = right)
       /\ n.once = naked[p].once - Bit("once" = right)
       /\ naked[p].send >= Bit("send" = right) /\ naked[p].once >= Bit("once" = right)
  <2>0. ClaimsOK(p)
    BY <1>3 DEF PortOK
  <2>1. CASE right = "send"
    <3>1. naked[p].send > 0
      BY <1>c, <1>n, <2>0, <2>1 DEF ClaimsOK
    <3>2. Bit("send" = right) = 1 /\ Bit("once" = right) = 0
      BY <2>1 DEF Bit
    <3>3. n = [naked[p] EXCEPT !.send = naked[p].send - 1]
      BY <2>1
    <3> HIDE DEF n
    <3>4. /\ n \in NakedRights /\ n.dest = naked[p].dest /\ n.receive = naked[p].receive
          /\ n.send = naked[p].send - 1 /\ n.once = naked[p].once
      BY <1>3, <3>1, <3>3 DEF PortT, NakedRights
    <3> QED
      BY <1>n, <3>1, <3>2, <3>4
  <2>2. CASE right = "once"
    <3>1. naked[p].once > 0
      BY <1>c, <1>n, <2>0, <2>2 DEF ClaimsOK
    <3>2. Bit("send" = right) = 0 /\ Bit("once" = right) = 1
      BY <2>2 DEF Bit
    <3>3. n = [naked[p] EXCEPT !.once = naked[p].once - 1]
      BY <2>2
    <3> HIDE DEF n
    <3>4. /\ n \in NakedRights /\ n.dest = naked[p].dest /\ n.receive = naked[p].receive
          /\ n.send = naked[p].send /\ n.once = naked[p].once - 1
      BY <1>3, <3>1, <3>3 DEF PortT, NakedRights
    <3> QED
      BY <1>n, <3>1, <3>2, <3>4
  <2> QED
    BY <2>1, <2>2
<1>b. Bit("send" = right) + Bit("once" = right) = 1
      /\ Bit("send" = right) \in Nat /\ Bit("once" = right) \in Nat
  BY DEF Bit
<1>12. /\ r \in PortRecords
       /\ Fields(r, port[p].active, port[p].dying, port[p].receiver, port[p].srights,
                 port[p].sorights, port[p].mscount, c, port[p].ns, port[p].pd)
  <2>1. port[p].refs >= 1 /\ (o # Empty => port[p].refs >= 2)
    <3>1. Bit(port[p].dying) \in Nat
      BY DEF Bit
    <3>2. port[p].refs >= 1
      BY <1>n, <1>b, <1>11, <3>1, NakedCounted
    <3>3. ASSUME o # Empty PROVE port[p].refs >= 2
      <4>1. port[p].refs >= naked[p].send + naked[p].once + naked[p].dest
                            + naked[p].receive + 1
        BY <1>4, <3>3, EntryCounted
      <4> QED
        BY <1>n, <1>b, <1>11, <4>1
    <3> QED
      BY <3>2, <3>3
  <2>2. c \in Nat
    BY <1>n, <2>1
  <2> HIDE DEF c
  <2> QED
    BY <1>3, <2>2, RecChanged, Zenon
<1> HIDE DEF e, r, n
<1>13. Moved(slot, p, e, r, n)
  <2>1. Bit(e.port = p) = 0 /\ Bit(o.port = p) = (IF o = Empty THEN 0 ELSE 1)
    BY <1>4, <1>7, PortRightsAssumption DEF Bit
  <2>2. r.refs - n.send - n.once - n.dest - n.receive - 0
          = port[p].refs - naked[p].send - naked[p].once - naked[p].dest - naked[p].receive
            - (IF o = Empty THEN 0 ELSE 1)
    BY <1>n, <1>b, <1>11, <1>12 DEF Fields
  <2>3. ~r.active
    BY <1>3, <1>12 DEF Fields
  <2> QED
    BY <2>1, <2>2, <2>3 DEF Moved
<1>14. ReceiverOK(p)'
  <2>1. ~Has(o, p, "receive") /\ ~Has(e, p, "receive")
    <3>1. Has(o, p, "receive") => port[p].receiver = slot
      BY <1>3 DEF PortOK, ReceiverOK
    <3>2. port[p].receiver = None
      BY <1>3 DEF PortOK, ReceiverOK
    <3> QED
      BY <1>7, <3>1, <3>2, PortRightsAssumption DEF Has
  <2> QED
    BY <1>3, <1>10, <1>11, <1>12, <2>1, ReceiverKept DEF PortOK, Fields
<1>15. NoSendersOK(p)'
  BY <1>3, <1>9, <1>10, <1>12, NoSendersKept DEF PortOK, Fields
<1>16. SlotOK(slot)'
  <2>1. Requests(slot)' = Requests(slot)
    BY <1>9 DEF Requests
  <2>2. o.urefs + Bit(o.request) = held[slot] + deaths[slot] + Owed(slot)
    BY <1>3 DEF SlotOK
  <2>3. /\ held'[slot] = held[slot] + back
        /\ deaths'[slot] = deaths[slot] + Bit(soright)
    BY <1>1, <1>9 DEF Bit
  <2>4. u = o.urefs + Bit(o.request) + back + Bit(soright)
    BY <1>4, <1>5 DEF Bit
  <2>5. Bit(soright) \in Nat /\ Bit(o.request) \in Nat
    BY DEF Bit
  <2> HIDE DEF u, o
  <2>6. u = held'[slot] + deaths'[slot] + Owed(slot)
    BY <1>n, <2>2, <2>3, <2>4, <2>5
  <2>7. u + Bit(FALSE) = u
    BY <1>6 DEF Bit
  <2> QED
    BY <1>7, <1>10, <1>n, <2>1, <2>6, <2>7 DEF SlotOK, Owed
<1>17. Touched(slot, p, e, r, n)
  <2>1. /\ held' \in [Slots -> Int] /\ deaths' \in [Slots -> Nat]
        /\ \A x \in Slots : x # slot => held'[x] = held[x] /\ deaths'[x] = deaths[x]
    BY <1>1, <1>9
  <2>2. /\ early' \subseteq Ports /\ nosenders' \in [Ports -> SUBSET (0 .. MaxMscount)]
        /\ dnrequests' \in [Ports -> [Slots -> Nat]]
    BY <1>1, <1>9 DEF TypeOK
  <2>3. r.active = port[p].active /\ r.dying = port[p].dying
    BY <1>12 DEF Fields
  <2>4. e.type \cap {"send", "receive"} = {} /\ o.port \in {p, None} /\ e.port \in {p, None}
    BY <1>4, <1>7
  <2> QED
    BY <1>8, <1>9, <1>13, <1>14, <1>15, <1>16, <2>1, <2>2, <2>3, <2>4 DEF Touched
<1>18. ClaimsOK(p)'
  <2>1. ClaimsOK(p)
    BY <1>3 DEF PortOK
  <2>2. /\ Cardinality(Claims(p, "send")') <= n.send
        /\ Cardinality(Claims(p, "once")') <= n.once
    BY <1>c, <1>n, <1>b, <1>11, <2>1 DEF ClaimsOK
  <2> QED
    BY <1>10, <2>2 DEF ClaimsOK
<1>19. BusyOK(slot[1])'
  BY <1>3, <1>10 DEF BusyOK
<1> QED
  BY <1>2, <1>3, <1>7, <1>10, <1>11, <1>12, <1>17, <1>18, <1>19, SlotAct

-----------------------------------------------------------------------------
(* A right is copied out.                                                  *)

LEMMA SlotForFacts ==
  ASSUME RightsInv, NEW p \in Ports, NEW slot \in Slots, SlotFor(p, slot)
  PROVE  /\ busy[slot[1]] = None /\ slot[1] \in alive
         /\ \/ /\ entry[slot] = Empty
               /\ \A y \in Slots : y[1] = slot[1] /\ entry[y].port = p =>
                                     entry[y].type \cap {"send", "receive"} = {}
            \/ /\ entry[slot] # Empty /\ entry[slot].port = p
               /\ entry[slot].type \cap {"send", "receive"} # {}
<1> DEFINE there == {x \in Slots : x[1] = slot[1] /\ entry[x].port = p
                                   /\ entry[x].type \cap {"send", "receive"} # {}}
<1>1. /\ busy[slot[1]] = None /\ slot[1] \in alive
      /\ IF there = {} THEN entry[slot] = Empty ELSE slot \in there
  BY DEF SlotFor, Ready
<1>2. p # None /\ Empty.port = None
  BY PortRightsAssumption DEF Empty
<1> QED
  BY <1>1, <1>2

LEMMA CopyoutSendInv ==
  ASSUME RightsInv, NEW p \in Ports, NEW slot \in Slots, CopyoutSend(p, slot)
  PROVE  RightsInv'
<1> DEFINE o == entry[slot]
<1>1. /\ TypeOK /\ PortOK(p) /\ PortT(p) /\ port[p] \in PortRecords /\ port[p].active
      /\ o \in Entries /\ entry \in [Slots -> Entries]
      /\ nosenders \in [Ports -> SUBSET (0 .. MaxMscount)]
      /\ held \in [Slots -> Int] /\ held[slot] \in Int
      /\ Free(p, "send") > 0 /\ SlotFor(p, slot)
  BY PortTypes DEF RightsInv, TypeOK, CopyoutSend
<1>n. /\ port[p].srights \in Nat /\ port[p].sorights \in Nat /\ port[p].refs \in Nat
      /\ naked[p].send \in Nat /\ naked[p].once \in Nat /\ naked[p].dest \in Nat
      /\ naked[p].receive \in Nat /\ naked[p].send > 0
  BY <1>1, PortNats, FreeNaked
<1>2. /\ busy[slot[1]] = None
      /\ \/ /\ o = Empty
            /\ \A y \in Slots : y[1] = slot[1] /\ entry[y].port = p =>
                                  entry[y].type \cap {"send", "receive"} = {}
         \/ /\ o # Empty /\ o.port = p
            /\ o.type \cap {"send", "receive"} # {}
  BY <1>1, SlotForFacts
<1>3. /\ o.type \in {{}, {"send"}, {"receive"}, {"send", "receive"}}
      /\ o.type = {} <=> o = Empty
      /\ o.urefs \in Nat /\ o.urefs < UrefsMax /\ o.request \in BOOLEAN
      /\ o = [port |-> o.port, type |-> o.type, urefs |-> o.urefs, request |-> o.request]
      /\ o.port = IF o = Empty THEN None ELSE p
      /\ o.request => o # Empty
  <2>1. /\ o.type \in Types /\ o.urefs \in Nat /\ o.urefs <= UrefsMax /\ o.request \in BOOLEAN
        /\ o.urefs = UrefsMax => o.type = {"dead"}
        /\ o = [port |-> o.port, type |-> o.type, urefs |-> o.urefs, request |-> o.request]
        /\ o.request => o.port # None
    BY <1>1, EntryFacts
  <2>2. o.type = {} <=> o = Empty
    BY <1>1, EmptyEntry
  <2>3. o.type \in {{}, {"send"}, {"receive"}, {"send", "receive"}}
    BY <1>2, <2>1, <2>2 DEF Types
  <2>4. o.type # {"dead"}
    BY <2>3
  <2>5. o.urefs < UrefsMax
    BY <2>1, <2>4, PortRightsAssumption
  <2>6. Empty.port = None
    BY DEF Empty
  <2> QED
    BY <1>2, <2>1, <2>2, <2>3, <2>5, <2>6
<1> DEFINE h == IF Pegged(o) THEN 0 ELSE 1
           u == o.urefs + h
           e == [port |-> p, type |-> o.type \cup {"send"}, urefs |-> u, request |-> o.request]
           a == IF "send" \in o.type THEN port[p].srights - 1 ELSE port[p].srights
           b == IF o = Empty THEN port[p].refs ELSE port[p].refs - 1
           r == [port[p] EXCEPT !.srights = a, !.refs = b]
           n == [naked[p] EXCEPT !.send = naked[p].send - 1]
<1>4. u \in 0 .. UrefsMax /\ u # 0 /\ u # UrefsMax /\ h \in Int
  BY <1>3, PortRightsAssumption DEF Pegged
<1>5. entry' = [entry EXCEPT ![slot] = e]
  <2>1. IF Pegged(o) THEN o.urefs = u ELSE o.urefs + 1 = u
    BY <1>3
  <2>2. [o EXCEPT !.port = p, !.type = o.type \cup {"send"}, !.urefs = u] = e
    <3>1. ASSUME NEW f, f = [o EXCEPT !.port = p, !.type = o.type \cup {"send"}, !.urefs = u]
          PROVE  f = e
      BY <1>3, <3>1
    <3> QED
      BY <3>1
  <2>3. entry' = [entry EXCEPT ![slot] =
                    [o EXCEPT !.port = p, !.type = @ \cup {"send"},
                              !.urefs = IF Pegged(o) THEN @ ELSE @ + 1]]
    BY DEF CopyoutSend
  <2>4. [o EXCEPT !.port = p, !.type = @ \cup {"send"}, !.urefs = IF Pegged(o) THEN @ ELSE @ + 1]
          = [o EXCEPT !.port = p, !.type = o.type \cup {"send"}, !.urefs = u]
    BY <2>1
  <2> QED
    BY <2>2, <2>3, <2>4
<1>6. /\ port' = [port EXCEPT ![p] = r] /\ naked' = [naked EXCEPT ![p] = n]
      /\ held' = [held EXCEPT ![slot] = @ + h]
      /\ UNCHANGED <<alive, dnrequests, busy, deaths, nosenders, early, stray>>
  <2>1. held' = [held EXCEPT ![slot] = @ + h]
    <3>1. held' = [held EXCEPT ![slot] = IF Pegged(o) THEN @ ELSE @ + 1]
      BY DEF CopyoutSend
    <3>2. (IF Pegged(o) THEN held[slot] ELSE held[slot] + 1) = held[slot] + h
      BY <1>1
    <3> QED
      BY <3>1, <3>2
  <2>2. port' = [port EXCEPT ![p].srights = a, ![p].refs = b]
    BY <1>1 DEF CopyoutSend, Merged, TypeOK
  <2> QED
    BY <1>1, <2>1, <2>2 DEF CopyoutSend, TypeOK
<1>7. /\ e \in Entries /\ e.port = p /\ e.urefs = o.urefs + h /\ e.request = o.request
      /\ e.type = o.type \cup {"send"}
  <2>1. /\ o.type \cup {"send"} \in Types /\ o.type \cup {"send"} # {}
        /\ o.type \cup {"send"} # {"receive"} /\ o.type \cup {"send"} # {"once"}
        /\ o.type \cup {"send"} # {"dead"} /\ p # None
    <3>1. \/ o.type \cup {"send"} = {"send"}
          \/ o.type \cup {"send"} = {"send", "receive"}
      BY <1>3
    <3> QED
      BY <3>1, PortRightsAssumption DEF Types
  <2> HIDE DEF u
  <2>2. e \in Entries
    BY <1>3, <1>4, <2>1, MakeEntry
  <2> QED
    BY <2>2 DEF u
<1>8. /\ n \in NakedRights /\ n.send = naked[p].send - 1 /\ n.once = naked[p].once
      /\ n.dest = naked[p].dest /\ n.receive = naked[p].receive
  BY <1>1, <1>n DEF PortT, NakedRights
<1>9. /\ "send" \in o.type => port[p].srights >= 2
      /\ o # Empty => port[p].refs >= 2
  <2>1. "send" \in o.type => o # Empty
    BY <1>3
  <2>2. o # Empty => o.port = p
    BY <1>2
  <2> HIDE DEF o
  <2> QED
    BY <1>1, <1>n, <2>1, <2>2, EntryCounted DEF o
<1>10. /\ r \in PortRecords
       /\ Fields(r, port[p].active, port[p].dying, port[p].receiver, a,
                 port[p].sorights, port[p].mscount, b, port[p].ns, port[p].pd)
  <2>1. a \in Nat /\ b \in Nat
    BY <1>n, <1>9
  <2> HIDE DEF a, b
  <2> QED
    BY <1>1, <2>1, RecChanged, Zenon
<1>11. /\ entry'[slot] = e /\ port'[p] = r /\ naked'[p] = n
       /\ \A x \in Slots : x # slot => entry'[x] = entry[x]
  BY <1>1, <1>5, <1>6 DEF TypeOK
<1> HIDE DEF e, r, n
<1>12. /\ Bit(Has(e, p, "send")) = 1 /\ Bit(Has(e, p, "once")) = 0 /\ Bit(e.port = p) = 1
       /\ Bit(Has(o, p, "send")) = (IF "send" \in o.type THEN 1 ELSE 0)
       /\ Bit(Has(o, p, "once")) = 0 /\ Bit(o.port = p) = (IF o = Empty THEN 0 ELSE 1)
       /\ Has(e, p, "receive") <=> Has(o, p, "receive")
  <2>1. p # None
    BY PortRightsAssumption
  <2>2. "once" \notin o.type /\ (o = Empty => o.type = {})
    BY <1>3
  <2> QED
    BY <1>3, <1>7, <2>1, <2>2 DEF Bit, Has
<1>13. Moved(slot, p, e, r, n)
  <2>1. /\ r.srights - n.send - 1
             = port[p].srights - naked[p].send - (IF "send" \in o.type THEN 1 ELSE 0)
        /\ r.sorights - n.once - n.dest - 0
             = port[p].sorights - naked[p].once - naked[p].dest - 0
        /\ r.refs - n.send - n.once - n.dest - n.receive - 1
             = port[p].refs - naked[p].send - naked[p].once - naked[p].dest
               - naked[p].receive - (IF o = Empty THEN 0 ELSE 1)
    BY <1>n, <1>8, <1>10 DEF Fields
  <2> QED
    BY <1>12, <2>1 DEF Moved
<1>14. ReceiverOK(p)'
  BY <1>1, <1>8, <1>10, <1>11, <1>12, ReceiverKept DEF PortOK, Fields
<1>15. NoSendersOK(p)'
  <2>1. r.srights = port[p].srights \/ (port[p].srights # 0 /\ r.srights > 0)
    BY <1>n, <1>9, <1>10 DEF Fields
  <2> QED
    BY <1>1, <1>6, <1>10, <1>11, <2>1, NoSendersKept DEF PortOK, Fields
<1>16. /\ held'[slot] = held[slot] + e.urefs - entry[slot].urefs /\ held' \in [Slots -> Int]
       /\ \A x \in Slots : x # slot => held'[x] = held[x]
  <2>1. held[slot] + h = held[slot] + (o.urefs + h) - o.urefs
    BY <1>1, <1>3, <1>4
  <2> HIDE DEF h
  <2> QED
    BY <1>1, <1>4, <1>6, <1>7, <2>1
<1>17. Touched(slot, p, e, r, n)
  <2>1. r.active = port[p].active /\ r.dying = port[p].dying
    BY <1>10 DEF Fields
  <2>2. /\ nosenders' \in [Ports -> SUBSET (0 .. MaxMscount)]
        /\ \A q \in Ports : q # p => nosenders'[q] = nosenders[q]
        /\ o.port \in {p, None} /\ e.port \in {p, None}
        /\ e.request => e.port = o.port
    BY <1>1, <1>3, <1>6, <1>7
  <2>3. \/ /\ o.type \cap {"send", "receive"} # {}
           /\ e.port = o.port
        \/ \A y \in Slots : y[1] = slot[1] /\ entry[y].port = e.port =>
                              entry[y].type \cap {"send", "receive"} = {}
    BY <1>2, <1>7
  <2> QED
    BY <1>5, <1>6, <1>7, <1>8, <1>10, <1>13, <1>14, <1>15, <1>16, <2>1, <2>2, <2>3, TouchedBy
<1>18. n.once >= naked[p].once
  BY <1>n, <1>8
<1> QED
  BY <1>1, <1>2, <1>6, <1>7, <1>8, <1>10, <1>17, <1>18, SlotIdle

LEMMA CopyoutSendOnceInv ==
  ASSUME RightsInv, NEW p \in Ports, NEW slot \in Slots, CopyoutSendOnce(p, slot)
  PROVE  RightsInv'
<1>1. /\ TypeOK /\ PortOK(p) /\ PortT(p) /\ port[p] \in PortRecords /\ port[p].active
      /\ entry \in [Slots -> Entries] /\ port \in [Ports -> PortRecords]
      /\ nosenders \in [Ports -> SUBSET (0 .. MaxMscount)]
      /\ held \in [Slots -> Int] /\ held[slot] \in Int
      /\ Free(p, "once") > 0 /\ entry[slot] = Empty /\ busy[slot[1]] = None
  BY PortTypes DEF RightsInv, TypeOK, CopyoutSendOnce, Ready
<1>n. /\ port[p].srights \in Nat /\ port[p].sorights \in Nat /\ port[p].refs \in Nat
      /\ naked[p].send \in Nat /\ naked[p].once \in Nat /\ naked[p].dest \in Nat
      /\ naked[p].receive \in Nat /\ naked[p].once > 0
  BY <1>1, PortNats, FreeNaked
<1>2. /\ Empty.port = None /\ Empty.type = {} /\ Empty.urefs = 0 /\ Empty.request = FALSE
      /\ p # None
  BY PortRightsAssumption DEF Empty
<1> DEFINE e == [port |-> p, type |-> {"once"}, urefs |-> 1, request |-> FALSE]
           n == [naked[p] EXCEPT !.once = naked[p].once - 1]
<1>3. /\ e \in Entries /\ e.port = p /\ e.urefs = 1 /\ e.request = FALSE /\ e.type = {"once"}
  <2>1. /\ {"once"} \in Types /\ {"once"} # {} /\ {"once"} # {"receive"} /\ {"once"} # {"dead"}
        /\ 1 \in 0 .. UrefsMax /\ 1 # UrefsMax
    BY PortRightsAssumption DEF Types
  <2>2. e \in Entries
    BY <1>2, <2>1 DEF Entries
  <2> QED
    BY <2>2
<1>4. /\ entry' = [entry EXCEPT ![slot] = e] /\ naked' = [naked EXCEPT ![p] = n]
      /\ port' = [port EXCEPT ![p] = port[p]] /\ held' = [held EXCEPT ![slot] = @ + 1]
      /\ UNCHANGED <<alive, port, dnrequests, busy, deaths, nosenders, early, stray>>
  <2>1. ASSUME NEW f, f = [Empty EXCEPT !.port = p, !.type = {"once"}, !.urefs = 1]
        PROVE  f = e
    BY <2>1 DEF Empty
  <2>2. entry' = [entry EXCEPT ![slot] =
                    [Empty EXCEPT !.port = p, !.type = {"once"}, !.urefs = 1]]
    BY DEF CopyoutSendOnce
  <2>3. entry' = [entry EXCEPT ![slot] = e]
    BY <2>1, <2>2
  <2> QED
    BY <1>1, <2>3 DEF CopyoutSendOnce, TypeOK
<1>5. /\ n \in NakedRights /\ n.send = naked[p].send /\ n.once = naked[p].once - 1
      /\ n.dest = naked[p].dest /\ n.receive = naked[p].receive
  BY <1>1, <1>n DEF PortT, NakedRights
<1> HIDE DEF e, n
<1>6. /\ entry'[slot] = e /\ naked'[p] = n
      /\ \A x \in Slots : x # slot => entry'[x] = entry[x]
  BY <1>1, <1>4 DEF TypeOK
<1>7. /\ Bit(Has(e, p, "send")) = 0 /\ Bit(Has(e, p, "once")) = 1 /\ Bit(e.port = p) = 1
      /\ Bit(Has(entry[slot], p, "send")) = 0 /\ Bit(Has(entry[slot], p, "once")) = 0
      /\ Bit(entry[slot].port = p) = 0
      /\ ~Has(e, p, "receive") /\ ~Has(entry[slot], p, "receive")
  BY <1>1, <1>2, <1>3 DEF Bit, Has
<1>8. Moved(slot, p, e, port[p], n)
  <2>1. /\ port[p].srights - n.send - 0 = port[p].srights - naked[p].send - 0
        /\ port[p].sorights - n.once - n.dest - 1
             = port[p].sorights - naked[p].once - naked[p].dest - 0
        /\ port[p].refs - n.send - n.once - n.dest - n.receive - 1
             = port[p].refs - naked[p].send - naked[p].once - naked[p].dest
               - naked[p].receive - 0
    BY <1>n, <1>5
  <2> QED
    BY <1>7, <2>1 DEF Moved
<1>9. ReceiverOK(p)'
  BY <1>1, <1>4, <1>5, <1>6, <1>7, ReceiverKept DEF PortOK
<1>10. NoSendersOK(p)'
  BY <1>1, <1>4, NoSendersKept DEF PortOK
<1>11. /\ held'[slot] = held[slot] + e.urefs - entry[slot].urefs /\ held' \in [Slots -> Int]
       /\ \A x \in Slots : x # slot => held'[x] = held[x]
  BY <1>1, <1>2, <1>3, <1>4
<1>12. Touched(slot, p, e, port[p], n)
  <2>1. /\ nosenders' \in [Ports -> SUBSET (0 .. MaxMscount)]
        /\ \A q \in Ports : q # p => nosenders'[q] = nosenders[q]
        /\ entry[slot].port \in {p, None} /\ e.port \in {p, None}
        /\ e.request = entry[slot].request /\ (e.request => e.port = entry[slot].port)
        /\ e.type \cap {"send", "receive"} = {}
    BY <1>1, <1>2, <1>3, <1>4
  <2> QED
    BY <1>1, <1>3, <1>4, <1>5, <1>8, <1>9, <1>10, <1>11, <2>1, TouchedBy
<1>13. n.send >= naked[p].send
  BY <1>n, <1>5
<1> QED
  BY <1>1, <1>3, <1>4, <1>5, <1>12, <1>13, SlotIdle

LEMMA CopyoutReceiveInv ==
  ASSUME RightsInv, NEW p \in Ports, NEW slot \in Slots, CopyoutReceive(p, slot)
  PROVE  RightsInv'
<1> DEFINE o == entry[slot]
<1>1. /\ TypeOK /\ PortOK(p) /\ PortT(p) /\ port[p] \in PortRecords
      /\ o \in Entries /\ entry \in [Slots -> Entries]
      /\ nosenders \in [Ports -> SUBSET (0 .. MaxMscount)]
      /\ held \in [Slots -> Int] /\ held[slot] \in Int
      /\ naked[p].receive > 0 /\ SlotFor(p, slot)
  BY PortTypes DEF RightsInv, TypeOK, CopyoutReceive
<1>n. /\ port[p].srights \in Nat /\ port[p].sorights \in Nat /\ port[p].refs \in Nat
      /\ naked[p].send \in Nat /\ naked[p].once \in Nat /\ naked[p].dest \in Nat
      /\ naked[p].receive = 1
  BY <1>1, PortNats DEF PortT
<1>2. /\ busy[slot[1]] = None
      /\ \/ /\ o = Empty
            /\ \A y \in Slots : y[1] = slot[1] /\ entry[y].port = p =>
                                  entry[y].type \cap {"send", "receive"} = {}
         \/ /\ o # Empty /\ o.port = p
            /\ o.type \cap {"send", "receive"} # {}
  BY <1>1, SlotForFacts
<1>r. /\ port[p].active /\ port[p].receiver = None /\ ~port[p].dying
      /\ \A x \in Slots : ~Has(entry[x], p, "receive")
  <2>1. port[p].receiver = None /\ port[p].active
    BY <1>1, <1>n DEF PortOK, ReceiverOK
  <2> QED
    BY <1>1, <2>1, PortRightsAssumption DEF PortOK, ReceiverOK
<1>3. /\ o.type \in {{}, {"send"}}
      /\ o.type = {} <=> o = Empty
      /\ o.urefs \in Nat /\ o.urefs < UrefsMax /\ o.request \in BOOLEAN
      /\ o.urefs = 0 <=> o = Empty
      /\ o = [port |-> o.port, type |-> o.type, urefs |-> o.urefs, request |-> o.request]
      /\ o.port = IF o = Empty THEN None ELSE p
      /\ o.request => o # Empty
  <2>1. /\ o.type \in Types /\ o.urefs \in Nat /\ o.urefs <= UrefsMax /\ o.request \in BOOLEAN
        /\ o.urefs = UrefsMax => o.type = {"dead"}
        /\ o.urefs = 0 <=> o.type = {} \/ o.type = {"receive"}
        /\ o = [port |-> o.port, type |-> o.type, urefs |-> o.urefs, request |-> o.request]
        /\ o.request => o.port # None
    BY <1>1, EntryFacts
  <2>2. o.type = {} <=> o = Empty
    BY <1>1, EmptyEntry
  <2>3. o.type \in {{}, {"send"}}
    <3>1. o # Empty => "receive" \notin o.type
      BY <1>2, <1>r DEF Has
    <3> QED
      BY <1>2, <2>1, <2>2, <3>1 DEF Types
  <2>4. o.type # {"dead"} /\ o.type # {"receive"}
    BY <2>3
  <2>5. o.urefs < UrefsMax
    BY <2>1, <2>4, PortRightsAssumption
  <2>6. Empty.port = None
    BY DEF Empty
  <2> QED
    BY <1>2, <2>1, <2>2, <2>3, <2>4, <2>5, <2>6
<1> DEFINE e == [port |-> p, type |-> o.type \cup {"receive"}, urefs |-> o.urefs,
                 request |-> o.request]
           b == IF o = Empty THEN port[p].refs ELSE port[p].refs - 1
           r == [port[p] EXCEPT !.receiver = slot, !.refs = b]
           n == [naked[p] EXCEPT !.receive = 0]
<1>4. entry' = [entry EXCEPT ![slot] = e]
  <2>1. ASSUME NEW f, f = [o EXCEPT !.port = p, !.type = o.type \cup {"receive"}]
        PROVE  f = e
    BY <1>3, <2>1
  <2>2. entry' = [entry EXCEPT ![slot] =
                    [o EXCEPT !.port = p, !.type = o.type \cup {"receive"}]]
    BY DEF CopyoutReceive
  <2> QED
    BY <2>1, <2>2
<1>5. /\ port' = [port EXCEPT ![p] = r] /\ naked' = [naked EXCEPT ![p] = n]
      /\ UNCHANGED <<alive, dnrequests, busy, deaths, nosenders, held, early, stray>>
  BY <1>1 DEF CopyoutReceive, TypeOK
<1>6. /\ e \in Entries /\ e.port = p /\ e.urefs = o.urefs /\ e.request = o.request
      /\ e.type = o.type \cup {"receive"}
  <2>1. /\ o.type \cup {"receive"} \in Types /\ o.type \cup {"receive"} # {}
        /\ o.type \cup {"receive"} # {"once"} /\ o.type \cup {"receive"} # {"dead"} /\ p # None
        /\ o.type \cup {"receive"} = {"receive"} <=> o = Empty
    <3>1. \/ o = Empty /\ o.type \cup {"receive"} = {"receive"}
          \/ o # Empty /\ o.type \cup {"receive"} = {"send", "receive"}
      BY <1>3
    <3> QED
      BY <3>1, PortRightsAssumption DEF Types
  <2>2. o.urefs \in 0 .. UrefsMax /\ o.urefs # UrefsMax
    BY <1>3, PortRightsAssumption
  <2>3. e \in Entries
    BY <1>3, <2>1, <2>2, MakeEntry, Zenon
  <2> QED
    BY <2>3
<1>7. /\ n \in NakedRights /\ n.send = naked[p].send /\ n.once = naked[p].once
      /\ n.dest = naked[p].dest /\ n.receive = 0
  BY <1>1, <1>n DEF PortT, NakedRights
<1>8. /\ r \in PortRecords
      /\ Fields(r, port[p].active, port[p].dying, slot, port[p].srights,
                port[p].sorights, port[p].mscount, b, port[p].ns, port[p].pd)
  <2>1. o # Empty => port[p].refs >= 1
    BY <1>2, <1>n, EntryCounted
  <2>2. b \in Nat /\ slot \in Slots \cup {None}
    BY <1>n, <2>1
  <2> HIDE DEF b
  <2> QED
    BY <1>1, <2>2, RecChanged, Zenon
<1>9. /\ entry'[slot] = e /\ port'[p] = r /\ naked'[p] = n
      /\ \A x \in Slots : x # slot => entry'[x] = entry[x]
  BY <1>1, <1>4, <1>5 DEF TypeOK
<1> HIDE DEF e, r, n
<1>10. /\ Bit(Has(e, p, "send")) = Bit(Has(o, p, "send")) /\ Bit(Has(o, p, "send")) \in Nat
       /\ Bit(Has(e, p, "once")) = 0 /\ Bit(Has(o, p, "once")) = 0
       /\ Bit(e.port = p) = 1 /\ Bit(o.port = p) = (IF o = Empty THEN 0 ELSE 1)
       /\ Has(e, p, "receive")
  <2>1. p # None
    BY PortRightsAssumption
  <2>2. "once" \notin o.type /\ (o = Empty => o.type = {})
    BY <1>3
  <2> QED
    BY <1>3, <1>6, <2>1, <2>2 DEF Bit, Has
<1>11. Moved(slot, p, e, r, n)
  <2>1. /\ \A s \in Nat : r.srights - n.send - s = port[p].srights - naked[p].send - s
        /\ r.sorights - n.once - n.dest - 0
             = port[p].sorights - naked[p].once - naked[p].dest - 0
        /\ r.refs - n.send - n.once - n.dest - n.receive - 1
             = port[p].refs - naked[p].send - naked[p].once - naked[p].dest
               - naked[p].receive - (IF o = Empty THEN 0 ELSE 1)
    BY <1>n, <1>7, <1>8 DEF Fields
  <2> QED
    BY <1>10, <2>1 DEF Moved
<1>12. ReceiverOK(p)'
  <2>1. \A x \in Slots : Has(entry'[x], p, "receive") <=> x = slot
    BY <1>r, <1>9, <1>10
  <2>2. slot # None
    BY PortRightsAssumption
  <2> QED
    BY <1>r, <1>7, <1>8, <1>9, <2>1, <2>2 DEF ReceiverOK, Fields
<1>13. NoSendersOK(p)'
  BY <1>1, <1>5, <1>8, <1>9, NoSendersKept DEF PortOK, Fields
<1>14. /\ held'[slot] = held[slot] + e.urefs - entry[slot].urefs /\ held' \in [Slots -> Int]
       /\ \A x \in Slots : x # slot => held'[x] = held[x]
  BY <1>1, <1>3, <1>5, <1>6
<1>15. Touched(slot, p, e, r, n)
  <2>1. r.active = port[p].active /\ r.dying = port[p].dying
    BY <1>8 DEF Fields
  <2>2. /\ nosenders' \in [Ports -> SUBSET (0 .. MaxMscount)]
        /\ \A q \in Ports : q # p => nosenders'[q] = nosenders[q]
        /\ o.port \in {p, None} /\ e.port \in {p, None}
        /\ e.request => e.port = o.port
    BY <1>1, <1>3, <1>5, <1>6
  <2>3. \/ /\ o.type \cap {"send", "receive"} # {}
           /\ e.port = o.port
        \/ \A y \in Slots : y[1] = slot[1] /\ entry[y].port = e.port =>
                              entry[y].type \cap {"send", "receive"} = {}
    BY <1>2, <1>6
  <2> QED
    BY <1>4, <1>5, <1>6, <1>7, <1>8, <1>11, <1>12, <1>13, <1>14, <2>1, <2>2, <2>3, TouchedBy
<1>16. n.once >= naked[p].once /\ n.send >= naked[p].send
  BY <1>n, <1>7
<1> QED
  BY <1>2, <1>5, <1>6, <1>7, <1>8, <1>15, <1>16, SlotIdle

LEMMA MoveReceiveInv ==
  ASSUME RightsInv, NEW slot \in Slots, MoveReceive(slot) PROVE RightsInv'
<1> DEFINE o == entry[slot]
<1>0. PICK p \in Ports : p = o.port
  BY EntryOf DEF MoveReceive
<1>1. /\ TypeOK /\ PortOK(p) /\ PortT(p) /\ port[p] \in PortRecords
      /\ o \in Entries /\ entry \in [Slots -> Entries]
      /\ nosenders \in [Ports -> SUBSET (0 .. MaxMscount)]
      /\ held \in [Slots -> Int] /\ held[slot] \in Int
      /\ "receive" \in o.type /\ busy[slot[1]] = None
  BY <1>0, PortTypes DEF RightsInv, TypeOK, MoveReceive, Ready
<1>n. /\ port[p].srights \in Nat /\ port[p].sorights \in Nat /\ port[p].refs \in Nat
      /\ naked[p].send \in Nat /\ naked[p].once \in Nat /\ naked[p].dest \in Nat
      /\ naked[p].receive = 0
  BY <1>0, <1>1, PortNats, EntryOf
<1>r. /\ port[p].active /\ port[p].receiver = slot /\ ~port[p].dying
      /\ \A x \in Slots : x # slot => ~Has(entry[x], p, "receive")
  <2>1. port[p].active /\ port[p].receiver = slot
    BY <1>0, <1>1, EntryOf
  <2> QED
    BY <1>1, <2>1, PortRightsAssumption DEF PortOK, ReceiverOK
<1>3. /\ o.type = {"receive"} \/ o.type = {"send", "receive"}
      /\ o.urefs \in Nat /\ o.urefs < UrefsMax /\ o.request \in BOOLEAN /\ p # None
      /\ o.urefs = 0 <=> o.type = {"receive"}
      /\ o = [port |-> p, type |-> o.type, urefs |-> o.urefs, request |-> o.request]
  <2>1. /\ o.type \in Types /\ o.urefs \in Nat /\ o.urefs <= UrefsMax /\ o.request \in BOOLEAN
        /\ o.urefs = UrefsMax => o.type = {"dead"}
        /\ o.urefs = 0 <=> o.type = {} \/ o.type = {"receive"}
        /\ o = [port |-> o.port, type |-> o.type, urefs |-> o.urefs, request |-> o.request]
    BY <1>1, EntryFacts
  <2>2. o.type = {"receive"} \/ o.type = {"send", "receive"}
    BY <1>1, <2>1, TypeFacts
  <2>3. o.type # {"dead"} /\ o.type # {}
    BY <1>1
  <2>4. o.urefs < UrefsMax
    BY <2>1, <2>3, PortRightsAssumption
  <2> QED
    BY <1>0, <2>1, <2>2, <2>3, <2>4, PortRightsAssumption
<1> DEFINE both == "send" \in o.type
           f == [port |-> p, type |-> {"send"}, urefs |-> o.urefs, request |-> o.request]
           e == IF both THEN f ELSE Empty
           t == Cleared(port[p])
           b == IF both THEN t.refs + 1 ELSE t.refs
           r == [t EXCEPT !.refs = b]
           n == [naked[p] EXCEPT !.receive = 1]
<1>4. entry' = [entry EXCEPT ![slot] = e]
  <2>1. ASSUME NEW g, g = [o EXCEPT !.type = {"send"}]
        PROVE  g = f
    BY <1>3, <2>1
  <2>2. entry' = [entry EXCEPT ![slot] = IF both THEN [o EXCEPT !.type = {"send"}] ELSE Empty]
    BY DEF MoveReceive
  <2> QED
    BY <2>1, <2>2
<1>5. /\ port' = [port EXCEPT ![p] = r] /\ naked' = [naked EXCEPT ![p] = n]
      /\ dnrequests' = IF both THEN dnrequests ELSE Cancelled(slot)
      /\ nosenders' = [nosenders EXCEPT ![p] = {}]
      /\ UNCHANGED <<alive, busy, deaths, held, early, stray>>
  <2>1. port' = [port EXCEPT ![p] = r]
    BY <1>0, Zenon DEF MoveReceive
  <2>2. naked' = [naked EXCEPT ![p] = n]
    BY <1>0, <1>1 DEF MoveReceive, TypeOK
  <2> QED
    BY <1>0, <2>1, <2>2 DEF MoveReceive
<1>e. /\ Empty \in Entries /\ Empty.port = None /\ Empty.type = {} /\ Empty.urefs = 0
      /\ Empty.request = FALSE
  BY EmptyEntry DEF Empty
<1>6. /\ e \in Entries /\ e.port = (IF both THEN p ELSE None) /\ e.urefs = o.urefs
      /\ e.request = (IF both THEN o.request ELSE FALSE)
      /\ e.type = (IF both THEN {"send"} ELSE {})
  <2>1. CASE both
    <3>1. /\ {"send"} \in Types /\ {"send"} # {} /\ {"send"} # {"dead"} /\ {"send"} # {"once"}
          /\ {"send"} # {"receive"} /\ o.type # {"receive"}
      BY <2>1 DEF Types
    <3>2. o.urefs \in 0 .. UrefsMax /\ o.urefs # UrefsMax /\ o.urefs # 0
      BY <1>3, <3>1, PortRightsAssumption
    <3>3. f \in Entries
      BY <1>3, <3>1, <3>2, MakeEntry
    <3> QED
      BY <2>1, <3>3
  <2>2. CASE ~both
    <3>1. o.type = {"receive"} /\ e = Empty
      BY <1>3, <2>2
    <3> HIDE DEF e
    <3> QED
      BY <1>3, <1>e, <2>2, <3>1
  <2> QED
    BY <2>1, <2>2
<1>7. /\ n \in NakedRights /\ n.send = naked[p].send /\ n.once = naked[p].once
      /\ n.dest = naked[p].dest /\ n.receive = 1
  BY <1>1, <1>n DEF PortT, NakedRights
<1>8. /\ t \in PortRecords
      /\ Fields(t, port[p].active, port[p].dying, None, port[p].srights,
                port[p].sorights, 0, port[p].refs, port[p].ns, port[p].pd)
  BY <1>1, RecCleared
<1> HIDE DEF t
<1>9. /\ r \in PortRecords
      /\ Fields(r, t.active, t.dying, t.receiver, t.srights, t.sorights, t.mscount, b, t.ns,
                t.pd)
  <2>1. b \in Nat
    BY <1>n, <1>8 DEF Fields
  <2> HIDE DEF b
  <2> QED
    BY <1>8, <2>1, RecChanged, Zenon
<1>10. /\ entry'[slot] = e /\ port'[p] = r /\ naked'[p] = n /\ nosenders'[p] = {}
       /\ \A x \in Slots : x # slot => entry'[x] = entry[x]
  BY <1>1, <1>4, <1>5 DEF TypeOK
<1> HIDE DEF e, r, n
<1>11. /\ Bit(Has(e, p, "send")) = Bit(Has(o, p, "send")) /\ Bit(Has(o, p, "send")) \in Nat
       /\ Bit(Has(e, p, "once")) = 0 /\ Bit(Has(o, p, "once")) = 0
       /\ Bit(e.port = p) = (IF both THEN 1 ELSE 0) /\ Bit(o.port = p) = 1
       /\ ~Has(e, p, "receive")
  <2>1. /\ Has(e, p, "send") <=> Has(o, p, "send")
        /\ ~Has(e, p, "once") /\ ~Has(o, p, "once") /\ ~Has(e, p, "receive")
        /\ e.port = p <=> both
        /\ o.port = p
    BY <1>0, <1>3, <1>6 DEF Has
  <2> QED
    BY <2>1 DEF Bit
<1>12. Moved(slot, p, e, r, n)
  <2>1. /\ \A s \in Nat : r.srights - n.send - s = port[p].srights - naked[p].send - s
        /\ r.sorights - n.once - n.dest - 0
             = port[p].sorights - naked[p].once - naked[p].dest - 0
        /\ r.refs - n.send - n.once - n.dest - n.receive - (IF both THEN 1 ELSE 0)
             = port[p].refs - naked[p].send - naked[p].once - naked[p].dest
               - naked[p].receive - 1
    BY <1>n, <1>7, <1>8, <1>9 DEF Fields
  <2> QED
    BY <1>11, <2>1 DEF Moved
<1>13. ReceiverOK(p)'
  <2>1. \A x \in Slots : ~Has(entry'[x], p, "receive") /\ x # None
    BY <1>r, <1>10, <1>11, PortRightsAssumption
  <2> QED
    BY <1>r, <1>7, <1>8, <1>9, <1>10, <2>1 DEF ReceiverOK, Fields
<1>14. NoSendersOK(p)'
  BY <1>1, <1>5, <1>8, <1>9, <1>10 DEF PortOK, NoSendersOK, Fields
<1>15. /\ held'[slot] = held[slot] + e.urefs - entry[slot].urefs /\ held' \in [Slots -> Int]
       /\ \A x \in Slots : x # slot => held'[x] = held[x]
  BY <1>1, <1>3, <1>5, <1>6
<1>16. Touched(slot, p, e, r, n)
  <2>1. r.active = port[p].active /\ r.dying = port[p].dying
    BY <1>8, <1>9 DEF Fields
  <2>2. /\ nosenders' \in [Ports -> SUBSET (0 .. MaxMscount)]
        /\ \A q \in Ports : q # p => nosenders'[q] = nosenders[q]
        /\ o.port \in {p, None} /\ e.port \in {p, None}
    BY <1>0, <1>1, <1>3, <1>5, <1>6
  <2>3. \/ /\ dnrequests' = dnrequests /\ e.request = o.request
           /\ e.request => e.port = o.port
        \/ /\ dnrequests' = Cancelled(slot) /\ ~e.request
           /\ o.request => port[o.port].active
    BY <1>0, <1>r, <1>5, <1>6
  <2>4. \/ e.type \cap {"send", "receive"} = {}
        \/ o.type \cap {"send", "receive"} # {} /\ e.port = o.port
    BY <1>0, <1>1, <1>6
  <2> QED
    BY <1>4, <1>5, <1>6, <1>7, <1>9, <1>12, <1>13, <1>14, <1>15, <2>1, <2>2, <2>3, <2>4,
       TouchedBy
<1>17. n.once >= naked[p].once /\ n.send >= naked[p].send
  BY <1>n, <1>7
<1> QED
  BY <1>1, <1>5, <1>6, <1>7, <1>9, <1>16, <1>17, SlotIdle

-----------------------------------------------------------------------------
(* Rights are given back.                                                  *)

LEMMA SendGone ==
  ASSUME RightsInv, NEW slot \in Slots, NEW p \in Ports, p = entry[slot].port,
         "send" \in entry[slot].type, port[p].active, NEW gone \in BOOLEAN,
         gone <=> entry[slot].type \ {"send"} = {},
         entry' = [entry EXCEPT ![slot] = WithoutSend(entry[slot])],
         port' = [port EXCEPT ![p] =
                    [LoseSend(port[p]) EXCEPT !.refs = IF gone THEN @ - 1 ELSE @]],
         dnrequests' = IF gone THEN Cancelled(slot) ELSE dnrequests,
         nosenders' = [nosenders EXCEPT ![p] = @ \cup NoSendersFor(p)],
         HeldBy(slot, -entry[slot].urefs), busy[slot[1]] = None,
         UNCHANGED <<alive, busy, deaths, early, stray, naked>>
  PROVE  RightsInv'
<1> DEFINE o == entry[slot]
           e == WithoutSend(o)
<1>1. /\ TypeOK /\ PortOK(p) /\ PortT(p) /\ port[p] \in PortRecords
      /\ o \in Entries /\ entry \in [Slots -> Entries]
      /\ nosenders \in [Ports -> SUBSET (0 .. MaxMscount)]
      /\ held[slot] \in Int /\ o.urefs \in Nat
      /\ naked \in [Ports -> NakedRights] /\ naked[p] \in NakedRights
  BY PortTypes, EntryOf, EntryFacts DEF RightsInv, TypeOK
<1>n. /\ port[p].srights \in Nat /\ port[p].sorights \in Nat /\ port[p].refs \in Nat
      /\ naked[p].send \in Nat /\ naked[p].once \in Nat /\ naked[p].dest \in Nat
      /\ naked[p].receive \in Nat /\ port[p].srights > 0 /\ port[p].refs > 0
  <2>1. /\ port[p].srights \in Nat /\ port[p].sorights \in Nat /\ port[p].refs \in Nat
        /\ naked[p].send \in Nat /\ naked[p].once \in Nat /\ naked[p].dest \in Nat
        /\ naked[p].receive \in Nat
    BY <1>1, PortNats
  <2>2. /\ port[p].refs >= naked[p].send + naked[p].once + naked[p].dest
                           + naked[p].receive + 1
        /\ port[p].srights >= naked[p].send + 1
    BY EntryCounted
  <2> QED
    BY <2>1, <2>2
<1>2. /\ e \in Entries /\ e.urefs = 0 /\ e.port \in {p, None}
      /\ e.type = o.type \ {"send"}
      /\ Has(e, p, "receive") <=> Has(o, p, "receive")
      /\ gone => ~e.request
      /\ ~gone => e.request = o.request /\ e.port = p
      /\ Bit(Has(e, p, "send")) = 0 /\ Bit(Has(o, p, "send")) = 1
      /\ Bit(Has(e, p, "once")) = 0 /\ Bit(Has(o, p, "once")) = 0
      /\ Bit(e.port = p) = (IF gone THEN 0 ELSE 1)
      /\ Bit(o.port = p) = 1
  BY <1>1, SendLeaves
<1> DEFINE t == LoseSend(port[p])
           b == IF gone THEN t.refs - 1 ELSE t.refs
           r == [t EXCEPT !.refs = b]
<1>3. port' = [port EXCEPT ![p] = r] /\ naked' = [naked EXCEPT ![p] = naked[p]]
  <2>1. naked' = [naked EXCEPT ![p] = naked[p]]
    BY <1>1
  <2>2. port' = [port EXCEPT ![p] = r]
    BY Zenon
  <2> QED
    BY <2>1, <2>2
<1>4. /\ t \in PortRecords
      /\ Fields(t, port[p].active, port[p].dying, port[p].receiver, port[p].srights - 1,
                port[p].sorights, port[p].mscount, port[p].refs,
                port[p].ns /\ port[p].srights > 1, port[p].pd)
  BY <1>1, <1>n, RecLost, Zenon
<1> HIDE DEF t
<1>5. /\ r \in PortRecords
      /\ Fields(r, t.active, t.dying, t.receiver, t.srights, t.sorights, t.mscount, b, t.ns,
                t.pd)
  <2>1. b \in Nat
    BY <1>n, <1>4 DEF Fields
  <2> HIDE DEF b
  <2> QED
    BY <1>4, <2>1, RecChanged, Zenon
<1> HIDE DEF e, r
<1>6. /\ entry'[slot] = e /\ port'[p] = r /\ nosenders'[p] = nosenders[p] \cup NoSendersFor(p)
      /\ \A x \in Slots : x # slot => entry'[x] = entry[x]
  BY <1>1, <1>3 DEF TypeOK, e
<1>7. Moved(slot, p, e, r, naked[p])
  <2>1. /\ r.srights - naked[p].send - 0 = port[p].srights - naked[p].send - 1
        /\ r.sorights - naked[p].once - naked[p].dest - 0
             = port[p].sorights - naked[p].once - naked[p].dest - 0
        /\ r.refs - naked[p].send - naked[p].once - naked[p].dest - naked[p].receive
           - (IF gone THEN 0 ELSE 1)
             = port[p].refs - naked[p].send - naked[p].once - naked[p].dest
               - naked[p].receive - 1
    BY <1>n, <1>4, <1>5 DEF Fields
  <2> QED
    BY <1>2, <2>1 DEF Moved
<1>f. /\ port'[p].active = port[p].active /\ port'[p].dying = port[p].dying
      /\ port'[p].receiver = port[p].receiver /\ naked'[p].receive = naked[p].receive
      /\ port'[p].mscount = port[p].mscount /\ port'[p].srights = port[p].srights - 1
      /\ port'[p].ns = (port[p].ns /\ port[p].srights > 1)
  BY <1>4, <1>5, <1>6 DEF Fields
<1>8. ReceiverOK(p)'
  <2>1. Has(entry'[slot], p, "receive") <=> Has(entry[slot], p, "receive")
    BY <1>2, <1>6
  <2>2. ReceiverOK(p) /\ \A x \in Slots : x # slot => entry'[x] = entry[x]
    BY <1>1, <1>6 DEF PortOK
  <2> QED
    BY <1>f, <2>1, <2>2, ReceiverKept, ZenonT(60)
<1>9. NoSendersOK(p)'
  <2>1. /\ NoSendersOK(p) /\ PortT(p) /\ port[p].srights > 0
        /\ p \in early <=> p \in early'
        /\ nosenders'[p] = nosenders[p] \cup NoSendersFor(p)
    BY <1>1, <1>n, <1>6 DEF PortOK
  <2> QED
    BY <1>f, <2>1, NoSendersLost
<1>10. /\ held'[slot] = held[slot] + e.urefs - o.urefs \/ slot[1] \notin alive
       /\ held' \in [Slots -> Int]
       /\ \A x \in Slots : x # slot => held'[x] = held[x]
  BY <1>1, <1>2 DEF HeldBy
<1>11. Touched(slot, p, e, r, naked[p])
  <2>1. r.active = port[p].active /\ r.dying = port[p].dying
    BY <1>4, <1>5 DEF Fields
  <2>2. /\ nosenders' \in [Ports -> SUBSET (0 .. MaxMscount)]
        /\ \A q \in Ports : q # p => nosenders'[q] = nosenders[q]
    <3>1. NoSendersFor(p) \subseteq 0 .. MaxMscount
      BY <1>1 DEF PortT, NoSendersFor
    <3> QED
      BY <1>1, <3>1
  <2>3. \/ /\ dnrequests' = dnrequests /\ e.request = o.request
           /\ e.request => e.port = o.port
        \/ /\ dnrequests' = Cancelled(slot) /\ ~e.request
           /\ o.request => port[o.port].active
    BY <1>2
  <2>4. /\ \/ e.type \cap {"send", "receive"} = {}
           \/ o.type \cap {"send", "receive"} # {} /\ e.port = o.port
        /\ o.port \in {p, None}
    BY <1>2
  <2>5. entry' = [entry EXCEPT ![slot] = e]
    BY DEF e
  <2> QED
    BY <1>1, <1>2, <1>3, <1>5, <1>7, <1>8, <1>9, <1>10, <2>1, <2>2, <2>3, <2>4, <2>5,
       TouchedBy
<1>12. naked[p].once >= naked[p].once /\ naked[p].send >= naked[p].send
  BY <1>n
<1> QED
  BY <1>1, <1>2, <1>5, <1>11, <1>12, SlotIdle

LEMMA SendDeltaInv ==
  ASSUME RightsInv, NEW slot \in Slots, NEW d \in Int, SendDelta(slot, d),
         busy[slot[1]] = None, UNCHANGED <<alive, busy, deaths, early, stray>>
  PROVE  RightsInv'
<1> DEFINE o == entry[slot]
<1>0. PICK p \in Ports : p = o.port
  BY EntryOf DEF SendDelta
<1>1. /\ TypeOK /\ PortOK(p) /\ PortT(p) /\ port[p] \in PortRecords /\ port[p].active
      /\ port \in [Ports -> PortRecords] /\ naked \in [Ports -> NakedRights]
      /\ o \in Entries /\ entry \in [Slots -> Entries] /\ naked[p] \in NakedRights
      /\ nosenders \in [Ports -> SUBSET (0 .. MaxMscount)]
      /\ held \in [Slots -> Int] /\ held[slot] \in Int /\ o.urefs \in Nat
      /\ "send" \in o.type /\ o.urefs + d \in 0 .. UrefsMax - 1
  BY <1>0, PortTypes, EntryOf, EntryFacts DEF RightsInv, TypeOK, SendDelta
<1>2. held' = [held EXCEPT ![slot] = @ + d] /\ naked' = naked
  <2>1. held' = [held EXCEPT ![slot] = @ - (-d)] /\ held[slot] - (-d) = held[slot] + d
    BY <1>1 DEF SendDelta, GiveBack
  <2> QED
    BY <2>1 DEF SendDelta
<1>3. CASE o.urefs + d > 0
  <2> DEFINE e == [o EXCEPT !.urefs = o.urefs + d]
  <2>1. /\ entry' = [entry EXCEPT ![slot] = e]
        /\ UNCHANGED <<port, dnrequests, nosenders>>
    BY <1>1, <1>3 DEF SendDelta
  <2>2. /\ e \in Entries /\ e.port = o.port /\ e.type = o.type /\ e.urefs = o.urefs + d
        /\ e.request = o.request
    <3> DEFINE u == o.urefs + d
    <3>1. u \in 1 .. UrefsMax - 1
      BY <1>1, <1>3, PortRightsAssumption
    <3>2. e = [o EXCEPT !.urefs = u]
      OBVIOUS
    <3> HIDE DEF u
    <3> QED
      BY <1>1, <3>1, <3>2, FewerUrefs DEF u
  <2> HIDE DEF e
  <2>3. \A right : Has(e, p, right) <=> Has(o, p, right)
    BY <2>2 DEF Has
  <2>4. Moved(slot, p, e, port[p], naked[p])
    <3>1. /\ Bit(Has(e, p, "send")) = Bit(Has(o, p, "send"))
          /\ Bit(Has(e, p, "once")) = Bit(Has(o, p, "once"))
          /\ Bit(e.port = p) = Bit(o.port = p)
      BY <2>2, <2>3 DEF Bit
    <3> QED
      BY <3>1 DEF Moved
  <2>5. /\ port' = [port EXCEPT ![p] = port[p]] /\ naked' = [naked EXCEPT ![p] = naked[p]]
        /\ entry'[slot] = e /\ \A x \in Slots : x # slot => entry'[x] = entry[x]
    BY <1>1, <1>2, <2>1
  <2>6. ReceiverOK(p)' /\ NoSendersOK(p)'
    BY <1>1, <1>2, <2>1, <2>3, <2>5, ReceiverKept, NoSendersKept DEF PortOK
  <2>7. /\ held'[slot] = held[slot] + e.urefs - o.urefs /\ held' \in [Slots -> Int]
        /\ \A x \in Slots : x # slot => held'[x] = held[x]
    BY <1>1, <1>2, <2>2
  <2>8. /\ nosenders' \in [Ports -> SUBSET (0 .. MaxMscount)]
        /\ \A q \in Ports : q # p => nosenders'[q] = nosenders[q]
        /\ o.port \in {p, None} /\ e.port \in {p, None}
        /\ o.type \cap {"send", "receive"} # {} /\ e.port = o.port
    BY <1>0, <1>1, <2>1, <2>2
  <2>9. Touched(slot, p, e, port[p], naked[p])
    BY <1>1, <2>1, <2>2, <2>4, <2>5, <2>6, <2>7, <2>8, TouchedBy
  <2>10. naked[p].once >= naked[p].once /\ naked[p].send >= naked[p].send
    <3>1. naked[p].once \in Nat /\ naked[p].send \in Nat
      BY <1>1, PortNats
    <3> QED
      BY <3>1
  <2> QED
    BY <1>1, <2>2, <2>9, <2>10, SlotIdle
<1>4. CASE ~(o.urefs + d > 0)
  <2> DEFINE gone == o.type \ {"send"} = {}
  <2>1. /\ entry' = [entry EXCEPT ![slot] = WithoutSend(o)]
        /\ dnrequests' = IF gone THEN Cancelled(slot) ELSE dnrequests
        /\ nosenders' = [nosenders EXCEPT ![p] = @ \cup NoSendersFor(p)]
    BY <1>0, <1>4 DEF SendDelta, WithoutSend
  <2>2. port' = [port EXCEPT ![p] =
                   [LoseSend(port[p]) EXCEPT !.refs = IF gone THEN @ - 1 ELSE @]]
    BY <1>0, <1>4, Zenon DEF SendDelta
  <2>3. d = -o.urefs
    BY <1>1, <1>4
  <2>4. HeldBy(slot, -entry[slot].urefs)
    BY <1>2, <2>3, HeldGiven
  <2>5. gone \in BOOLEAN /\ (gone <=> entry[slot].type \ {"send"} = {})
    OBVIOUS
  <2> HIDE DEF gone
  <2> QED
    BY <1>0, <1>1, <1>2, <2>1, <2>2, <2>4, <2>5, SendGone
<1> QED
  BY <1>3, <1>4

LEMMA OnceGoneInv ==
  ASSUME RightsInv, NEW slot \in Slots, NEW p \in Ports, p = entry[slot].port,
         "once" \in entry[slot].type, port[p].active,
         entry' = [entry EXCEPT ![slot] = Empty],
         naked' = [naked EXCEPT ![p].dest = @ + 1],
         dnrequests' = Cancelled(slot), HeldBy(slot, -entry[slot].urefs),
         busy[slot[1]] = None,
         UNCHANGED <<alive, port, busy, deaths, nosenders, early, stray>>
  PROVE  RightsInv'
<1> DEFINE n == [naked[p] EXCEPT !.dest = naked[p].dest + 1]
<1>1. /\ TypeOK /\ PortT(p) /\ naked \in [Ports -> NakedRights]
      /\ port[p] \in PortRecords /\ Empty \in Entries
  BY PortTypes, EmptyEntry DEF RightsInv, TypeOK
<1>2. naked[p].send \in Nat /\ naked[p].once \in Nat /\ naked[p].dest \in Nat
  BY <1>1, PortNats
<1>3. naked' = [naked EXCEPT ![p] = n]
  BY <1>1
<1>4. /\ n \in NakedRights /\ n.send = naked[p].send /\ n.once = naked[p].once
      /\ n.dest = naked[p].dest + 1 /\ n.receive = naked[p].receive
  BY <1>1, <1>2 DEF PortT, NakedRights
<1> HIDE DEF n
<1>5. n.once + n.dest = naked[p].once + naked[p].dest + 1
      /\ n.send >= naked[p].send /\ n.once >= naked[p].once
  BY <1>2, <1>4
<1>6. Touched(slot, p, Empty, port[p], n)
  BY <1>3, <1>4, <1>5, OnceTouched
<1> QED
  BY <1>1, <1>4, <1>5, <1>6, SlotIdle

LEMMA EntryChanged ==
  ASSUME NEW e \in Entries, NEW u, NEW b
  PROVE  /\ [e EXCEPT !.urefs = u]
              = [port |-> e.port, type |-> e.type, urefs |-> u, request |-> e.request]
         /\ [e EXCEPT !.request = b]
              = [port |-> e.port, type |-> e.type, urefs |-> e.urefs, request |-> b]
<1>1. e = [port |-> e.port, type |-> e.type, urefs |-> e.urefs, request |-> e.request]
  BY EntryFacts
<1> QED
  BY <1>1

LEMMA DeadUrefs ==
  ASSUME NEW c \in Entries, c.type = {"dead"}, NEW u \in 1 .. UrefsMax
  PROVE  LET e == [c EXCEPT !.urefs = u]
         IN  /\ e \in Entries /\ e.port = None /\ e.type = {"dead"} /\ e.urefs = u
             /\ e.request = FALSE
<1>1. /\ c = [port |-> c.port, type |-> c.type, urefs |-> c.urefs, request |-> c.request]
      /\ c.port = None /\ c.request = FALSE
  BY EntryFacts
<1>2. [c EXCEPT !.urefs = u]
        = [port |-> None, type |-> {"dead"}, urefs |-> u, request |-> FALSE]
  BY <1>1, EntryChanged
<1>3. {"dead"} \in Types /\ {"dead"} # {} /\ {"dead"} # {"receive"} /\ {"dead"} # {"once"}
  BY DEF Types
<1>4. u \in 0 .. UrefsMax /\ u # 0
  BY PortRightsAssumption
<1>5. [port |-> None, type |-> {"dead"}, urefs |-> u, request |-> FALSE] \in Entries
  BY <1>3, <1>4 DEF Entries
<1> QED
  BY <1>2, <1>5

\* A dead name, or an entry that ipc_right_check finds to be one, gets or gives
\* back references.
LEMMA DeadDeltaInv ==
  ASSUME RightsInv, NEW slot \in Slots, NEW d \in Int, DeadDelta(slot, d),
         busy[slot[1]] = None, UNCHANGED <<alive, busy, deaths, early, stray>>
  PROVE  RightsInv'
<1> DEFINE c == Checked(slot)
           u == c.urefs + d
           e == IF u = 0 THEN Empty ELSE [c EXCEPT !.urefs = u]
<1>1. /\ TypeOK /\ SlotOK(slot) /\ held \in [Slots -> Int] /\ held[slot] \in Int
      /\ deaths \in [Slots -> Nat] /\ deaths[slot] \in Nat
  BY DEF RightsInv, TypeOK
<1>2. /\ c \in Entries /\ c.type = {"dead"} /\ u \in 0 .. UrefsMax /\ c.urefs \in Nat
      /\ c = [port |-> None, type |-> {"dead"}, urefs |-> c.urefs, request |-> FALSE]
      /\ c.urefs = entry[slot].urefs + Bit(entry[slot].request)
  <2>1. c \in Entries /\ c.type = {"dead"} /\ u \in 0 .. UrefsMax
    BY CheckedFacts DEF DeadDelta
  <2>2. /\ c = [port |-> c.port, type |-> c.type, urefs |-> c.urefs, request |-> c.request]
        /\ c.urefs \in Nat /\ c.port = None /\ c.request = FALSE
    BY <2>1, EntryFacts
  <2> QED
    BY <2>1, <2>2, CheckedFacts
<1>3. /\ entry' = [entry EXCEPT ![slot] = e] /\ port' = CheckedPorts(slot)
      /\ UNCHANGED <<dnrequests, naked, nosenders>>
  BY DEF DeadDelta
<1>4. held' = [held EXCEPT ![slot] = held[slot] + d]
  <2>1. held[slot] - (-d) = held[slot] + d
    BY <1>1
  <2> QED
    BY <2>1 DEF DeadDelta, GiveBack
<1>5. entry[slot].port = None \/ Stale(slot)
  <2>1. ~Stale(slot) => c = entry[slot]
    BY CheckedFacts
  <2>2. c.port = None
    BY <1>2
  <2> QED
    BY <2>1, <2>2
<1> HIDE DEF c
<1>6. e \in Entries /\ e.port = None /\ e.urefs = u
  <2>1. CASE u = 0
    BY <2>1, EmptyEntry DEF Empty
  <2>2. CASE u # 0
    <3>1. e = [c EXCEPT !.urefs = u] /\ u \in 1 .. UrefsMax
      BY <1>2, <2>2, PortRightsAssumption
    <3> HIDE DEF u, e
    <3> QED
      BY <1>2, <3>1, DeadUrefs
  <2> QED
    BY <2>1, <2>2
<1>7. slot[1] \in alive => u = held'[slot] + deaths'[slot] + Owed(slot)
  <2>1. Owed(slot) \in Nat
    BY <1>1, FS_CardinalityType DEF SlotOK, Owed
  <2>2. slot[1] \in alive => c.urefs = held[slot] + deaths[slot] + Owed(slot)
    BY <1>1, <1>2 DEF SlotOK
  <2>3. held'[slot] = held[slot] + d
    BY <1>1, <1>4
  <2> QED
    BY <1>1, <1>2, <2>1, <2>2, <2>3
<1>8. /\ held' \in [Slots -> Int] /\ deaths' \in [Slots -> Nat]
      /\ \A x \in Slots : x # slot => held'[x] = held[x] /\ deaths'[x] = deaths[x]
  BY <1>1, <1>4
<1> HIDE DEF e, u
<1> QED
  BY <1>3, <1>5, <1>6, <1>7, <1>8, DeadAct

LEMMA RightInfoInv ==
  ASSUME RightsInv, NEW slot \in Slots, ipc_right_info(slot)
  PROVE  RightsInv'
<1> DEFINE c == Checked(slot)
<1>1. /\ TypeOK /\ SlotOK(slot) /\ held \in [Slots -> Int] /\ deaths \in [Slots -> Nat]
  BY DEF RightsInv, TypeOK
<1>2. /\ entry' = [entry EXCEPT ![slot] = c] /\ port' = CheckedPorts(slot)
      /\ busy[slot[1]] = None /\ Stale(slot)
      /\ UNCHANGED <<alive, dnrequests, naked, busy, deaths, nosenders, held, early, stray>>
  BY DEF ipc_right_info, Ready
<1>3. /\ c \in Entries /\ c.port = None
      /\ c.urefs = entry[slot].urefs + Bit(entry[slot].request)
  BY <1>2, CheckedFacts
<1>4. slot[1] \in alive => c.urefs = held'[slot] + deaths'[slot] + Owed(slot)
  BY <1>1, <1>2, <1>3 DEF SlotOK
<1> HIDE DEF c
<1> QED
  BY <1>1, <1>2, <1>3, <1>4, DeadAct

LEMMA DeallocInv ==
  ASSUME RightsInv, NEW slot \in Slots, ipc_right_dealloc(slot)
  PROVE  RightsInv'
<1>1. /\ busy[slot[1]] = None /\ UNCHANGED <<alive, busy, deaths, early, stray>>
      /\ DeadDelta(slot, -1) \/ SendDelta(slot, -1) \/ OnceGone(slot)
  BY DEF ipc_right_dealloc, Ready
<1>2. CASE DeadDelta(slot, -1)
  BY <1>1, <1>2, DeadDeltaInv
<1>3. CASE SendDelta(slot, -1)
  BY <1>1, <1>3, SendDeltaInv
<1>4. CASE OnceGone(slot)
  <2>0. PICK p \in Ports : p = entry[slot].port
    BY <1>4, EntryOf DEF OnceGone
  <2>1. /\ "once" \in entry[slot].type /\ port[p].active
        /\ entry' = [entry EXCEPT ![slot] = Empty]
        /\ naked' = [naked EXCEPT ![p].dest = @ + 1]
        /\ dnrequests' = Cancelled(slot) /\ UNCHANGED <<port, nosenders>>
    BY <1>4, <2>0 DEF OnceGone
  <2>2. HeldBy(slot, -entry[slot].urefs)
    <3>1. entry[slot].urefs = 1 /\ held[slot] \in Int
      BY <2>1, EntryOf DEF RightsInv, TypeOK
    <3>2. held' = [held EXCEPT ![slot] = @ + (-1)]
      <4>1. held' = [held EXCEPT ![slot] = @ - 1] /\ held[slot] - 1 = held[slot] + (-1)
        BY <1>4, <3>1 DEF OnceGone, GiveBack
      <4> QED
        BY <4>1
    <3>3. -1 \in Int /\ -1 = -entry[slot].urefs
      BY <3>1
    <3> QED
      BY <3>2, <3>3, HeldGiven
  <2> QED
    BY <1>1, <2>0, <2>1, <2>2, OnceGoneInv
<1> QED
  BY <1>1, <1>2, <1>3, <1>4

LEMMA DeltaInv ==
  ASSUME RightsInv, NEW slot \in Slots, NEW d \in {-2, 1}, ipc_right_delta(slot, d)
  PROVE  RightsInv'
<1>1. /\ busy[slot[1]] = None /\ UNCHANGED <<alive, busy, deaths, early, stray>>
      /\ DeadDelta(slot, d) \/ SendDelta(slot, d)
  BY DEF ipc_right_delta, Ready
<1>2. d \in Int
  OBVIOUS
<1>3. CASE DeadDelta(slot, d)
  BY <1>1, <1>2, <1>3, DeadDeltaInv
<1>4. CASE SendDelta(slot, d)
  BY <1>1, <1>2, <1>4, SendDeltaInv
<1> QED
  BY <1>1, <1>3, <1>4

-----------------------------------------------------------------------------
(* Dead-name requests and notifications.                                   *)

\* Steps that change no right.
LEMMA NameAct ==
  ASSUME RightsInv, NEW slot \in Slots, NEW e \in Entries,
         entry' = [entry EXCEPT ![slot] = e],
         e.port = entry[slot].port, e.type = entry[slot].type,
         busy[slot[1]] = None \/ e = entry[slot],
         UNCHANGED <<alive, port, naked, busy, nosenders, early, stray>>,
         held' \in [Slots -> Int], deaths' \in [Slots -> Nat],
         dnrequests' \in [Ports -> [Slots -> Nat]],
         \A x \in Slots : x # slot =>
           /\ held'[x] = held[x] /\ deaths'[x] = deaths[x]
           /\ \A q \in Ports : dnrequests'[q][x] = dnrequests[q][x],
         SlotOK(slot)'
  PROVE  RightsInv'
<1>1. /\ TypeOK /\ Unique /\ \A q \in Ports : PortOK(q)
      /\ \A x \in Slots : SlotOK(x)
      /\ \A s \in Spaces : BusyOK(s)
      /\ entry \in [Slots -> Entries]
  BY DEF RightsInv, TypeOK
<1>2. /\ entry' \in [Slots -> Entries] /\ entry'[slot] = e
      /\ \A x \in Slots : x # slot => entry'[x] = entry[x]
      /\ \A x \in Slots : entry'[x].port = entry[x].port /\ entry'[x].type = entry[x].type
  BY <1>1
<1>3. TypeOK'
  BY <1>1, <1>2 DEF TypeOK
<1>4. ASSUME NEW q \in Ports PROVE PortOK(q)'
  BY <1>1, <1>2, PortKept
<1>5. ASSUME NEW x \in Slots PROVE SlotOK(x)'
  BY <1>1, <1>2, SlotKept
<1>6. ASSUME NEW s \in Spaces PROVE BusyOK(s)'
  <2>1. BusyOK(s) /\ (busy[s] # None => busy[s].slot \in Slots)
    BY <1>1 DEF TypeOK, Calls
  <2>2. busy[s] # None => entry'[busy[s].slot] = entry[busy[s].slot]
    BY <1>2, <2>1 DEF BusyOK
  <2> QED
    BY <2>1, <2>2 DEF BusyOK
<1>7. Unique'
  BY <1>1, <1>2 DEF Unique
<1> QED
  BY <1>3, <1>4, <1>5, <1>6, <1>7 DEF RightsInv

\* An entry without a dead name may have a request, or none.
LEMMA RequestEntry ==
  ASSUME NEW o \in Entries, o.port # None, NEW b \in BOOLEAN
  PROVE  LET e == [o EXCEPT !.request = b]
         IN  /\ e \in Entries /\ e.port = o.port /\ e.type = o.type /\ e.urefs = o.urefs
             /\ e.request = b
<1>1. /\ o.port \in Ports \cup {None} /\ o.type \in Types /\ o.urefs \in 0 .. UrefsMax
      /\ o.port = None <=> o.type = {} \/ o.type = {"dead"}
      /\ o.urefs = 0 <=> o.type = {} \/ o.type = {"receive"}
      /\ o.type = {"once"} => o.urefs = 1
      /\ o.urefs = UrefsMax => o.type = {"dead"}
  BY EntryFacts, PortRightsAssumption
<1>2. [o EXCEPT !.request = b]
        = [port |-> o.port, type |-> o.type, urefs |-> o.urefs, request |-> b]
  BY EntryChanged
<1>3. [port |-> o.port, type |-> o.type, urefs |-> o.urefs, request |-> b] \in Entries
  BY <1>1, MakeEntry
<1> QED
  BY <1>2, <1>3

LEMMA CancelRequestInv ==
  ASSUME RightsInv, NEW slot \in Slots, CancelRequest(slot)
  PROVE  RightsInv'
<1> DEFINE o == entry[slot]
           e == [o EXCEPT !.request = FALSE]
<1>1. /\ TypeOK /\ o \in Entries /\ held \in [Slots -> Int] /\ deaths \in [Slots -> Nat]
      /\ entry \in [Slots -> Entries] /\ held[slot] \in Int /\ o.urefs \in Nat
      /\ o.request => o.port # None
  BY EntryOf, EntryFacts DEF RightsInv, TypeOK
<1>2. /\ entry' = [entry EXCEPT ![slot] = e] /\ dnrequests' = Cancelled(slot)
      /\ o.request /\ o.port # None /\ port[o.port].active /\ busy[slot[1]] = None
      /\ UNCHANGED <<alive, port, naked, busy, deaths, nosenders, held, early, stray>>
  BY <1>1 DEF CancelRequest, Ready, Stale
<1>3. /\ e \in Entries /\ e.port = o.port /\ e.type = o.type /\ e.urefs = o.urefs
      /\ e.request = FALSE
  BY <1>1, <1>2, RequestEntry
<1> HIDE DEF e
<1>4. entry'[slot] = e /\ held'[slot] = held[slot] + e.urefs - o.urefs
  BY <1>1, <1>2, <1>3
<1>5. /\ SlotOK(slot)' /\ dnrequests' \in [Ports -> [Slots -> Nat]]
      /\ \A x \in Slots : x # slot =>
           \A q \in Ports : dnrequests'[q][x] = dnrequests[q][x]
  BY <1>1, <1>2, <1>3, <1>4, RefsMoved
<1> QED
  BY <1>1, <1>2, <1>3, <1>5, NameAct

\* A request is made for a right to a live port, or for a dead name, which is
\* told at once.
LEMMA DnRequestInv ==
  ASSUME RightsInv, NEW slot \in Slots, ipc_right_dnrequest(slot)
  PROVE  RightsInv'
<1> DEFINE o == entry[slot]
           c == Checked(slot)
<1>1. /\ TypeOK /\ SlotOK(slot) /\ o \in Entries /\ entry \in [Slots -> Entries]
      /\ held \in [Slots -> Int] /\ deaths \in [Slots -> Nat]
      /\ dnrequests \in [Ports -> [Slots -> Nat]]
      /\ held[slot] \in Int /\ deaths[slot] \in Nat /\ o.urefs \in Nat
      /\ o.request \in BOOLEAN /\ o.port \in Ports \cup {None}
      /\ o.port = None <=> o.type = {} \/ o.type = {"dead"}
      /\ IsFiniteSet(Requests(slot))
  BY EntryOf, EntryFacts DEF RightsInv, TypeOK, SlotOK
<1>2. /\ busy[slot[1]] = None
      /\ UNCHANGED <<alive, naked, busy, nosenders, held, early, stray>>
  BY DEF ipc_right_dnrequest, Ready
<1>3. Owed(slot) \in Nat
  BY <1>1, FS_CardinalityType DEF Owed
<1>4. CASE /\ c.type # {} /\ c.type # {"dead"}
           /\ entry' = [entry EXCEPT ![slot].request = TRUE]
           /\ dnrequests' = IF c.request THEN dnrequests
                            ELSE [dnrequests EXCEPT ![c.port][slot] = @ + 1]
           /\ UNCHANGED <<port, deaths>>
  <2>1. c = o /\ o.port # None /\ port[o.port].active
    <3>1. ~Stale(slot)
      BY <1>4, CheckedFacts
    <3>2. c = o
      BY <3>1, CheckedFacts
    <3> QED
      BY <1>1, <1>4, <3>1, <3>2 DEF Stale
  <2> DEFINE e == [o EXCEPT !.request = TRUE]
  <2>2. /\ e \in Entries /\ e.port = o.port /\ e.type = o.type /\ e.urefs = o.urefs
        /\ e.request = TRUE
    BY <1>1, <2>1, RequestEntry
  <2>3. entry' = [entry EXCEPT ![slot] = e]
    BY <1>4
  <2> HIDE DEF e
  <2>4. entry'[slot] = e /\ held'[slot] = held[slot] + e.urefs - o.urefs
    BY <1>1, <1>2, <2>2, <2>3
  <2>5. /\ SlotOK(slot)' /\ dnrequests' \in [Ports -> [Slots -> Nat]]
        /\ \A x \in Slots : x # slot =>
             \A q \in Ports : dnrequests'[q][x] = dnrequests[q][x]
    <3>1. CASE o.request
      <4>1. dnrequests' = dnrequests
        BY <1>4, <2>1, <3>1
      <4> QED
        BY <1>1, <1>2, <1>4, <2>2, <2>4, <3>1, <4>1, RefsMoved
    <3>2. CASE ~o.request
      <4>0. PICK q \in Ports : q = o.port
        BY <1>1, <2>1
      <4> DEFINE d == dnrequests[q][slot] + 1
      <4>1. d \in Nat /\ dnrequests[q][slot] \in Nat /\ d > 0
        BY <1>1
      <4>2. dnrequests' = [dnrequests EXCEPT ![q][slot] = d]
        BY <1>4, <2>1, <3>2, <4>0
      <4>3. /\ dnrequests' \in [Ports -> [Slots -> Nat]] /\ dnrequests'[q][slot] = d
            /\ \A x \in Slots : x # slot => \A z \in Ports : dnrequests'[z][x] = dnrequests[z][x]
        BY <1>1, <4>1, <4>2
      <4>4. /\ IsFiniteSet(Requests(slot))' /\ Owed(slot)' \in Nat
            /\ Owed(slot)' = Owed(slot) + d - dnrequests[q][slot]
        BY <1>1, <4>1, <4>2, RequestsChange
      <4>5. Owed(slot)' = Owed(slot) + 1 /\ Bit(o.request) = 0 /\ Bit(e.request) = 1
        BY <1>3, <2>2, <3>2, <4>1, <4>4 DEF Bit
      <4>6. slot[1] \in alive => o.urefs + 0 = held[slot] + deaths[slot] + Owed(slot)
        BY <1>1, <4>5 DEF SlotOK
      <4>7. slot[1] \in alive =>
              e.urefs + Bit(e.request) = held[slot] + deaths[slot] + Owed(slot)'
        BY <1>1, <1>3, <2>2, <4>5, <4>6
      <4> HIDE DEF d
      <4> QED
        BY <1>2, <1>4, <2>2, <2>4, <4>0, <4>1, <4>3, <4>4, <4>7 DEF SlotOK
    <3> QED
      BY <3>1, <3>2
  <2> QED
    BY <1>1, <1>2, <1>4, <2>2, <2>3, <2>5, NameAct, ZenonT(60)
<1>5. CASE /\ c.type = {"dead"} /\ c.urefs < UrefsMax
           /\ entry' = [entry EXCEPT ![slot] = [c EXCEPT !.urefs = @ + 1]]
           /\ port' = CheckedPorts(slot)
           /\ deaths' = [deaths EXCEPT ![slot] = @ + 1]
           /\ UNCHANGED dnrequests
  <2> DEFINE u == c.urefs + 1
             e == [c EXCEPT !.urefs = u]
  <2>1. c \in Entries /\ c.urefs \in Nat /\ c.port = None
    BY <1>5, CheckedFacts, EntryFacts
  <2>2. /\ c.urefs = o.urefs + Bit(o.request)
        /\ o.port = None \/ Stale(slot)
    BY <2>1, CheckedFacts
  <2>3. u \in 1 .. UrefsMax
    BY <1>5, <2>1, PortRightsAssumption
  <2>4. e \in Entries /\ e.port = None /\ e.urefs = u
    <3> HIDE DEF u
    <3> QED
      BY <1>5, <2>1, <2>3, DeadUrefs
  <2>5. /\ entry' = [entry EXCEPT ![slot] = e]
        /\ deaths' \in [Slots -> Nat] /\ deaths'[slot] = deaths[slot] + 1
        /\ \A x \in Slots : x # slot => deaths'[x] = deaths[x]
    BY <1>1, <1>5
  <2>6. slot[1] \in alive => u = held'[slot] + deaths'[slot] + Owed(slot)
    <3>1. slot[1] \in alive => c.urefs = held[slot] + deaths[slot] + Owed(slot)
      BY <1>1, <2>2 DEF SlotOK
    <3> QED
      BY <1>1, <1>2, <1>3, <2>1, <2>5, <3>1
  <2> HIDE DEF e, u, c
  <2> QED
    BY <1>1, <1>2, <1>5, <2>2, <2>4, <2>5, <2>6, DeadAct, ZenonT(60)
<1> QED
  BY <1>4, <1>5 DEF ipc_right_dnrequest

\* The requests of a dead port become notifications, one by one ...
LEMMA NotificationInv ==
  ASSUME RightsInv, NEW p \in Ports, NEW slot \in Slots, DeadNameNotification(p, slot)
  PROVE  RightsInv'
<1> DEFINE o == entry[slot]
           d == dnrequests[p][slot] - 1
<1>1. /\ TypeOK /\ SlotOK(slot) /\ o \in Entries /\ entry \in [Slots -> Entries]
      /\ held \in [Slots -> Int] /\ deaths \in [Slots -> Nat]
      /\ dnrequests \in [Ports -> [Slots -> Nat]]
      /\ held[slot] \in Int /\ deaths[slot] \in Nat /\ o.urefs \in Nat
      /\ o.request \in BOOLEAN /\ (o.request => o.port \in Ports)
      /\ IsFiniteSet(Requests(slot)) /\ PortOK(p)
  BY EntryOf, EntryFacts DEF RightsInv, TypeOK, SlotOK
<1>2. /\ dnrequests[p][slot] > 0 /\ ~port[p].active
      /\ dnrequests' = [dnrequests EXCEPT ![p][slot] = d]
      /\ deaths' = [deaths EXCEPT ![slot] = @ + 1]
      /\ UNCHANGED <<alive, entry, port, naked, busy, nosenders, held, early, stray>>
  BY <1>1 DEF DeadNameNotification, PortOK, ReceiverOK
<1>3. Owed(slot) \in Nat /\ dnrequests[p][slot] \in Nat
  BY <1>1, FS_CardinalityType DEF Owed
<1>4. d \in Nat
  BY <1>2, <1>3
<1>5. /\ dnrequests' \in [Ports -> [Slots -> Nat]]
      /\ \A q \in Ports : q # p => dnrequests'[q][slot] = dnrequests[q][slot]
      /\ \A x \in Slots : x # slot => \A z \in Ports : dnrequests'[z][x] = dnrequests[z][x]
  BY <1>1, <1>2, <1>4
<1>6. /\ IsFiniteSet(Requests(slot))' /\ Owed(slot)' \in Nat
      /\ Owed(slot)' = Owed(slot) + d - dnrequests[p][slot]
  BY <1>1, <1>2, <1>4, RequestsChange
<1>7. /\ Owed(slot)' = Owed(slot) - 1 /\ deaths'[slot] = deaths[slot] + 1
      /\ deaths' \in [Slots -> Nat] /\ \A x \in Slots : x # slot => deaths'[x] = deaths[x]
  BY <1>1, <1>2, <1>3, <1>6
<1>8. held[slot] + deaths'[slot] + Owed(slot)' = held[slot] + deaths[slot] + Owed(slot)
  BY <1>1, <1>3, <1>7
<1>9. o.request /\ port[o.port].active => dnrequests'[o.port][slot] > 0
  BY <1>1, <1>2, <1>5 DEF SlotOK
<1>10. SlotOK(slot)'
  BY <1>1, <1>2, <1>6, <1>8, <1>9 DEF SlotOK
<1>11. entry' = [entry EXCEPT ![slot] = o]
  BY <1>1, <1>2
<1> QED
  BY <1>1, <1>2, <1>5, <1>7, <1>10, <1>11, NameAct

\* ... and the references are the task's when it receives them.
LEMMA ReceiveDeathInv ==
  ASSUME RightsInv, NEW slot \in Slots, ReceiveDeath(slot)
  PROVE  RightsInv'
<1> DEFINE o == entry[slot]
<1>1. /\ TypeOK /\ SlotOK(slot) /\ o \in Entries /\ entry \in [Slots -> Entries]
      /\ held \in [Slots -> Int] /\ deaths \in [Slots -> Nat]
      /\ dnrequests \in [Ports -> [Slots -> Nat]]
      /\ held[slot] \in Int /\ deaths[slot] \in Nat /\ IsFiniteSet(Requests(slot))
  BY EntryOf DEF RightsInv, TypeOK, SlotOK
<1>2. /\ deaths[slot] > 0 /\ deaths' = [deaths EXCEPT ![slot] = @ - 1]
      /\ held' = [held EXCEPT ![slot] = IF slot[1] \in alive THEN @ + 1 ELSE @]
      /\ UNCHANGED <<alive, entry, port, dnrequests, naked, busy, nosenders, early, stray>>
  BY DEF ReceiveDeath, kernel
<1>3. Owed(slot) \in Nat
  BY <1>1, FS_CardinalityType DEF Owed
<1>4. /\ deaths'[slot] = deaths[slot] - 1 /\ deaths' \in [Slots -> Nat]
      /\ slot[1] \in alive => held'[slot] = held[slot] + 1
      /\ held' \in [Slots -> Int]
      /\ \A x \in Slots : x # slot => deaths'[x] = deaths[x] /\ held'[x] = held[x]
  BY <1>1, <1>2
<1>5. slot[1] \in alive => held'[slot] + deaths'[slot] + Owed(slot)
                             = held[slot] + deaths[slot] + Owed(slot)
  BY <1>1, <1>3, <1>4
<1>6. Requests(slot)' = Requests(slot)
  BY <1>2 DEF Requests
<1>7. SlotOK(slot)'
  BY <1>1, <1>2, <1>5, <1>6 DEF SlotOK, Owed
<1>8. entry' = [entry EXCEPT ![slot] = o]
  BY <1>1, <1>2
<1> QED
  BY <1>1, <1>2, <1>4, <1>7, <1>8, NameAct

\* A dead space is no longer told anything.
LEMMA SpaceDestroyInv ==
  ASSUME RightsInv, NEW s \in Spaces, ipc_space_destroy(s)
  PROVE  RightsInv'
<1>1. /\ TypeOK /\ Unique /\ \A q \in Ports : PortOK(q)
      /\ \A x \in Slots : SlotOK(x)
      /\ \A z \in Spaces : BusyOK(z)
      /\ held \in [Slots -> Int]
  BY DEF RightsInv, TypeOK
<1>2. /\ alive' = alive \ {s} /\ busy[s] = None
      /\ held' = [x \in Slots |-> IF x[1] = s THEN 0 ELSE held[x]]
      /\ UNCHANGED <<entry, port, dnrequests, naked, busy, deaths, nosenders, early, stray>>
  BY DEF ipc_space_destroy
<1>3. /\ held' \in [Slots -> Int]
      /\ \A x \in Slots : x[1] \in alive' => held'[x] = held[x]
  BY <1>1, <1>2
<1>4. TypeOK'
  BY <1>1, <1>2, <1>3 DEF TypeOK
<1>5. ASSUME NEW q \in Ports PROVE PortOK(q)'
  BY <1>1, <1>2, PortKept
<1>6. ASSUME NEW x \in Slots PROVE SlotOK(x)'
  BY <1>1, <1>2, <1>3, SlotKept
<1>7. ASSUME NEW z \in Spaces PROVE BusyOK(z)'
  BY <1>1, <1>2 DEF BusyOK
<1>8. Unique'
  BY <1>1, <1>2 DEF Unique
<1> QED
  BY <1>4, <1>5, <1>6, <1>7, <1>8 DEF RightsInv

-----------------------------------------------------------------------------
(* The receive right of an entry goes.                                     *)

LEMMA ReceiverGone ==
  ASSUME RightsInv, NEW slot \in Slots, NEW p \in Ports, p = entry[slot].port,
         "receive" \in entry[slot].type, NEW e \in Entries, e.port # p,
         e.port \in {p, None}, entry' = [entry EXCEPT ![slot] = e],
         NEW r \in PortRecords, NEW lost \in Nat, DestroyPort(p, r, lost),
         r.active = port[p].active, r.dying = port[p].dying, r.receiver = None,
         r.srights = port[p].srights - Bit(Has(entry[slot], p, "send")) + lost,
         r.sorights = port[p].sorights, r.refs = port[p].refs,
         r.ns /\ p \notin early => r.srights > 0,
         dnrequests' \in [Ports -> [Slots -> Nat]], held' \in [Slots -> Int],
         \A x \in Slots : x # slot =>
           held'[x] = held[x] /\ \A q \in Ports : dnrequests'[q][x] = dnrequests[q][x],
         SlotOK(slot)', busy[slot[1]] = None, UNCHANGED <<alive, busy, deaths>>
  PROVE  RightsInv'
<1> DEFINE o == entry[slot]
<1>1. /\ TypeOK /\ PortOK(p) /\ PortT(p) /\ entry \in [Slots -> Entries] /\ o \in Entries
      /\ port[p].active /\ port[p].receiver = slot /\ naked[p].receive = 0
      /\ deaths \in [Slots -> Nat]
  BY PortTypes, EntryOf DEF RightsInv, TypeOK
<1>2. /\ ~port[p].dying
      /\ \A x \in Slots : Has(entry[x], p, "receive") <=> x = slot
      /\ port[p].srights = Cardinality(With(p, "send")) + naked[p].send + stray[p]
      /\ port[p].sorights = Cardinality(With(p, "once")) + naked[p].once + naked[p].dest
      /\ port[p].refs = Cardinality(Pointers(p)) + naked[p].send + naked[p].once
                        + naked[p].dest + naked[p].receive + Bit(port[p].dying)
  BY <1>1 DEF PortOK, CountsOK, ReceiverOK
<1>n. /\ port[p].srights \in Nat /\ port[p].sorights \in Nat /\ port[p].refs \in Nat
      /\ naked[p].send \in Nat /\ naked[p].once \in Nat /\ naked[p].dest \in Nat
      /\ naked[p].receive \in Nat /\ stray[p] \in Nat
  BY <1>1, PortNats
<1>3. /\ Cardinality(With(p, "send")) \in Nat /\ Cardinality(With(p, "once")) \in Nat
      /\ Cardinality(Pointers(p)) \in Nat
      /\ Cardinality(With(p, "send"))' \in Nat /\ Cardinality(With(p, "once"))' \in Nat
      /\ Cardinality(Pointers(p))' \in Nat
  <2>1. \A T : T \subseteq Slots => IsFiniteSet(T) /\ Cardinality(T) \in Nat
    BY PortRightsAssumption, FS_Subset, FS_CardinalityType
  <2>2. /\ With(p, "send") \subseteq Slots /\ With(p, "once") \subseteq Slots
        /\ Pointers(p) \subseteq Slots
        /\ With(p, "send")' \subseteq Slots /\ With(p, "once")' \subseteq Slots
        /\ Pointers(p)' \subseteq Slots
    BY DEF With, Pointers
  <2> QED
    BY <2>1, <2>2
<1>4. /\ Bit(Has(e, p, "send")) = 0 /\ Bit(Has(e, p, "once")) = 0
      /\ Bit(Has(o, p, "once")) = 0 /\ ~Has(e, p, "receive")
      /\ Bit(Has(o, p, "send")) \in {0, 1}
  <2>1. ~Has(e, p, "send") /\ ~Has(e, p, "once") /\ ~Has(e, p, "receive")
    BY DEF Has
  <2>2. ~Has(o, p, "once")
    BY <1>1, EntryFacts, TypeFacts DEF Has
  <2> QED
    BY <2>1, <2>2 DEF Bit
<1>5. /\ Cardinality(With(p, "send")') = Cardinality(With(p, "send"))
                                          + 0 - Bit(Has(o, p, "send"))
      /\ Cardinality(With(p, "once")') = Cardinality(With(p, "once")) + 0 - 0
  <2>1. /\ Cardinality(With(p, "send")')
             = Cardinality(With(p, "send"))
               + Bit(Has(e, p, "send")) - Bit(Has(entry[slot], p, "send"))
        /\ Cardinality(With(p, "once")')
             = Cardinality(With(p, "once"))
               + Bit(Has(e, p, "once")) - Bit(Has(entry[slot], p, "once"))
    <3>1. entry \in [Slots -> Entries]
      BY <1>1
    <3> QED
      BY <3>1, EntryCounts, ZenonT(60)
  <2> QED
    BY <1>4, <2>1
<1>6. Cardinality(Pointers(p)') = Cardinality(Pointers(p)) - 1
  BY <1>1, PointerGone
<1>7. /\ r.srights = Cardinality(With(p, "send")') + naked[p].send + stray[p] + lost
      /\ r.sorights = Cardinality(With(p, "once")') + naked[p].once + naked[p].dest
      /\ r.refs = Cardinality(Pointers(p)') + naked[p].send + naked[p].once
                  + naked[p].dest + 1
  <2>1. Bit(port[p].dying) = 0
    BY <1>2 DEF Bit
  <2>2. r.srights = Cardinality(With(p, "send")') + naked[p].send + stray[p] + lost
    BY <1>2, <1>n, <1>3, <1>4, <1>5
  <2>3. r.sorights = Cardinality(With(p, "once")') + naked[p].once + naked[p].dest
    BY <1>2, <1>n, <1>3, <1>5
  <2>4. r.refs = Cardinality(Pointers(p)') + naked[p].send + naked[p].once
                  + naked[p].dest + 1
    BY <1>1, <1>2, <1>n, <1>3, <1>6, <2>1
  <2> QED
    BY <2>2, <2>3, <2>4
<1>8. /\ entry' \in [Slots -> Entries] /\ entry'[slot] = e
      /\ \A x \in Slots : x # slot => entry'[x] = entry[x]
  BY <1>1
<1>9. \A x \in Slots : ~Has(entry'[x], p, "receive")
  BY <1>2, <1>4, <1>8
<1>10. /\ port' \in [Ports -> PortRecords] /\ naked' \in [Ports -> NakedRights]
       /\ nosenders' \in [Ports -> SUBSET (0 .. MaxMscount)]
       /\ stray' \in [Ports -> Nat] /\ early' \subseteq Ports
       /\ \A q \in Ports : q # p =>
            /\ port'[q] = port[q] /\ naked'[q] = naked[q] /\ stray'[q] = stray[q]
            /\ nosenders'[q] = nosenders[q] /\ (q \in early <=> q \in early')
       /\ PortOK(p)'
  BY <1>1, <1>2, <1>3, <1>7, <1>9, DestroyPortOK
<1>11. TypeOK'
  BY <1>1, <1>8, <1>10 DEF TypeOK
<1>12. e.type \cap {"send", "receive"} = {}
  <2>1. e.port = None
    OBVIOUS
  <2> QED
    BY <2>1, EntryFacts
<1> QED
  BY <1>1, <1>8, <1>10, <1>11, <1>12, Framed

\* mach_port_mod_refs of a receive right.
LEMMA DeltaReceiveInv ==
  ASSUME RightsInv, NEW slot \in Slots, DeltaReceive(slot)
  PROVE  RightsInv'
<1> DEFINE o == entry[slot]
           both == "send" \in o.type
           u == o.urefs + Bit(o.request)
           f == [Empty EXCEPT !.type = {"dead"}, !.urefs = u]
           e == IF both THEN f ELSE Empty
           lost == IF both THEN 1 ELSE 0
<1>0. PICK p \in Ports : p = o.port
  BY EntryOf DEF DeltaReceive
<1> DEFINE r == Cleared(port[p])
<1>1. /\ TypeOK /\ PortOK(p) /\ PortT(p) /\ port[p] \in PortRecords
      /\ o \in Entries /\ entry \in [Slots -> Entries] /\ "receive" \in o.type
      /\ o.type \in Types /\ o.urefs \in Nat /\ o.urefs <= UrefsMax /\ o.request \in BOOLEAN
      /\ o.urefs = 0 <=> o.type = {} \/ o.type = {"receive"}
      /\ o.urefs = UrefsMax => o.type = {"dead"}
      /\ held \in [Slots -> Int] /\ deaths \in [Slots -> Nat] /\ SlotOK(slot)
      /\ dnrequests \in [Ports -> [Slots -> Nat]] /\ held[slot] \in Int /\ port[p].active
      /\ p # None
  BY <1>0, PortTypes, EntryOf, EntryFacts, PortRightsAssumption
     DEF RightsInv, TypeOK, DeltaReceive
<1>2. /\ entry' = [entry EXCEPT ![slot] = e]
      /\ dnrequests' = IF both THEN dnrequests ELSE Cancelled(slot)
      /\ DestroyPort(p, r, lost) /\ busy[slot[1]] = None
      /\ UNCHANGED <<alive, busy, deaths, held>>
  <2>1. Convert(o) = f
    BY DEF Convert, Bit
  <2> QED
    BY <1>0, <2>1 DEF DeltaReceive, Ready
<1>3. /\ r \in PortRecords
      /\ Fields(r, port[p].active, port[p].dying, None, port[p].srights, port[p].sorights,
                0, port[p].refs, port[p].ns, port[p].pd)
  BY <1>1, RecCleared
<1>4. /\ e \in Entries /\ e.port = None /\ e.request = FALSE
      /\ both => e.urefs = u
      /\ ~both => e.urefs = 0 /\ o.urefs = 0
  <2>1. CASE both
    <3>1. o.type # {} /\ o.type # {"receive"} /\ o.type # {"dead"}
      BY <2>1
    <3>2. o.urefs > 0 /\ o.urefs < UrefsMax
      <4>1. o.urefs # 0 /\ o.urefs # UrefsMax
        BY <1>1, <3>1
      <4>2. \A n, m \in Nat : n # 0 /\ n # m /\ n <= m => n > 0 /\ n < m
        OBVIOUS
      <4>3. o.urefs \in Nat /\ UrefsMax \in Nat /\ o.urefs <= UrefsMax
        BY <1>1, PortRightsAssumption
      <4> HIDE DEF o
      <4> QED
        BY <4>1, <4>2, <4>3
    <3>3. u \in 1 .. UrefsMax
      BY <1>1, <3>2, PortRightsAssumption DEF Bit
    <3>4. f \in Entries /\ f.port = None /\ f.urefs = u /\ f.request = FALSE
      <4> HIDE DEF u
      <4> QED
        BY <3>3, DeadEntry, Zenon
    <3> HIDE DEF f
    <3> QED
      BY <2>1, <3>4
  <2>2. CASE ~both
    <3>1. o.type = {"receive"}
      BY <1>1, <2>2, TypeFacts
    <3> QED
      BY <1>1, <2>2, <3>1, EmptyEntry DEF Empty
  <2> QED
    BY <2>1, <2>2
<1> HIDE DEF e, r
<1>5. entry'[slot] = e
  BY <1>1, <1>2
<1>6. /\ SlotOK(slot)' /\ dnrequests' \in [Ports -> [Slots -> Nat]]
      /\ \A x \in Slots : x # slot =>
           \A q \in Ports : dnrequests'[q][x] = dnrequests[q][x]
  <2>1. CASE both
    <3>1. dnrequests' = dnrequests /\ e.urefs = u
      BY <1>2, <1>4, <2>1
    <3>2. Requests(slot)' = Requests(slot)
      BY <3>1 DEF Requests
    <3>3. Bit(e.request) = 0 /\ u \in Nat
      BY <1>1, <1>4 DEF Bit
    <3>4. e.urefs + Bit(e.request) = u
      BY <3>1, <3>3
    <3> HIDE DEF u
    <3>5. slot[1] \in alive => u = held[slot] + deaths[slot] + Owed(slot)
      BY <1>1 DEF SlotOK, u
    <3>6. SlotOK(slot)'
      BY <1>1, <1>2, <1>4, <1>5, <3>2, <3>4, <3>5 DEF SlotOK, Owed
    <3> QED
      BY <1>1, <3>1, <3>6
  <2>2. CASE ~both
    <3>1. dnrequests' = Cancelled(slot) /\ held'[slot] = held[slot] + e.urefs - o.urefs
      BY <1>1, <1>2, <1>4, <2>2
    <3> QED
      BY <1>0, <1>1, <1>2, <1>4, <1>5, <3>1, RefsMoved
  <2> QED
    BY <2>1, <2>2
<1>7. /\ lost \in Nat
      /\ r.srights = port[p].srights - Bit(Has(o, p, "send")) + lost
  <2>1. Bit(Has(o, p, "send")) = lost
    BY <1>0 DEF Bit, Has
  <2>2. port[p].srights \in Nat /\ r.srights = port[p].srights
    BY <1>1, <1>3, PortNats DEF Fields
  <2>3. lost \in Nat
    OBVIOUS
  <2> HIDE DEF lost
  <2> QED
    BY <2>1, <2>2, <2>3
<1>8. r.ns /\ p \notin early => r.srights > 0
  BY <1>1, <1>3 DEF PortOK, NoSendersOK, Fields
<1>9. /\ r.active = port[p].active /\ r.dying = port[p].dying /\ r.receiver = None
      /\ r.sorights = port[p].sorights /\ r.refs = port[p].refs
  BY <1>3 DEF Fields
<1>10. e.port # p /\ e.port \in {p, None}
  BY <1>1, <1>4
<1>11. /\ held' \in [Slots -> Int]
       /\ \A x \in Slots : x # slot => held'[x] = held[x]
  BY <1>1, <1>2
<1> HIDE DEF lost
<1> QED
  BY <1>0, <1>1, <1>2, <1>3, <1>4, <1>6, <1>7, <1>8, <1>9, <1>10, <1>11, ReceiverGone, ZenonT(60)

\* A right to a live port is destroyed, in a space that is alive or dead.
LEMMA DestroyRightInv ==
  ASSUME RightsInv, NEW slot \in Slots, entry[slot] # Empty,
         entry[slot].port # None, port[entry[slot].port].active,
         entry' = [entry EXCEPT ![slot] = Empty], DestroyRight(slot, entry[slot]),
         HeldBy(slot, -entry[slot].urefs), busy[slot[1]] = None,
         UNCHANGED <<alive, busy, deaths>>
  PROVE  RightsInv'
<1> DEFINE o == entry[slot]
<1>0. PICK p \in Ports : p = o.port
  BY EntryOf
<1>1. /\ TypeOK /\ PortOK(p) /\ PortT(p) /\ port[p] \in PortRecords
      /\ o \in Entries /\ entry \in [Slots -> Entries] /\ o.urefs \in Nat
      /\ o.type \in Types /\ port[p].active /\ p # None
      /\ held \in [Slots -> Int] /\ held[slot] \in Int
  BY <1>0, PortTypes, EntryOf, EntryFacts, PortRightsAssumption DEF RightsInv, TypeOK
<1>2. dnrequests' = Cancelled(slot)
  BY DEF DestroyRight
<1>3. ASSUME o.type = {"once"}, naked' = [naked EXCEPT ![p].dest = @ + 1],
             UNCHANGED <<port, nosenders, early, stray>>
      PROVE  RightsInv'
  <2>1. "once" \in entry[slot].type
    BY <1>3
  <2> QED
    BY <1>0, <1>1, <1>2, <1>3, <2>1, OnceGoneInv
<1>4. ASSUME o.type = {"send"},
             port' = [port EXCEPT ![p] = [LoseSend(port[p]) EXCEPT !.refs = @ - 1]],
             nosenders' = [nosenders EXCEPT ![p] = @ \cup NoSendersFor(p)],
             UNCHANGED <<naked, early, stray>>
      PROVE  RightsInv'
  <2>1. "send" \in o.type /\ o.type \ {"send"} = {}
    BY <1>4
  <2>2. WithoutSend(o) = Empty
    BY <2>1 DEF WithoutSend
  <2>3. /\ entry' = [entry EXCEPT ![slot] = WithoutSend(entry[slot])]
        /\ TRUE <=> entry[slot].type \ {"send"} = {}
        /\ dnrequests' = IF TRUE THEN Cancelled(slot) ELSE dnrequests
    BY <1>2, <2>1, <2>2
  <2>4. port' = [port EXCEPT ![p] =
                   [LoseSend(port[p]) EXCEPT !.refs = IF TRUE THEN @ - 1 ELSE @]]
    BY <1>4
  <2> QED
    BY <1>0, <1>1, <1>4, <2>1, <2>3, <2>4, SendGone
<1>5. ASSUME "receive" \in o.type, NEW t \in PortRecords, DestroyPort(p, Cleared(t), 0),
             Fields(t, port[p].active, port[p].dying, port[p].receiver,
                    port[p].srights - Bit(Has(o, p, "send")), port[p].sorights,
                    port[p].mscount, port[p].refs, t.ns, port[p].pd),
             t.ns /\ p \notin early => t.srights > 0
      PROVE  RightsInv'
  <2> DEFINE r == Cleared(t)
  <2>1. /\ r \in PortRecords
        /\ Fields(r, t.active, t.dying, None, t.srights, t.sorights, 0, t.refs, t.ns, t.pd)
    BY RecCleared
  <2>2. DestroyPort(p, r, 0)
    BY <1>5
  <2> HIDE DEF r
  <2>3. /\ r.active = port[p].active /\ r.dying = port[p].dying /\ r.receiver = None
        /\ r.sorights = port[p].sorights /\ r.refs = port[p].refs
        /\ r.ns /\ p \notin early => r.srights > 0
        /\ r.srights = port[p].srights - Bit(Has(o, p, "send"))
    BY <1>5, <2>1 DEF Fields
  <2>4. r.srights = port[p].srights - Bit(Has(entry[slot], p, "send")) + 0
    <3>1. r.srights \in Nat
      BY <2>1 DEF PortRecords
    <3> QED
      BY <2>3, <3>1
  <2>5. /\ Empty \in Entries /\ Empty.port = None /\ Empty.urefs = 0
        /\ Empty.request = FALSE
    BY EmptyEntry DEF Empty
  <2>6. /\ entry'[slot] = Empty
        /\ held' \in [Slots -> Int] /\ \A x \in Slots : x # slot => held'[x] = held[x]
        /\ slot[1] \in alive => held'[slot] = held[slot] + Empty.urefs - o.urefs
    BY <1>1, <2>5 DEF HeldBy
  <2>7. /\ SlotOK(slot)' /\ dnrequests' \in [Ports -> [Slots -> Nat]]
        /\ \A x \in Slots : x # slot =>
             \A q \in Ports : dnrequests'[q][x] = dnrequests[q][x]
    BY <1>2, <2>5, <2>6, RefsMoved
  <2>8. Empty.port # p /\ Empty.port \in {p, None} /\ 0 \in Nat
    BY <1>1, <2>5
  <2> QED
    BY <1>0, <1>5, <2>1, <2>2, <2>3, <2>4, <2>5, <2>6, <2>7, <2>8, ReceiverGone, ZenonT(60)
<1>6. ASSUME "receive" \in o.type,
             DestroyPort(p, Cleared(IF "send" \in o.type THEN LoseSend(port[p])
                                    ELSE port[p]), 0)
      PROVE  RightsInv'
  <2>1. port[p].srights \in Nat
    BY <1>1, PortNats
  <2>2. CASE "send" \in o.type
    <3> DEFINE t == LoseSend(port[p])
    <3>1. DestroyPort(p, Cleared(t), 0)
      BY <1>6, <2>2
    <3>2. port[p].srights > 0
      BY <1>0, <1>1, <2>2, EntryOf
    <3>3. /\ t \in PortRecords
          /\ Fields(t, port[p].active, port[p].dying, port[p].receiver,
                    port[p].srights - 1, port[p].sorights, port[p].mscount,
                    port[p].refs, port[p].ns /\ port[p].srights > 1, port[p].pd)
      BY <1>1, <3>2, RecLost
    <3> HIDE DEF t
    <3>4. Bit(Has(o, p, "send")) = 1
      BY <1>0, <2>2 DEF Bit, Has
    <3>5. Fields(t, port[p].active, port[p].dying, port[p].receiver,
                 port[p].srights - Bit(Has(o, p, "send")), port[p].sorights,
                 port[p].mscount, port[p].refs, t.ns, port[p].pd)
      BY <3>3, <3>4 DEF Fields
    <3>6. t.ns => t.srights > 0
      <4>1. t.ns = (port[p].ns /\ port[p].srights > 1) /\ t.srights = port[p].srights - 1
        BY <3>3 DEF Fields
      <4>2. \A n \in Nat : n > 1 => n - 1 > 0
        OBVIOUS
      <4> QED
        BY <2>1, <4>1, <4>2, Zenon
    <3> QED
      BY <1>5, <1>6, <3>1, <3>3, <3>5, <3>6
  <2>3. CASE "send" \notin o.type
    <3>1. DestroyPort(p, Cleared(port[p]), 0)
      BY <1>6, <2>3
    <3>2. Bit(Has(o, p, "send")) = 0 /\ port[p].srights - 0 = port[p].srights
      BY <2>1, <2>3 DEF Bit, Has
    <3>3. Fields(port[p], port[p].active, port[p].dying, port[p].receiver,
                 port[p].srights - Bit(Has(o, p, "send")), port[p].sorights,
                 port[p].mscount, port[p].refs, port[p].ns, port[p].pd)
      BY <3>2 DEF Fields
    <3>4. port[p].ns /\ p \notin early => port[p].srights > 0
      BY <1>1 DEF PortOK, NoSendersOK
    <3> QED
      BY <1>1, <1>5, <1>6, <3>1, <3>3, <3>4
  <2> QED
    BY <2>2, <2>3
<1>7. \/ /\ "receive" \in o.type
         /\ DestroyPort(p, Cleared(IF "send" \in o.type THEN LoseSend(port[p])
                                   ELSE port[p]), 0)
      \/ /\ o.type = {"once"} /\ naked' = [naked EXCEPT ![p].dest = @ + 1]
         /\ UNCHANGED <<port, nosenders, early, stray>>
      \/ /\ o.type = {"send"}
         /\ port' = [port EXCEPT ![p] = [LoseSend(port[p]) EXCEPT !.refs = @ - 1]]
         /\ nosenders' = [nosenders EXCEPT ![p] = @ \cup NoSendersFor(p)]
         /\ UNCHANGED <<naked, early, stray>>
  BY <1>0, Zenon DEF DestroyRight
<1> QED
  BY <1>3, <1>4, <1>6, <1>7

LEMMA RightDestroyInv ==
  ASSUME RightsInv, NEW slot \in Slots, ipc_right_destroy(slot)
  PROVE  RightsInv'
<1> DEFINE o == entry[slot]
           c == Checked(slot)
<1>1. /\ TypeOK /\ SlotOK(slot) /\ o \in Entries /\ o.urefs \in Nat
      /\ o.port \in Ports \cup {None}
      /\ held \in [Slots -> Int] /\ held[slot] \in Int
      /\ deaths \in [Slots -> Nat] /\ deaths[slot] \in Nat
      /\ c \in Entries /\ c.urefs \in Nat
  BY EntryOf, EntryFacts, CheckedFacts DEF RightsInv, TypeOK
<1>2. /\ busy[slot[1]] = None /\ o # Empty /\ entry' = [entry EXCEPT ![slot] = Empty]
      /\ held' = [held EXCEPT ![slot] = @ - c.urefs] /\ UNCHANGED <<alive, busy, deaths>>
  BY DEF ipc_right_destroy, Ready, GiveBack
<1>3. held' = [held EXCEPT ![slot] = @ + (-c.urefs)] /\ held'[slot] = held[slot] - c.urefs
  BY <1>1, <1>2
<1>4. CASE o.port # None /\ port[o.port].active
  <2>1. ~Stale(slot) /\ DestroyRight(slot, o)
    BY <1>4 DEF Stale, ipc_right_destroy
  <2>2. c = o
    BY <2>1, CheckedFacts
  <2>3. HeldBy(slot, -entry[slot].urefs)
    <3>1. -c.urefs \in Int
      BY <1>1
    <3> QED
      BY <1>3, <2>2, <3>1, HeldGiven
  <2> QED
    BY <1>2, <1>4, <2>1, <2>3, DestroyRightInv
<1>5. CASE ~(o.port # None /\ port[o.port].active)
  <2>1. /\ o.port = None \/ Stale(slot)
        /\ port' = CheckedPorts(slot)
        /\ UNCHANGED <<dnrequests, naked, nosenders, early, stray>>
    BY <1>5 DEF Stale, ipc_right_destroy
  <2>2. c.port = None /\ c.urefs = o.urefs + Bit(o.request)
    BY <2>1, CheckedFacts
  <2>3. /\ Empty \in Entries /\ Empty.port = None /\ Empty.urefs = 0
    BY EmptyEntry DEF Empty
  <2>4. slot[1] \in alive => 0 = held'[slot] + deaths'[slot] + Owed(slot)
    <3>1. Owed(slot) \in Nat
      BY <1>1, FS_CardinalityType DEF SlotOK, Owed
    <3>2. slot[1] \in alive => c.urefs = held[slot] + deaths[slot] + Owed(slot)
      BY <1>1, <2>2 DEF SlotOK
    <3> QED
      BY <1>1, <1>2, <1>3, <3>1, <3>2
  <2>5. /\ held' \in [Slots -> Int]
        /\ \A x \in Slots : x # slot => held'[x] = held[x] /\ deaths'[x] = deaths[x]
    BY <1>1, <1>2
  <2> QED
    BY <1>1, <1>2, <2>1, <2>3, <2>4, <2>5, DeadAct
<1> QED
  BY <1>4, <1>5

\* An entry of a dead space is cleaned: no call has such a space locked.
LEMMA RightCleanInv ==
  ASSUME RightsInv, NEW slot \in Slots, ipc_right_clean(slot)
  PROVE  RightsInv'
<1> DEFINE o == entry[slot]
<1>1. /\ TypeOK /\ o \in Entries /\ o.port \in Ports \cup {None}
      /\ held \in [Slots -> Int] /\ deaths \in [Slots -> Nat]
  BY EntryOf, EntryFacts DEF RightsInv, TypeOK
<1>2. /\ slot[1] \notin alive /\ o # Empty /\ entry' = [entry EXCEPT ![slot] = Empty]
      /\ UNCHANGED <<alive, busy, deaths, held>>
  BY DEF ipc_right_clean
<1>3. busy[slot[1]] = None
  <2>1. slot[1] \in Spaces
    BY PortRightsAssumption
  <2> QED
    BY <1>2, <2>1 DEF RightsInv, BusyOK
<1>4. CASE o.port # None /\ port[o.port].active
  <2>1. DestroyRight(slot, o)
    BY <1>4 DEF ipc_right_clean
  <2>2. HeldBy(slot, -entry[slot].urefs)
    BY <1>1, <1>2 DEF HeldBy
  <2> QED
    BY <1>2, <1>3, <1>4, <2>1, <2>2, DestroyRightInv
<1>5. CASE ~(o.port # None /\ port[o.port].active)
  <2>1. /\ o.port = None \/ Stale(slot)
        /\ port' = CheckedPorts(slot)
        /\ UNCHANGED <<dnrequests, naked, nosenders, early, stray>>
    BY <1>5 DEF Stale, ipc_right_clean
  <2>2. /\ Empty \in Entries /\ Empty.port = None
    BY EmptyEntry DEF Empty
  <2> QED
    BY <1>1, <1>2, <1>3, <2>1, <2>2, DeadAct
<1> QED
  BY <1>4, <1>5

-----------------------------------------------------------------------------
(* ipc_right_rename.                                                       *)

\* A right moves from the entry o to the entry n, which was free, and may be
\* found to be a dead name.
LEMMA RenameCounts ==
  ASSUME NEW o \in Slots, NEW n \in Slots, o # n, NEW e, NEW p \in Ports,
         entry[n].port # p,
         entry'[o].port # p, entry'[n] = e,
         \A x \in Slots : x # o /\ x # n => entry'[x] = entry[x]
  PROVE  /\ Cardinality(With(p, "send")')
              = Cardinality(With(p, "send"))
                + Bit(Has(e, p, "send")) - Bit(Has(entry[o], p, "send"))
         /\ Cardinality(With(p, "once")')
              = Cardinality(With(p, "once"))
                + Bit(Has(e, p, "once")) - Bit(Has(entry[o], p, "once"))
         /\ Cardinality(Pointers(p)')
              = Cardinality(Pointers(p)) + Bit(e.port = p) - Bit(entry[o].port = p)
<1>1. ASSUME NEW A, NEW B, IsFiniteSet(A), A \ {o} = B \ {n}, o \notin B, n \notin A
      PROVE  Cardinality(B) = Cardinality(A) + Bit(n \in B) - Bit(o \in A)
  <2> DEFINE M == A \ {o}
  <2>1. A \ {o} = M \ {o} /\ M \ {n} = B \ {n} /\ o \notin M /\ n \notin M
    BY <1>1
  <2>2. /\ IsFiniteSet(M) /\ Cardinality(A) \in Nat /\ Cardinality(M) \in Nat
        /\ Cardinality(M) = Cardinality(A) + Bit(o \in M) - Bit(o \in A)
    BY <1>1, <2>1, CountChange
  <2>3. /\ Cardinality(B) \in Nat
        /\ Cardinality(B) = Cardinality(M) + Bit(n \in B) - Bit(n \in M)
    BY <2>1, <2>2, CountChange
  <2>4. Bit(o \in M) = 0 /\ Bit(n \in M) = 0
    BY <2>1 DEF Bit
  <2>5. Bit(n \in B) \in Nat /\ Bit(o \in A) \in Nat
    BY DEF Bit
  <2> HIDE DEF M
  <2> QED
    BY <2>2, <2>3, <2>4, <2>5
<1>2. ASSUME NEW right
      PROVE  Cardinality(With(p, right)')
               = Cardinality(With(p, right))
                 + Bit(Has(e, p, right)) - Bit(Has(entry[o], p, right))
  <2>1. /\ With(p, right) \ {o} = With(p, right)' \ {n}
        /\ o \notin With(p, right)' /\ n \notin With(p, right)
    BY DEF With
  <2>2. /\ o \in With(p, right) <=> Has(entry[o], p, right)
        /\ n \in With(p, right)' <=> Has(e, p, right)
    BY DEF With, Has
  <2>3. IsFiniteSet(With(p, right))
    BY CountsNat
  <2>4. Cardinality(With(p, right)') = Cardinality(With(p, right))
          + Bit(n \in With(p, right)') - Bit(o \in With(p, right))
    BY <1>1, <2>1, <2>3
  <2> QED
    BY <2>2, <2>4 DEF Bit
<1>3. Cardinality(Pointers(p)')
        = Cardinality(Pointers(p)) + Bit(e.port = p) - Bit(entry[o].port = p)
  <2>1. /\ Pointers(p) \ {o} = Pointers(p)' \ {n}
        /\ o \notin Pointers(p)' /\ n \notin Pointers(p)
    BY DEF Pointers
  <2>2. /\ o \in Pointers(p) <=> entry[o].port = p
        /\ n \in Pointers(p)' <=> e.port = p
    BY DEF Pointers
  <2>3. IsFiniteSet(Pointers(p))
    BY CountsNat
  <2>4. Cardinality(Pointers(p)') = Cardinality(Pointers(p))
          + Bit(n \in Pointers(p)') - Bit(o \in Pointers(p))
    BY <1>1, <2>1, <2>3
  <2> QED
    BY <2>2, <2>4 DEF Bit
<1> QED
  BY <1>2, <1>3

LEMMA RenamePort ==
  ASSUME RightsInv, NEW o \in Slots, NEW n \in Slots, o # n, NEW e, NEW p \in Ports,
         entry[n].port # p, entry'[o].port # p, entry'[n] = e,
         \A x \in Slots : x # o /\ x # n => entry'[x] = entry[x],
         UNCHANGED <<naked, busy, nosenders, early, stray>>,
         port'[p].active = port[p].active, port'[p].dying = port[p].dying,
         port'[p].srights = port[p].srights, port'[p].sorights = port[p].sorights,
         port'[p].mscount = port[p].mscount, port'[p].ns = port[p].ns,
         port'[p].refs = port[p].refs + Bit(e.port = p) - Bit(entry[o].port = p),
         port[p].active => \A right : Has(e, p, right) <=> Has(entry[o], p, right),
         ReceiverOK(p)'
  PROVE  PortOK(p)'
<1>1. /\ TypeOK /\ PortOK(p)
      /\ port[p].active =>
           /\ port[p].srights = Cardinality(With(p, "send")) + naked[p].send + stray[p]
           /\ port[p].sorights = Cardinality(With(p, "once")) + naked[p].once + naked[p].dest
      /\ port[p].refs = Cardinality(Pointers(p)) + naked[p].send + naked[p].once
                        + naked[p].dest + naked[p].receive + Bit(port[p].dying)
  BY DEF RightsInv, PortOK, CountsOK
<1>2. /\ port[p].refs \in Nat /\ naked[p].send \in Nat /\ naked[p].once \in Nat
      /\ naked[p].dest \in Nat /\ naked[p].receive \in Nat
      /\ Cardinality(With(p, "send")) \in Nat /\ Cardinality(With(p, "once")) \in Nat
      /\ Cardinality(Pointers(p)) \in Nat
      /\ Bit(e.port = p) \in Nat /\ Bit(entry[o].port = p) \in Nat
      /\ Bit(port[p].dying) \in Nat
  BY <1>1, PortNats, CountsNat DEF Bit
<1>3. /\ Cardinality(With(p, "send")')
           = Cardinality(With(p, "send"))
             + Bit(Has(e, p, "send")) - Bit(Has(entry[o], p, "send"))
      /\ Cardinality(With(p, "once")')
           = Cardinality(With(p, "once"))
             + Bit(Has(e, p, "once")) - Bit(Has(entry[o], p, "once"))
      /\ Cardinality(Pointers(p)')
           = Cardinality(Pointers(p)) + Bit(e.port = p) - Bit(entry[o].port = p)
  BY RenameCounts
<1>4. ASSUME port[p].active
      PROVE  /\ Cardinality(With(p, "send")') = Cardinality(With(p, "send"))
             /\ Cardinality(With(p, "once")') = Cardinality(With(p, "once"))
  <2>1. /\ Bit(Has(e, p, "send")) = Bit(Has(entry[o], p, "send"))
        /\ Bit(Has(e, p, "once")) = Bit(Has(entry[o], p, "once"))
        /\ Bit(Has(entry[o], p, "send")) \in Nat /\ Bit(Has(entry[o], p, "once")) \in Nat
    BY <1>4 DEF Bit
  <2> QED
    BY <1>2, <1>3, <2>1
<1>5. port'[p].refs = Cardinality(Pointers(p)') + naked[p].send + naked[p].once
                      + naked[p].dest + naked[p].receive + Bit(port[p].dying)
  BY <1>1, <1>2, <1>3
<1>6. CountsOK(p)'
  BY <1>1, <1>4, <1>5 DEF CountsOK
<1>7. ClaimsOK(p)'
  <2>1. \A right : Claims(p, right)' = Claims(p, right)
    BY DEF Claims
  <2> QED
    BY <1>1, <2>1 DEF PortOK, ClaimsOK
<1>8. NoSendersOK(p)'
  BY <1>1, NoSendersKept DEF PortOK
<1> QED
  BY <1>6, <1>7, <1>8 DEF PortOK

LEMMA RenameFrame ==
  ASSUME RightsInv, TypeOK', NEW o \in Slots, NEW n \in Slots, o # n, o[1] = n[1],
         busy[o[1]] = None, NEW e \in Entries,
         entry'[o].type = {}, entry'[n] = e,
         \A x \in Slots : x # o /\ x # n =>
           /\ entry'[x] = entry[x] /\ held'[x] = held[x]
           /\ \A q \in Ports : dnrequests'[q][x] = dnrequests[q][x],
         UNCHANGED <<alive, busy, deaths>>,
         \A q \in Ports : PortOK(q)' /\ (port'[q].active => port[q].active),
         SlotOK(o)', SlotOK(n)',
         e.type \cap {"send", "receive"} # {} => e = entry[o]
  PROVE  RightsInv'
<1>1. /\ TypeOK /\ Unique
      /\ \A x \in Slots : SlotOK(x)
      /\ \A s \in Spaces : BusyOK(s)
  BY DEF RightsInv
<1>2. ASSUME NEW x \in Slots PROVE SlotOK(x)'
  BY <1>1, SlotKept
<1>3. ASSUME NEW s \in Spaces PROVE BusyOK(s)'
  <2>1. BusyOK(s) /\ (busy[s] # None => busy[s].slot \in Slots)
    BY <1>1 DEF TypeOK, Calls
  <2>2. busy[s] # None => busy[s].slot # o /\ busy[s].slot # n
    BY <2>1 DEF BusyOK
  <2> QED
    BY <2>1, <2>2 DEF BusyOK
<1>4. Unique'
  <2> SUFFICES ASSUME NEW x \in Slots, NEW y \in Slots,
                      x[1] = y[1], entry'[x].port = entry'[y].port,
                      entry'[x].type \cap {"send", "receive"} # {},
                      entry'[y].type \cap {"send", "receive"} # {}
               PROVE  x = y
    BY DEF Unique
  <2>1. x # o /\ y # o
    OBVIOUS
  <2>2. CASE x # n /\ y # n
    BY <1>1, <2>1, <2>2 DEF Unique
  <2>3. CASE x = n /\ y # n
    <3>1. entry[o].type \cap {"send", "receive"} # {} /\ entry[o].port = entry[y].port
          /\ entry[y].type \cap {"send", "receive"} # {} /\ o[1] = y[1]
      BY <2>1, <2>3
    <3>2. o = y
      BY <1>1, <3>1 DEF Unique
    <3> QED
      BY <2>1, <3>2
  <2>4. CASE x # n /\ y = n
    <3>1. entry[o].type \cap {"send", "receive"} # {} /\ entry[o].port = entry[x].port
          /\ entry[x].type \cap {"send", "receive"} # {} /\ o[1] = x[1]
      BY <2>1, <2>4
    <3>2. o = x
      BY <1>1, <3>1 DEF Unique
    <3> QED
      BY <2>1, <3>2
  <2> QED
    BY <2>2, <2>3, <2>4
<1> QED
  BY <1>2, <1>3, <1>4 DEF RightsInv

\* The new name is a dead name ...
LEMMA RenameDead ==
  ASSUME RightsInv, NEW o \in Slots, NEW n \in Slots, o # n, o[1] = n[1],
         busy[o[1]] = None, entry[n] = Empty, NEW e \in Entries, e.type = {} \/ e.type = {"dead"},
         e.urefs = entry[o].urefs + Bit(entry[o].request),
         entry[o].port = None \/ Stale(o),
         entry' = [entry EXCEPT ![o] = Empty, ![n] = e],
         port' = CheckedPorts(o),
         held' = [held EXCEPT ![o] = @ - e.urefs, ![n] = @ + e.urefs],
         UNCHANGED <<alive, dnrequests, naked, busy, deaths, nosenders, early, stray>>
  PROVE  RightsInv'
<1>1. /\ TypeOK /\ SlotOK(o) /\ SlotOK(n) /\ entry \in [Slots -> Entries]
      /\ port \in [Ports -> PortRecords] /\ held \in [Slots -> Int]
      /\ held[o] \in Int /\ held[n] \in Int /\ deaths[o] \in Nat /\ deaths[n] \in Nat
  BY DEF RightsInv, TypeOK
<1>2. /\ Empty \in Entries /\ Empty.port = None /\ Empty.urefs = 0 /\ Empty.type = {}
      /\ Empty.request = FALSE
  BY EmptyEntry DEF Empty
<1>3. /\ entry' \in [Slots -> Entries] /\ entry'[o] = Empty /\ entry'[n] = e
      /\ \A x \in Slots : x # o /\ x # n => entry'[x] = entry[x]
      /\ held' \in [Slots -> Int] /\ held'[o] = held[o] - e.urefs
      /\ held'[n] = held[n] + e.urefs
      /\ \A x \in Slots : x # o /\ x # n => held'[x] = held[x]
  <2>1. e.urefs \in Nat
    BY EntryFacts
  <2> QED
    BY <1>1, <1>2, <2>1
<1>4. /\ e.type \cap {"send", "receive"} = {} /\ e.request = FALSE /\ e.urefs \in Nat
      /\ \A q \in Ports : \A right : ~Has(e, q, right)
      /\ \A q \in Ports : e.port # q /\ Empty.port # q
      /\ \A q \in Ports : \A right : ~Has(Empty, q, right)
  <2>1. e.type = {} \/ e.type = {"dead"}
    OBVIOUS
  <2>2. /\ e.request = FALSE /\ e.urefs \in Nat /\ e.port = None
    BY EntryFacts
  <2>3. \A q \in Ports : q # None
    BY PortRightsAssumption
  <2> QED
    BY <1>2, <2>1, <2>2, <2>3 DEF Has
<1>5. /\ port' \in [Ports -> PortRecords]
      /\ \A q \in Ports : entry[o].port # q => port'[q] = port[q]
      /\ \A q \in Ports : entry[o].port = q =>
           /\ ~port[q].active
           /\ port'[q] = [port[q] EXCEPT !.refs = port[q].refs - 1]
  <2>1. CASE entry[o].port = None
    <3>1. port' = port
      BY <2>1 DEF CheckedPorts, Stale
    <3> QED
      BY <1>1, <2>1, <3>1, PortRightsAssumption
  <2>2. CASE entry[o].port # None
    <3>0. PICK p \in Ports : p = entry[o].port
      BY <2>2, EntryOf
    <3>1. /\ ~port[p].active /\ port' = [port EXCEPT ![p].refs = @ - 1]
      BY <2>2, <3>0 DEF CheckedPorts, Stale
    <3>2. port[p].refs - 1 \in Nat /\ port[p] \in PortRecords
      <4>1. /\ port[p].refs >= naked[p].send + naked[p].once + naked[p].dest
                               + naked[p].receive + 1
        BY <3>0, EntryCounted
      <4>2. /\ port[p].refs \in Nat /\ naked[p].send \in Nat /\ naked[p].once \in Nat
            /\ naked[p].dest \in Nat /\ naked[p].receive \in Nat
        BY <1>1, PortNats
      <4>3. port[p].refs - 1 \in Nat
        BY <4>1, <4>2
      <4> QED
        BY <1>1, <4>3
    <3> DEFINE b == port[p].refs - 1
               t == [port[p] EXCEPT !.refs = b]
    <3>3. t \in PortRecords
      <4>1. b \in Nat
        BY <3>2
      <4> HIDE DEF b
      <4> QED
        BY <3>2, <4>1, RecChanged, Zenon
    <3>4. port' = [port EXCEPT ![p] = t]
      BY <3>1
    <3>5. port' \in [Ports -> PortRecords] /\ port'[p] = t
          /\ \A q \in Ports : q # p => port'[q] = port[q]
      <4> HIDE DEF t
      <4> QED
        BY <1>1, <3>3, <3>4
    <3> QED
      BY <3>0, <3>1, <3>5
  <2> QED
    BY <2>1, <2>2
<1>6. TypeOK'
  BY <1>1, <1>3, <1>5 DEF TypeOK
<1>7. ASSUME NEW q \in Ports PROVE PortOK(q)' /\ (port'[q].active => port[q].active)
  <2>1. CASE entry[o].port # q
    <3>1. PortOK(q) /\ port'[q] = port[q]
      BY <1>5, <2>1 DEF RightsInv
    <3>2. \A x \in Slots : \/ entry'[x] = entry[x]
                           \/ entry[x].port # q /\ entry'[x].port # q
      BY <1>3, <1>4, <2>1
    <3> QED
      BY <3>1, <3>2, PortKept
  <2>2. CASE entry[o].port = q
    <3> DEFINE b == port[q].refs - 1
    <3>1. ~port[q].active /\ port'[q] = [port[q] EXCEPT !.refs = b]
          /\ port'[q] \in PortRecords /\ port[q] \in PortRecords
      BY <1>1, <1>5, <2>2
    <3>2. b \in Nat
      <4>1. port[q].refs >= naked[q].send + naked[q].once + naked[q].dest
                            + naked[q].receive + 1
        BY <2>2, EntryCounted
      <4>2. /\ port[q].refs \in Nat /\ naked[q].send \in Nat /\ naked[q].once \in Nat
            /\ naked[q].dest \in Nat /\ naked[q].receive \in Nat
        BY <1>1, PortNats
      <4> QED
        BY <4>1, <4>2
    <3>3. Fields(port'[q], port[q].active, port[q].dying, port[q].receiver,
                 port[q].srights, port[q].sorights, port[q].mscount, b,
                 port[q].ns, port[q].pd)
      <4> DEFINE t == [port[q] EXCEPT !.refs = b]
      <4>1. port'[q] = t
        BY <3>1
      <4> HIDE DEF b
      <4>2. Fields(t, port[q].active, port[q].dying, port[q].receiver,
                   port[q].srights, port[q].sorights, port[q].mscount, b,
                   port[q].ns, port[q].pd)
        BY <3>1, <3>2, RecChanged, Zenon
      <4> HIDE DEF t
      <4> QED
        BY <4>1, <4>2
    <3>4. b = port[q].refs + Bit(e.port = q) - Bit(entry[o].port = q)
      <4>1. Bit(e.port = q) = 0 /\ Bit(entry[o].port = q) = 1
        BY <1>4, <2>2 DEF Bit
      <4>2. port[q].refs \in Nat
        BY <1>1, PortNats
      <4>3. b = port[q].refs + 0 - 1
        BY <4>2
      <4> QED
        BY <4>1, <4>3
    <3>5. ReceiverOK(q)'
      <4>1. ReceiverOK(q)
        BY DEF RightsInv, PortOK
      <4>2. ~Has(entry[o], q, "receive") /\ ~Has(entry[n], q, "receive")
        BY <1>4, <3>1, <4>1, PortRightsAssumption DEF ReceiverOK
      <4>3. \A x \in Slots : Has(entry'[x], q, "receive") <=> Has(entry[x], q, "receive")
        BY <1>3, <1>4, <4>2
      <4> QED
        BY <3>3, <4>1, <4>3 DEF ReceiverOK, Fields
    <3>6. /\ entry[n].port # q /\ entry'[o].port # q
      BY <1>3, <1>4
    <3> HIDE DEF b
    <3>7. PortOK(q)'
      <4>1. /\ port'[q].active = port[q].active /\ port'[q].dying = port[q].dying
            /\ port'[q].srights = port[q].srights /\ port'[q].sorights = port[q].sorights
            /\ port'[q].mscount = port[q].mscount /\ port'[q].ns = port[q].ns
            /\ port'[q].refs = port[q].refs + Bit(e.port = q) - Bit(entry[o].port = q)
            /\ ~port[q].active
        BY <3>1, <3>3, <3>4 DEF Fields
      <4>2. /\ entry'[n] = e
            /\ \A x \in Slots : x # o /\ x # n => entry'[x] = entry[x]
        BY <1>3
      <4>3. /\ RightsInv /\ o # n /\ o \in Slots /\ n \in Slots /\ q \in Ports
            /\ UNCHANGED <<naked, busy, nosenders, early, stray>>
        OBVIOUS
      <4> QED
        BY ONLY <3>5, <3>6, <4>1, <4>2, <4>3, RenamePort
    <3> QED
      BY <3>1, <3>3, <3>7 DEF Fields
  <2> QED
    BY <2>1, <2>2
<1>8. SlotOK(o)' /\ SlotOK(n)'
  <2>1. /\ Requests(o)' = Requests(o) /\ Requests(n)' = Requests(n)
    BY DEF Requests
  <2>2. /\ IsFiniteSet(Requests(o)) /\ IsFiniteSet(Requests(n))
        /\ Owed(o) \in Nat /\ Owed(n) \in Nat
    BY <1>1, FS_CardinalityType DEF SlotOK, Owed
  <2>3. Bit(FALSE) = 0
    BY DEF Bit
  <2>4. o[1] \in alive => 0 + Bit(FALSE) = held'[o] + deaths[o] + Owed(o)
    <3>1. o[1] \in alive => e.urefs = held[o] + deaths[o] + Owed(o)
      BY <1>1 DEF SlotOK
    <3>2. \A a, k, w \in Nat : \A h \in Int : a = h + k + w => 0 + 0 = h - a + k + w
      OBVIOUS
    <3>3. e.urefs \in Nat /\ held[o] \in Int /\ deaths[o] \in Nat /\ Owed(o) \in Nat
      BY <1>1, <1>4, <2>2
    <3>4. o[1] \in alive => 0 + 0 = held[o] - e.urefs + deaths[o] + Owed(o)
      BY ONLY <3>1, <3>2, <3>3, Zenon
    <3>5. held'[o] = held[o] - e.urefs
      BY <1>3
    <3> QED
      BY ONLY <2>3, <3>4, <3>5, Zenon
  <2>5. n[1] \in alive => e.urefs + Bit(FALSE) = held'[n] + deaths[n] + Owed(n)
    <3>1. n[1] \in alive => 0 + Bit(FALSE) = held[n] + deaths[n] + Owed(n)
      BY <1>1, <1>2 DEF SlotOK
    <3>2. \A a, k, w \in Nat : \A h \in Int : 0 + 0 = h + k + w => a + 0 = h + a + k + w
      OBVIOUS
    <3>3. e.urefs \in Nat /\ held[n] \in Int /\ deaths[n] \in Nat /\ Owed(n) \in Nat
      BY <1>1, <1>4, <2>2
    <3>4. n[1] \in alive => 0 + 0 = held[n] + deaths[n] + Owed(n)
      BY ONLY <2>3, <3>1, Zenon
    <3>5. n[1] \in alive => e.urefs + 0 = held[n] + e.urefs + deaths[n] + Owed(n)
      BY ONLY <3>2, <3>3, <3>4, Zenon
    <3>6. held'[n] = held[n] + e.urefs
      BY <1>3
    <3> QED
      BY ONLY <2>3, <3>5, <3>6, Zenon
  <2>6. SlotOK(o)'
    BY <1>2, <1>3, <2>1, <2>2, <2>4 DEF SlotOK, Owed
  <2>7. SlotOK(n)'
    BY <1>3, <1>4, <2>1, <2>2, <2>5 DEF SlotOK, Owed
  <2> QED
    BY <2>6, <2>7
<1> QED
  BY <1>2, <1>3, <1>4, <1>6, <1>7, <1>8, RenameFrame

\* ... or the right that the old one was.
LEMMA RenameRight ==
  ASSUME RightsInv, NEW o \in Slots, NEW n \in Slots, o # n, o[1] = n[1],
         busy[o[1]] = None, entry[n] = Empty, NEW p \in Ports, entry[o].port = p,
         entry[o].request => port[p].active,
         entry' = [entry EXCEPT ![o] = Empty, ![n] = entry[o]],
         port' = IF "receive" \in entry[o].type THEN [port EXCEPT ![p].receiver = n]
                 ELSE port,
         dnrequests' = IF entry[o].request
                       THEN [dnrequests EXCEPT ![p][o] = @ - 1, ![p][n] = @ + 1]
                       ELSE dnrequests,
         held' = [held EXCEPT ![o] = @ - entry[o].urefs, ![n] = @ + entry[o].urefs],
         UNCHANGED <<alive, naked, busy, deaths, nosenders, early, stray>>
  PROVE  RightsInv'
<1> DEFINE e == entry[o]
<1>1. /\ TypeOK /\ SlotOK(o) /\ SlotOK(n) /\ entry \in [Slots -> Entries] /\ e \in Entries
      /\ port \in [Ports -> PortRecords] /\ held \in [Slots -> Int]
      /\ dnrequests \in [Ports -> [Slots -> Nat]]
      /\ held[o] \in Int /\ held[n] \in Int /\ deaths[o] \in Nat /\ deaths[n] \in Nat
      /\ e.urefs \in Nat /\ e.request \in BOOLEAN /\ \A q \in Ports : PortOK(q)
  BY EntryOf, EntryFacts DEF RightsInv, TypeOK
<1>2. /\ Empty \in Entries /\ Empty.port = None /\ Empty.urefs = 0 /\ Empty.type = {}
      /\ Empty.request = FALSE
  BY EmptyEntry DEF Empty
<1>3. /\ entry' \in [Slots -> Entries] /\ entry'[o] = Empty /\ entry'[n] = e
      /\ \A x \in Slots : x # o /\ x # n => entry'[x] = entry[x]
      /\ held' \in [Slots -> Int] /\ held'[o] = held[o] - e.urefs
      /\ held'[n] = held[n] + e.urefs
      /\ \A x \in Slots : x # o /\ x # n => held'[x] = held[x]
  BY <1>1, <1>2
<1>4. \A q \in Ports : Empty.port # q /\ \A right : ~Has(Empty, q, right)
  <2>1. \A q \in Ports : q # None
    BY PortRightsAssumption
  <2> QED
    BY <1>2, <2>1 DEF Has
<1>5. /\ port' \in [Ports -> PortRecords]
      /\ \A q \in Ports : q # p => port'[q] = port[q]
      /\ Fields(port'[p], port[p].active, port[p].dying,
                IF "receive" \in e.type THEN n ELSE port[p].receiver,
                port[p].srights, port[p].sorights, port[p].mscount, port[p].refs,
                port[p].ns, port[p].pd)
  <2>1. CASE "receive" \in e.type
    <3> DEFINE t == [port[p] EXCEPT !.receiver = n]
    <3>1. port' = [port EXCEPT ![p] = t]
      BY <2>1
    <3>2. /\ t \in PortRecords
          /\ Fields(t, port[p].active, port[p].dying, n, port[p].srights, port[p].sorights,
                    port[p].mscount, port[p].refs, port[p].ns, port[p].pd)
      BY <1>1, RecChanged, ZenonT(60)
    <3> HIDE DEF t
    <3>3. port' \in [Ports -> PortRecords] /\ port'[p] = t
          /\ \A q \in Ports : q # p => port'[q] = port[q]
      BY <1>1, <3>1, <3>2, ZenonT(60)
    <3> QED
      BY <2>1, <3>2, <3>3
  <2>2. CASE "receive" \notin e.type
    BY <1>1, <2>2 DEF Fields
  <2> QED
    BY <2>1, <2>2
<1>6. /\ port'[p].active = port[p].active /\ port'[p].dying = port[p].dying
      /\ port'[p].srights = port[p].srights /\ port'[p].sorights = port[p].sorights
      /\ port'[p].mscount = port[p].mscount /\ port'[p].ns = port[p].ns
      /\ port'[p].refs = port[p].refs
      /\ port'[p].receiver = IF "receive" \in e.type THEN n ELSE port[p].receiver
  BY <1>5 DEF Fields
<1>7. ReceiverOK(p)'
  <2>1. ReceiverOK(p)
    BY <1>1 DEF PortOK
  <2>2. ~Has(entry'[o], p, "receive") /\ ~Has(entry[n], p, "receive")
    BY <1>3, <1>4
  <2>3. CASE "receive" \in e.type
    <3>1. Has(e, p, "receive")
      BY <2>3 DEF Has
    <3>2. port[p].receiver = o /\ port'[p].receiver = n
      BY <1>6, <2>1, <2>3, <3>1 DEF ReceiverOK
    <3>3. \A x \in Slots : Has(entry'[x], p, "receive") <=> x = n
      BY <1>3, <2>1, <2>2, <3>1, <3>2 DEF ReceiverOK
    <3>4. o # None /\ n # None
      BY PortRightsAssumption
    <3> QED
      BY <1>6, <2>1, <3>2, <3>3, <3>4, ZenonT(60) DEF ReceiverOK
  <2>4. CASE "receive" \notin e.type
    <3>1. ~Has(e, p, "receive")
      BY <2>4 DEF Has
    <3>2. \A x \in Slots : Has(entry'[x], p, "receive") <=> Has(entry[x], p, "receive")
      BY <1>3, <2>2, <3>1
    <3> QED
      BY <1>6, <2>1, <2>4, <3>2 DEF ReceiverOK
  <2> QED
    BY <2>3, <2>4
<1>8. PortOK(p)'
  <2>1. port'[p].refs = port[p].refs + Bit(e.port = p) - Bit(entry[o].port = p)
    <3>1. port[p].refs \in Nat /\ Bit(e.port = p) \in Nat
      BY <1>1, PortNats DEF Bit
    <3> QED
      BY <1>6, <3>1
  <2>2. entry[n].port # p /\ entry'[o].port # p
    BY <1>3, <1>4
  <2>3. \A right : Has(e, p, right) <=> Has(entry[o], p, right)
    OBVIOUS
  <2>4. /\ RightsInv /\ o # n /\ o \in Slots /\ n \in Slots /\ p \in Ports
        /\ UNCHANGED <<naked, busy, nosenders, early, stray>>
    OBVIOUS
  <2>5. /\ entry'[n] = e
        /\ \A x \in Slots : x # o /\ x # n => entry'[x] = entry[x]
    BY <1>3
  <2> HIDE DEF e
  <2> QED
    BY ONLY <1>6, <1>7, <2>1, <2>2, <2>3, <2>4, <2>5, RenamePort
<1>9. ASSUME NEW q \in Ports PROVE PortOK(q)' /\ (port'[q].active => port[q].active)
  <2>1. CASE q = p
    BY <1>6, <1>8, <2>1
  <2>2. CASE q # p
    <3>1. PortOK(q) /\ port'[q] = port[q]
      BY <1>1, <1>5, <2>2
    <3>2. \A x \in Slots : \/ entry'[x] = entry[x]
                           \/ entry[x].port # q /\ entry'[x].port # q
      BY <1>3, <1>4, <2>2
    <3> QED
      BY <3>1, <3>2, PortKept
  <2> QED
    BY <2>1, <2>2
<1>10. /\ IsFiniteSet(Requests(o)) /\ IsFiniteSet(Requests(n))
       /\ Owed(o) \in Nat /\ Owed(n) \in Nat
       /\ o[1] \in alive => e.urefs + Bit(e.request) = held[o] + deaths[o] + Owed(o)
       /\ n[1] \in alive => 0 + Bit(FALSE) = held[n] + deaths[n] + Owed(n)
  BY <1>1, <1>2, FS_CardinalityType DEF SlotOK, Owed
<1>11. /\ dnrequests' \in [Ports -> [Slots -> Nat]]
       /\ \A x \in Slots : x # o /\ x # n =>
            \A q \in Ports : dnrequests'[q][x] = dnrequests[q][x]
       /\ IsFiniteSet(Requests(o))' /\ IsFiniteSet(Requests(n))'
       /\ Owed(o)' = Owed(o) - Bit(e.request) /\ Owed(n)' = Owed(n) + Bit(e.request)
       /\ e.request => dnrequests'[p][n] > 0
  <2>1. CASE ~e.request
    <3>1. dnrequests' = dnrequests /\ Bit(e.request) = 0
      BY <2>1 DEF Bit
    <3>2. Requests(o)' = Requests(o) /\ Requests(n)' = Requests(n)
      BY <3>1 DEF Requests
    <3>3. Owed(o)' = Owed(o) /\ Owed(n)' = Owed(n)
      BY <3>2 DEF Owed
    <3>4. Owed(o) = Owed(o) - 0 /\ Owed(n) = Owed(n) + 0
      BY <1>10
    <3> QED
      BY <1>1, <1>10, <2>1, <3>1, <3>2, <3>3, <3>4
  <2>2. CASE e.request
    <3> DEFINE c == dnrequests[p][o] - 1
               d == dnrequests[p][n] + 1
    <3>1. /\ dnrequests[p][o] \in Nat /\ dnrequests[p][o] > 0 /\ dnrequests[p][n] \in Nat
          /\ Bit(e.request) = 1
      BY <1>1, <2>2 DEF SlotOK, Bit
    <3>2. c \in Nat /\ d \in Nat /\ d > 0
      BY <3>1
    <3>3. dnrequests' = [dnrequests EXCEPT ![p][o] = c, ![p][n] = d]
      BY <1>1, <2>2
    <3> HIDE DEF c, d
    <3>4. /\ dnrequests' \in [Ports -> [Slots -> Nat]]
          /\ dnrequests'[p][o] = c /\ dnrequests'[p][n] = d
          /\ \A q \in Ports : q # p => dnrequests'[q] = dnrequests[q]
          /\ \A x \in Slots : x # o /\ x # n =>
               \A q \in Ports : dnrequests'[q][x] = dnrequests[q][x]
      BY <1>1, <3>2, <3>3
    <3>5. /\ IsFiniteSet(Requests(o))'
          /\ Owed(o)' = Owed(o) + c - dnrequests[p][o]
      <4>1. c = dnrequests[p][o] + 1 \/ c = dnrequests[p][o] - 1
        BY DEF c
      <4> QED
        BY <1>1, <1>10, <3>2, <3>4, <4>1, RequestsOfName
    <3>6. /\ IsFiniteSet(Requests(n))'
          /\ Owed(n)' = Owed(n) + d - dnrequests[p][n]
      <4>1. d = dnrequests[p][n] + 1 \/ d = dnrequests[p][n] - 1
        BY DEF d
      <4> QED
        BY <1>1, <1>10, <3>2, <3>4, <4>1, RequestsOfName
    <3>7. Owed(o)' = Owed(o) - 1 /\ Owed(n)' = Owed(n) + 1
      BY <1>10, <3>1, <3>2, <3>5, <3>6 DEF c, d
    <3> QED
      BY <2>2, <3>1, <3>2, <3>4, <3>5, <3>6, <3>7
  <2> QED
    BY <2>1, <2>2
<1>12. Bit(FALSE) = 0 /\ Bit(e.request) \in Nat
  BY DEF Bit
<1>14. SlotOK(o)'
  <2>1. o[1] \in alive =>
          0 + 0 = held[o] - e.urefs + deaths[o] + (Owed(o) - Bit(e.request))
    <3>1. /\ e.urefs \in Nat /\ Bit(e.request) \in Nat /\ held[o] \in Int
          /\ deaths[o] \in Nat /\ Owed(o) \in Nat
          /\ o[1] \in alive => e.urefs + Bit(e.request) = held[o] + deaths[o] + Owed(o)
      BY <1>1, <1>10, <1>12
    <3> QED
      BY ONLY <3>1
  <2>2. o[1] \in alive => Empty.urefs + Bit(Empty.request) = held'[o] + deaths'[o] + Owed(o)'
    BY <1>2, <1>3, <1>11, <1>12, <2>1
  <2> QED
    BY <1>2, <1>3, <1>11, <2>2 DEF SlotOK
<1>15. SlotOK(n)'
  <2>1. n[1] \in alive =>
          e.urefs + Bit(e.request) = held[n] + e.urefs + deaths[n] + (Owed(n) + Bit(e.request))
    <3>1. /\ e.urefs \in Nat /\ Bit(e.request) \in Nat /\ held[n] \in Int
          /\ deaths[n] \in Nat /\ Owed(n) \in Nat
          /\ n[1] \in alive => 0 + 0 = held[n] + deaths[n] + Owed(n)
      BY <1>1, <1>10, <1>12
    <3> QED
      BY ONLY <3>1
  <2>2. n[1] \in alive => e.urefs + Bit(e.request) = held'[n] + deaths'[n] + Owed(n)'
    BY <1>3, <1>11, <2>1
  <2> QED
    BY <1>3, <1>11, <2>2 DEF SlotOK
<1>16. TypeOK'
  BY <1>1, <1>3, <1>5, <1>11 DEF TypeOK
<1>17. entry'[o].type = {} /\ (e.type \cap {"send", "receive"} # {} => e = entry[o])
  BY <1>2, <1>3
<1>18. /\ RightsInv /\ o \in Slots /\ n \in Slots /\ o # n /\ o[1] = n[1]
       /\ busy[o[1]] = None /\ UNCHANGED <<alive, busy, deaths>> /\ e \in Entries
  BY <1>1
<1>19. /\ entry'[n] = e
       /\ \A x \in Slots : x # o /\ x # n =>
            /\ entry'[x] = entry[x] /\ held'[x] = held[x]
            /\ \A q \in Ports : dnrequests'[q][x] = dnrequests[q][x]
  BY <1>3, <1>11
<1> HIDE DEF e
<1> QED
  BY ONLY <1>9, <1>14, <1>15, <1>16, <1>17, <1>18, <1>19, RenameFrame

LEMMA RenameInv ==
  ASSUME RightsInv, NEW o \in Slots, NEW n \in Slots, ipc_right_rename(o, n)
  PROVE  RightsInv'
<1> DEFINE e == IF entry[o].request THEN Checked(o) ELSE entry[o]
<1>1. /\ busy[o[1]] = None /\ o[1] = n[1] /\ entry[o] # Empty /\ entry[n] = Empty
      /\ entry' = [entry EXCEPT ![o] = Empty, ![n] = e]
      /\ port' = IF "receive" \in e.type THEN [port EXCEPT ![e.port].receiver = n]
                 ELSE IF entry[o].request THEN CheckedPorts(o) ELSE port
      /\ dnrequests' = IF e.request
                       THEN [dnrequests EXCEPT ![e.port][o] = @ - 1, ![e.port][n] = @ + 1]
                       ELSE dnrequests
      /\ held' = [held EXCEPT ![o] = @ - e.urefs, ![n] = @ + e.urefs]
      /\ UNCHANGED <<alive, naked, busy, deaths, nosenders, early, stray>>
  BY DEF ipc_right_rename, Ready
<1>2. o # n
  BY <1>1
<1>3. /\ e \in Entries /\ entry[o] \in Entries /\ Checked(o) \in Entries
      /\ entry[o].urefs \in Nat
  BY CheckedFacts, EntryOf, EntryFacts
<1>4. CASE e.port = None
  <2>1. /\ e.type = {} \/ e.type = {"dead"}
        /\ ~e.request /\ "receive" \notin e.type
    BY <1>3, <1>4, EntryFacts
  <2>2. /\ e.urefs = entry[o].urefs + Bit(entry[o].request)
        /\ entry[o].port = None \/ Stale(o)
    <3>1. CASE entry[o].request
      BY <1>4, <3>1, CheckedFacts
    <3>2. CASE ~entry[o].request
      <4>1. e = entry[o] /\ Bit(entry[o].request) = 0
        BY <3>2 DEF Bit
      <4> QED
        BY <1>3, <1>4, <4>1
    <3> QED
      BY <3>1, <3>2
  <2>3. port' = CheckedPorts(o)
    <3>1. CASE entry[o].request
      BY <1>1, <2>1, <3>1
    <3>2. CASE ~entry[o].request
      <4>1. entry[o].port = None
        BY <1>4, <3>2
      <4>2. CheckedPorts(o) = port
        BY <4>1 DEF CheckedPorts, Stale
      <4> QED
        BY <1>1, <2>1, <3>2, <4>2
    <3> QED
      BY <3>1, <3>2
  <2>4. dnrequests' = dnrequests
    BY <1>1, <2>1
  <2> HIDE DEF e
  <2> QED
    BY <1>1, <1>2, <1>3, <2>1, <2>2, <2>3, <2>4, RenameDead
<1>5. CASE e.port # None
  <2>1. e = entry[o] /\ (entry[o].request => ~Stale(o))
    BY <1>5, CheckedFacts
  <2>0. PICK p \in Ports : entry[o].port = p
    BY <1>5, <2>1, EntryOf
  <2>2. entry[o].request => port[p].active
    BY <2>0, <2>1, <1>5 DEF Stale
  <2>3. port' = IF "receive" \in entry[o].type THEN [port EXCEPT ![p].receiver = n] ELSE port
    <3>1. entry[o].request => CheckedPorts(o) = port
      BY <2>1 DEF CheckedPorts
    <3> QED
      BY <1>1, <2>0, <2>1, <3>1
  <2>4. /\ entry' = [entry EXCEPT ![o] = Empty, ![n] = entry[o]]
        /\ dnrequests' = IF entry[o].request
                         THEN [dnrequests EXCEPT ![p][o] = @ - 1, ![p][n] = @ + 1]
                         ELSE dnrequests
        /\ held' = [held EXCEPT ![o] = @ - entry[o].urefs, ![n] = @ + entry[o].urefs]
    BY <1>1, <2>0, <2>1
  <2>5. /\ busy[o[1]] = None /\ o[1] = n[1] /\ entry[n] = Empty
        /\ UNCHANGED <<alive, naked, busy, deaths, nosenders, early, stray>>
    BY <1>1
  <2> HIDE DEF e
  <2> QED
    BY ONLY RightsInv, o \in Slots, n \in Slots, p \in Ports,
            <1>2, <2>0, <2>2, <2>3, <2>4, <2>5, RenameRight
<1> QED
  BY <1>4, <1>5

-----------------------------------------------------------------------------
(* The invariant holds in every reachable state.                           *)

LEMMA InitEntries ==
  ASSUME NEW home \in [Ports -> Slots],
         \A p, q \in Ports : p # q => home[p] # home[q],
         entry = [slot \in Slots |->
                    IF \E p \in Ports : home[p] = slot
                    THEN [Empty EXCEPT !.port = CHOOSE p \in Ports : home[p] = slot,
                                       !.type = {"receive"}]
                    ELSE Empty],
         NEW slot \in Slots
  PROVE  /\ entry[slot] \in Entries /\ entry[slot].urefs = 0 /\ entry[slot].request = FALSE
         /\ \A p \in Ports : home[p] = slot => /\ entry[slot].port = p
                                               /\ entry[slot].type = {"receive"}
         /\ (\A p \in Ports : home[p] # slot) => /\ entry[slot].port = None
                                                 /\ entry[slot].type = {}
<1>1. /\ Empty \in Entries /\ Empty.port = None /\ Empty.urefs = 0 /\ Empty.type = {}
      /\ Empty.request = FALSE
  BY EmptyEntry, Zenon DEF Empty
<1>2. CASE \A p \in Ports : home[p] # slot
  <2>1. entry[slot] = Empty
    BY <1>2, Zenon
  <2> QED
    BY <1>1, <1>2, <2>1, Zenon
<1>3. ASSUME NEW p \in Ports, home[p] = slot
      PROVE  /\ entry[slot] \in Entries /\ entry[slot].urefs = 0
             /\ entry[slot].request = FALSE
             /\ entry[slot].port = p /\ entry[slot].type = {"receive"}
  <2>1. (CHOOSE q \in Ports : home[q] = slot) = p
    BY <1>3, Zenon
  <2>2. entry[slot] = [Empty EXCEPT !.port = p, !.type = {"receive"}]
    BY <1>3, <2>1, Zenon
  <2> DEFINE f == [port |-> p, type |-> {"receive"}, urefs |-> 0, request |-> FALSE]
  <2>3. ASSUME NEW g, g = [Empty EXCEPT !.port = p, !.type = {"receive"}] PROVE g = f
    BY <2>3, Zenon DEF Empty
  <2>4. entry[slot] = f
    BY <2>2, <2>3, Zenon
  <2>5. f \in Entries
    <3>1. /\ {"receive"} \in Types /\ {"receive"} # {} /\ {"receive"} # {"dead"}
          /\ {"receive"} # {"once"}
      BY Zenon DEF Types
    <3>2. 0 \in 0 .. UrefsMax /\ 0 # UrefsMax
      BY ONLY PortRightsAssumption
    <3>3. p # None
      BY ONLY PortRightsAssumption, p \in Ports
    <3> QED
      BY <3>1, <3>2, <3>3, MakeEntry, Zenon
  <2>6. f.port = p /\ f.type = {"receive"} /\ f.urefs = 0 /\ f.request = FALSE
    BY Zenon
  <2> HIDE DEF f
  <2> QED
    BY ONLY <2>4, <2>5, <2>6
<1> QED
  BY <1>2, <1>3, Zenon

LEMMA InitInv == Init => RightsInv
<1> SUFFICES ASSUME Init PROVE RightsInv
  OBVIOUS
<1>0. PICK home \in [Ports -> Slots] :
        /\ \A p, q \in Ports : p # q => home[p] # home[q]
        /\ entry = [slot \in Slots |->
                      IF \E p \in Ports : home[p] = slot
                      THEN [Empty EXCEPT !.port = CHOOSE p \in Ports : home[p] = slot,
                                         !.type = {"receive"}]
                      ELSE Empty]
        /\ port = [p \in Ports |->
                     [active |-> TRUE, dying |-> FALSE, receiver |-> home[p],
                      srights |-> 0, sorights |-> 0, mscount |-> 0, refs |-> 1,
                      ns |-> FALSE, pd |-> FALSE]]
  BY Zenon DEF Init
<1>1. /\ alive = Spaces /\ busy = [s \in Spaces |-> None]
      /\ dnrequests = [p \in Ports |-> [slot \in Slots |-> 0]]
      /\ naked = [p \in Ports |-> Nothing]
      /\ deaths = [slot \in Slots |-> 0] /\ nosenders = [p \in Ports |-> {}]
      /\ held = [slot \in Slots |-> 0]
      /\ early = {} /\ stray = [p \in Ports |-> 0]
  BY ZenonT(60) DEF Init
<1>2. \A slot \in Slots :
        /\ entry[slot] \in Entries /\ entry[slot].urefs = 0 /\ entry[slot].request = FALSE
        /\ \A p \in Ports : home[p] = slot => /\ entry[slot].port = p
                                              /\ entry[slot].type = {"receive"}
        /\ (\A p \in Ports : home[p] # slot) => /\ entry[slot].port = None
                                                /\ entry[slot].type = {}
  BY <1>0, InitEntries, Zenon
<1>3. \A p \in Ports : home[p] \in Slots /\ p # None
  BY PortRightsAssumption
<1>4. TypeOK
  <2>1. entry \in [Slots -> Entries]
    BY <1>0, <1>2, Zenon
  <2>2. port \in [Ports -> PortRecords]
    <3>1. 0 \in 0 .. MaxMscount
      BY PortRightsAssumption
    <3>2. \A x \in Slots : [active |-> TRUE, dying |-> FALSE, receiver |-> x,
                           srights |-> 0, sorights |-> 0, mscount |-> 0, refs |-> 1,
                           ns |-> FALSE, pd |-> FALSE] \in PortRecords
      BY <3>1 DEF PortRecords
    <3> QED
      BY <1>0, <1>3, <3>2, Zenon
  <2>3. naked \in [Ports -> NakedRights]
    BY <1>1 DEF NakedRights, Nothing
  <2>4. busy \in [Spaces -> {None} \cup Calls] /\ dnrequests \in [Ports -> [Slots -> Nat]]
    BY <1>1
  <2>5. /\ deaths \in [Slots -> Nat] /\ nosenders \in [Ports -> SUBSET (0 .. MaxMscount)]
        /\ held \in [Slots -> Int] /\ early \subseteq Ports /\ stray \in [Ports -> Nat]
        /\ alive \subseteq Spaces
    BY <1>1
  <2> QED
    BY <2>1, <2>2, <2>3, <2>4, <2>5 DEF TypeOK
<1>5. \A slot \in Slots, p \in Ports :
        /\ entry[slot].port = p <=> slot = home[p]
        /\ Has(entry[slot], p, "receive") <=> slot = home[p]
        /\ ~Has(entry[slot], p, "send") /\ ~Has(entry[slot], p, "once")
  <2> SUFFICES ASSUME NEW slot \in Slots, NEW p \in Ports
               PROVE  /\ entry[slot].port = p <=> slot = home[p]
                      /\ Has(entry[slot], p, "receive") <=> slot = home[p]
                      /\ ~Has(entry[slot], p, "send") /\ ~Has(entry[slot], p, "once")
    OBVIOUS
  <2>1. CASE \A q \in Ports : home[q] # slot
    BY <1>2, <1>3, <2>1 DEF Has
  <2>2. ASSUME NEW q \in Ports, home[q] = slot
        PROVE  /\ entry[slot].port = p <=> slot = home[p]
               /\ Has(entry[slot], p, "receive") <=> slot = home[p]
               /\ ~Has(entry[slot], p, "send") /\ ~Has(entry[slot], p, "once")
    <3>1. entry[slot].port = q /\ entry[slot].type = {"receive"}
      BY <1>2, <2>2
    <3>2. slot = home[p] <=> p = q
      BY <1>0, <2>2, Zenon
    <3> QED
      BY <3>1, <3>2 DEF Has
  <2> QED
    BY <2>1, <2>2
<1>6. ASSUME NEW p \in Ports PROVE PortOK(p)
  <2>1. /\ port[p].active = TRUE /\ port[p].dying = FALSE /\ port[p].receiver = home[p]
        /\ port[p].srights = 0 /\ port[p].sorights = 0 /\ port[p].mscount = 0
        /\ port[p].refs = 1 /\ port[p].ns = FALSE
    BY <1>0, Zenon
  <2>2. /\ naked[p].send = 0 /\ naked[p].once = 0 /\ naked[p].dest = 0
        /\ naked[p].receive = 0 /\ stray[p] = 0 /\ nosenders[p] = {}
    BY <1>1 DEF Nothing
  <2>3. With(p, "send") = {} /\ With(p, "once") = {} /\ Pointers(p) = {home[p]}
    BY <1>3, <1>5 DEF With, Has, Pointers
  <2>4. Claims(p, "send") = {} /\ Claims(p, "once") = {}
    BY <1>1 DEF Claims
  <2>5. /\ Cardinality(With(p, "send")) = 0 /\ Cardinality(With(p, "once")) = 0
        /\ Cardinality(Pointers(p)) = 1
        /\ Cardinality(Claims(p, "send")) = 0 /\ Cardinality(Claims(p, "once")) = 0
    BY <2>3, <2>4, FS_EmptySet, FS_Singleton
  <2>6. CountsOK(p)
    BY <2>1, <2>2, <2>5 DEF CountsOK, Bit
  <2>7. ReceiverOK(p)
    <3>1. home[p] # None
      BY <1>3, PortRightsAssumption
    <3> QED
      BY <1>5, <2>1, <2>2, <3>1 DEF ReceiverOK
  <2>8. ClaimsOK(p)
    BY <2>2, <2>5 DEF ClaimsOK
  <2>9. NoSendersOK(p)
    BY <2>1, <2>2 DEF NoSendersOK
  <2> QED
    BY <2>6, <2>7, <2>8, <2>9 DEF PortOK
<1>7. ASSUME NEW slot \in Slots PROVE SlotOK(slot)
  <2>1. Requests(slot) = {}
    BY <1>1 DEF Requests
  <2>2. IsFiniteSet(Requests(slot)) /\ Owed(slot) = 0
    BY <2>1, FS_EmptySet DEF Owed
  <2>3. held[slot] = 0 /\ deaths[slot] = 0
    BY <1>1
  <2> QED
    BY <1>2, <2>2, <2>3 DEF SlotOK, Bit
<1>8. ASSUME NEW s \in Spaces PROVE BusyOK(s)
  BY <1>1 DEF BusyOK
<1>9. Unique
  <2> SUFFICES ASSUME NEW x \in Slots, NEW y \in Slots,
                      entry[x].port = entry[y].port,
                      entry[x].type \cap {"send", "receive"} # {},
                      entry[y].type \cap {"send", "receive"} # {}
               PROVE  x = y
    BY DEF Unique
  <2>1. PICK p \in Ports : home[p] = x
    BY <1>2
  <2> QED
    BY <1>2, <1>5, <2>1
<1> QED
  BY <1>4, <1>6, <1>7, <1>8, <1>9 DEF RightsInv

LEMMA StepInv ==
  ASSUME RightsInv, [Next]_vars
  PROVE  RightsInv'
<1>1. ASSUME NEW slot \in Slots, SlotStep(slot) PROVE RightsInv'
  <2>1. CASE MakeSend(slot)
    BY <2>1, MakeSendInv
  <2>2. CASE MakeSendOnce(slot)
    BY <2>2, MakeSendOnceInv
  <2>3. CASE MoveReceive(slot)
    BY <2>3, MoveReceiveInv
  <2>4. CASE CopyinTwo(slot)
    BY <2>4, CopyinTwoInv
  <2>5. ASSUME NEW kind \in Kinds, ipc_object_copyin(slot, kind) PROVE RightsInv'
    BY <2>5, CopyinInv
  <2>6. ASSUME NEW kind \in Kinds, HeaderCopyin(slot, kind) PROVE RightsInv'
    BY <2>6, HeaderCopyinInv
  <2>7. CASE ipc_right_info(slot)
    BY <2>7, RightInfoInv
  <2>8. CASE ipc_right_dealloc(slot)
    BY <2>8, DeallocInv
  <2>9. CASE ipc_right_destroy(slot)
    BY <2>9, RightDestroyInv
  <2>10. ASSUME NEW d \in {-2, 1}, ipc_right_delta(slot, d) PROVE RightsInv'
    BY <2>10, DeltaInv
  <2>11. CASE DeltaReceive(slot)
    BY <2>11, DeltaReceiveInv
  <2>12. CASE ipc_right_clean(slot)
    BY <2>12, RightCleanInv
  <2>13. ASSUME NEW n \in Slots, ipc_right_rename(slot, n) PROVE RightsInv'
    BY <2>13, RenameInv
  <2>14. CASE ipc_right_dnrequest(slot)
    BY <2>14, DnRequestInv
  <2>15. CASE CancelRequest(slot)
    BY <2>15, CancelRequestInv
  <2>16. CASE ReceiveDeath(slot)
    BY <2>16, ReceiveDeathInv
  <2> QED
    BY <1>1, <2>1, <2>2, <2>3, <2>4, <2>5, <2>6, <2>7, <2>8, <2>9, <2>10, <2>11, <2>12,
       <2>13, <2>14, <2>15, <2>16 DEF SlotStep
<1>2. ASSUME NEW p \in Ports, PortStep(p) PROVE RightsInv'
  <2>1. ASSUME NEW slot \in Slots, CopyoutSend(p, slot) PROVE RightsInv'
    BY <2>1, CopyoutSendInv
  <2>2. ASSUME NEW slot \in Slots, CopyoutSendOnce(p, slot) PROVE RightsInv'
    BY <2>2, CopyoutSendOnceInv
  <2>3. ASSUME NEW slot \in Slots, CopyoutReceive(p, slot) PROVE RightsInv'
    BY <2>3, CopyoutReceiveInv
  <2>4. ASSUME NEW slot \in Slots, DeadNameNotification(p, slot) PROVE RightsInv'
    BY <2>4, NotificationInv
  <2>5. CASE CopySendNaked(p)
    BY <2>5, CopySendNakedInv
  <2>6. CASE ipc_port_release_send(p)
    BY <2>6, ReleaseSendInv
  <2>7. CASE ipc_notify_send_once(p)
    BY <2>7, NotifyInv
  <2>8. CASE CopyoutDest(p)
    BY <2>8, CopyoutDestInv
  <2>9. CASE ipc_port_release_receive(p)
    BY <2>9, ReleaseReceiveInv
  <2>10. ASSUME NEW n \in 0 .. MaxMscount, NEW notify \in BOOLEAN,
                ipc_port_nsrequest(p, n, notify)
         PROVE  RightsInv'
    BY <2>10, NsRequestInv
  <2>11. ASSUME NEW n \in 0 .. MaxMscount, mach_port_set_mscount(p, n) PROVE RightsInv'
    BY <2>11, SetMscountInv
  <2>12. CASE ipc_port_pdrequest(p)
    BY <2>12, PdRequestInv
  <2>13. CASE DestroyDone(p)
    BY <2>13, DestroyDoneInv
  <2> QED
    BY <1>2, <2>1, <2>2, <2>3, <2>4, <2>5, <2>6, <2>7, <2>8, <2>9, <2>10, <2>11, <2>12,
       <2>13 DEF PortStep
<1>3. ASSUME NEW s \in Spaces, HeaderDone(s) PROVE RightsInv'
  BY <1>3, HeaderDoneInv
<1>4. ASSUME NEW s \in Spaces, HeaderUndo(s) PROVE RightsInv'
  BY <1>4, HeaderUndoInv
<1>5. ASSUME NEW s \in Spaces, ipc_space_destroy(s) PROVE RightsInv'
  BY <1>5, SpaceDestroyInv
<1>6. CASE UNCHANGED vars
  <2>1. UNCHANGED <<alive, entry, port, dnrequests, naked, busy, deaths, nosenders, held,
                    early, stray>>
    BY <1>6 DEF vars, kernel
  <2>2. TypeOK' /\ Unique'
    BY <2>1 DEF RightsInv, TypeOK, Unique
  <2>3. ASSUME NEW p \in Ports PROVE PortOK(p)'
    BY <2>1, PortKept DEF RightsInv
  <2>4. ASSUME NEW slot \in Slots PROVE SlotOK(slot)'
    BY <2>1, SlotKept DEF RightsInv
  <2>5. ASSUME NEW s \in Spaces PROVE BusyOK(s)'
    BY <2>1 DEF RightsInv, BusyOK
  <2> QED
    BY <2>2, <2>3, <2>4, <2>5 DEF RightsInv
<1> QED
  BY <1>1, <1>2, <1>3, <1>4, <1>5, <1>6 DEF Next

\* The inductive invariant: counts, places, calls under way and user references
\* agree in every state that the routines of ipc_right.c and ipc_port.c reach.
THEOREM RightsInvariant == Spec => []RightsInv
<1>1. Init => RightsInv
  BY InitInv
<1>2. RightsInv /\ [Next]_vars => RightsInv'
  BY StepInv
<1> QED
  BY <1>1, <1>2, PTL DEF Spec

-----------------------------------------------------------------------------
(* What it says of the properties.                                         *)

LEMMA CountsExact ==
  ASSUME RightsInv, NEW p \in Ports
  PROVE  /\ Senders(p) \in Nat /\ stray[p] \in Nat
         /\ port[p].active =>
              /\ port[p].srights = Senders(p) + stray[p]
              /\ port[p].sorights = Cardinality(With(p, "once")) + naked[p].once + naked[p].dest
<1>1. TypeOK /\ CountsOK(p)
  BY DEF RightsInv, PortOK
<1>2. /\ naked[p].send \in Nat /\ stray[p] \in Nat /\ Cardinality(With(p, "send")) \in Nat
  BY <1>1, PortNats, CountsNat
<1> QED
  BY <1>1, <1>2 DEF CountsOK, Senders

\* Whatever ipc_right.c, ipc_port.c and ipc_kmsg.c do, an entry is one that
\* ipc_right_check knows: user references are in range and below the maximum
\* unless the name is dead, a send-once right has one, and only an entry with a
\* port has a dead-name request.
THEOREM TypeCorrect == Spec => []TypeOK
<1>1. RightsInv => TypeOK
  BY DEF RightsInv
<1> QED
  BY <1>1, RightsInvariant, PTL

\* ip_srights and ip_sorights of a live port are the rights that exist, but for
\* the send rights that ipc_right_delta of a receive right leaves behind.
THEOREM RightsAlwaysCounted == Spec => []RightsCounted
<1>1. RightsInv => RightsCounted
  BY CountsExact DEF RightsCounted
<1> QED
  BY <1>1, RightsInvariant, PTL

\* ip_references is what points to the port: entries, naked rights and the
\* thread that destroys it.  No ip_release comes too early, and none is missing.
THEOREM RefsAlwaysCounted == Spec => []RefsCounted
<1>1. RightsInv => RefsCounted
  <2> SUFFICES ASSUME RightsInv, NEW p \in Ports
               PROVE  port[p].refs = Cardinality({slot \in Slots : entry[slot].port = p})
                                     + naked[p].send + naked[p].once + naked[p].dest
                                     + naked[p].receive
                                     + (IF port[p].dying THEN 1 ELSE 0)
    BY DEF RefsCounted
  <2>1. CountsOK(p)
    BY DEF RightsInv, PortOK
  <2> QED
    BY <2>1 DEF CountsOK, Pointers, Bit
<1> QED
  BY <1>1, RightsInvariant, PTL

\* A live port has one receive right, and ip_receiver_name knows where it is; a
\* space keeps the send and receive rights of a port in one entry, as
\* ipc_right_reverse relies on.
THEOREM AlwaysOneReceiver == Spec => []OneReceiver
<1>1. ASSUME RightsInv PROVE OneReceiver
  <2> SUFFICES ASSUME NEW p \in Ports
               PROVE  /\ With(p, "receive")
                           = IF port[p].receiver = None THEN {} ELSE {port[p].receiver}
                      /\ port[p].active <=>
                           Cardinality(With(p, "receive")) + naked[p].receive = 1
                      /\ \A x, y \in With(p, "send") \cup With(p, "receive") :
                           x[1] = y[1] => x = y
    BY DEF OneReceiver
  <2>1. ReceiverOK(p) /\ TypeOK /\ Unique /\ PortT(p)
    BY <1>1, PortTypes DEF RightsInv, PortOK
  <2>2. /\ port[p].receiver \in Slots \cup {None} /\ naked[p].receive \in {0, 1}
        /\ port[p].active \in BOOLEAN
    BY <2>1 DEF PortT
  <2>3. None \notin Slots
    BY PortRightsAssumption
  <2>4. \A slot \in Slots : slot \in With(p, "receive") <=> port[p].receiver = slot
    BY <2>1 DEF ReceiverOK, With, Has
  <2>5. With(p, "receive") \subseteq Slots
    BY DEF With
  <2>6. With(p, "receive") = IF port[p].receiver = None THEN {} ELSE {port[p].receiver}
    BY <2>2, <2>3, <2>4, <2>5
  <2>7. Cardinality(With(p, "receive")) = IF port[p].receiver = None THEN 0 ELSE 1
    BY <2>6, FS_EmptySet, FS_Singleton
  <2>8. port[p].active <=> Cardinality(With(p, "receive")) + naked[p].receive = 1
    <3>1. /\ port[p].active <=> port[p].receiver # None \/ naked[p].receive = 1
          /\ port[p].receiver # None => naked[p].receive = 0
      BY <2>1 DEF ReceiverOK
    <3> QED
      BY <2>2, <2>7, <3>1
  <2>9. ASSUME NEW x \in With(p, "send") \cup With(p, "receive"),
               NEW y \in With(p, "send") \cup With(p, "receive"), x[1] = y[1]
        PROVE  x = y
    <3>1. /\ x \in Slots /\ y \in Slots /\ entry[x].port = p /\ entry[y].port = p
          /\ "send" \in entry[x].type \/ "receive" \in entry[x].type
          /\ "send" \in entry[y].type \/ "receive" \in entry[y].type
      BY DEF With
    <3>2. /\ entry[x].type \cap {"send", "receive"} # {}
          /\ entry[y].type \cap {"send", "receive"} # {}
      BY <3>1
    <3> QED
      BY <2>1, <2>9, <3>1, <3>2 DEF Unique
  <2> QED
    BY <2>6, <2>8, <2>9
<1>2. RightsInv => OneReceiver
  BY <1>1
<1> QED
  BY <1>2, RightsInvariant, PTL

\* A task that counts the references it is given and gives back has the count
\* of ie_bits, less those of the dead-name notifications that are on their way.
THEOREM UrefsAlwaysMatch == Spec => []UrefsMatch
<1>1. RightsInv => UrefsMatch
  BY DEF RightsInv, SlotOK, UrefsMatch, Bit
<1> QED
  BY <1>1, RightsInvariant, PTL

\* A no-senders notification whose count is still ip_mscount is true: there is
\* no send right, in a space or in a message.
THEOREM NoSendersAlwaysTrue == Spec => []NoSendersTrue
<1>1. ASSUME RightsInv PROVE NoSendersTrue
  <2> SUFFICES ASSUME NEW p \in Ports, port[p].active, port[p].mscount \in nosenders[p]
               PROVE  Senders(p) = 0
    BY DEF NoSendersTrue
  <2>1. port[p].srights = 0
    BY <1>1 DEF RightsInv, PortOK, NoSendersOK
  <2>2. /\ Senders(p) \in Nat /\ stray[p] \in Nat
        /\ port[p].srights = Senders(p) + stray[p]
    BY <1>1, CountsExact
  <2> QED
    BY <2>1, <2>2
<1>2. RightsInv => NoSendersTrue
  BY <1>1
<1> QED
  BY <1>2, RightsInvariant, PTL

\* ip_nsrequest is registered only while a send right is there whose end will
\* use it, or none was ever made.
THEOREM NoSendersNeverLost == Spec => []NoSendersNotLost
<1>1. ASSUME RightsInv PROVE NoSendersNotLost
  <2> SUFFICES ASSUME NEW p \in Ports, port[p].active, port[p].ns, p \notin early,
                      stray[p] = 0
               PROVE  Senders(p) > 0
    BY DEF NoSendersNotLost
  <2>1. port[p].srights > 0
    BY <1>1 DEF RightsInv, PortOK, NoSendersOK
  <2>2. /\ Senders(p) \in Nat /\ port[p].srights = Senders(p) + stray[p]
    BY <1>1, CountsExact
  <2> QED
    BY <2>1, <2>2
<1>2. RightsInv => NoSendersNotLost
  BY <1>1
<1> QED
  BY <1>2, RightsInvariant, PTL
=============================================================================
