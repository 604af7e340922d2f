-------------------------- MODULE ToolPolicyProofs --------------------------
(***************************************************************************)
(* Proofs about how a tool call is judged, for any adapters, responses,    *)
(* policies and arguments: what one more adapter changes, what one more    *)
(* item of a response adds, that the gateway and a framework's wrapper     *)
(* judge the same invocation, that one more field of the arguments never   *)
(* weakens a decision, and which strings a field name finds.               *)
(***************************************************************************)
EXTENDS ToolPolicy, PolicyEngineProofs, SequenceTheorems

Configs == Adapters \cup Range(Defaults)

PickIn(context, found, x) == IF Recognised(x) THEN Append(found, x) ELSE found
ItemsIn(context, found) == found \in Seq(Items)
Picking == INSTANCE FoldLemmas WITH Step <- PickIn, Holds <- ItemsIn

GatherIn(response, calls, slot) == calls \o Candidates(response[slot])
Gathering == INSTANCE FoldLemmas WITH Step <- GatherIn, Holds <- ItemsIn

-----------------------------------------------------------------------------
(* Which adapter comes first.                                              *)

LEMMA AheadOrders ==
    ASSUME NEW adapters \in Seq(Configs), NEW i \in DOMAIN adapters,
           NEW j \in DOMAIN adapters, NEW k \in DOMAIN adapters
    PROVE  /\ ~Ahead(adapters, i, i)
           /\ Ahead(adapters, i, j) /\ Ahead(adapters, j, k) => Ahead(adapters, i, k)
           /\ i # j => Ahead(adapters, i, j) \/ Ahead(adapters, j, i)
<1>1. \A m \in DOMAIN adapters : /\ adapters[m].priority \in Int /\ adapters[m].patterns \in Nat
                                 /\ m \in Nat
  BY AdaptersAssumption DEF Configs
<1> QED BY <1>1 DEF Ahead

First(adapters, fit, i) == i \in fit /\ \A j \in fit \ {i} : Ahead(adapters, i, j)

LEMMA FirstExists ==
    ASSUME NEW adapters \in Seq(Configs), NEW fit \in SUBSET (DOMAIN adapters), fit # {}
    PROVE  \E i \in fit : First(adapters, fit, i)
<1> DEFINE HasFirst(T) == \E i \in T : First(adapters, T, i)
           Bad == {m \in Nat : \E T \in SUBSET (DOMAIN adapters) :
                                  T \subseteq 1..m /\ T # {} /\ ~HasFirst(T)}
<1>1. ASSUME Bad # {} PROVE FALSE
  <2>1. Bad \in SUBSET Nat
    OBVIOUS
  <2>2. PICK m \in Bad : \A k \in Bad : m <= k
    BY ONLY <1>1, <2>1, Picking!Least
  <2>3. PICK T \in SUBSET (DOMAIN adapters) : T \subseteq 1..m /\ T # {} /\ ~HasFirst(T)
    OBVIOUS
  <2>4. m \in Nat /\ m > 0 /\ m - 1 \in Nat /\ m - 1 \notin Bad
    <3>1. m \in Nat /\ m > 0
      BY <2>3
    <3> HIDE DEF Bad
    <3> QED BY <2>2, <3>1
  <2>5. \A U \in SUBSET (DOMAIN adapters) : U \subseteq 1..(m - 1) /\ U # {} => HasFirst(U)
    BY <2>4
  <2>6. T \ {m} \subseteq 1..(m - 1)
    BY <2>3, <2>4
  <2>7. m \in T
    BY <2>3, <2>5, <2>6
  <2>8. T \ {m} # {}
    BY <2>3, <2>7 DEF First
  <2>9. PICK i \in T \ {m} : First(adapters, T \ {m}, i)
    BY <2>5, <2>6, <2>8
  <2>10. CASE Ahead(adapters, i, m)
    BY <2>3, <2>9, <2>10 DEF First
  <2>11. CASE Ahead(adapters, m, i)
    <3>1. \A j \in T \ {m} : Ahead(adapters, m, j)
      BY <2>3, <2>7, <2>9, <2>11, AheadOrders DEF First
    <3> QED BY <2>3, <2>7, <3>1 DEF First
  <2> QED BY <2>3, <2>7, <2>9, <2>10, <2>11, AheadOrders
<1>2. fit \subseteq 1..Len(adapters) /\ Len(adapters) \in Nat
  OBVIOUS
<1> QED BY <1>1, <1>2

LEMMA FirstIsUnique ==
    ASSUME NEW adapters \in Seq(Configs), NEW fit \in SUBSET (DOMAIN adapters),
           NEW i, NEW j, First(adapters, fit, i), First(adapters, fit, j)
    PROVE  i = j
BY AheadOrders DEF First

Fitting(adapters, protocol, name) == {i \in DOMAIN adapters : Fits(adapters[i], protocol, name)}

LEMMA ResolveIsFirst ==
    ASSUME NEW adapters \in Seq(Configs), NEW protocol, NEW name, NEW i,
           First(adapters, Fitting(adapters, protocol, name), i)
    PROVE  Resolve(adapters, protocol, name) = adapters[i]
<1> DEFINE fit == Fitting(adapters, protocol, name)
<1>1. fit # {} /\ fit \in SUBSET (DOMAIN adapters)
  BY DEF First, Fitting
<1>2. \A j : First(adapters, fit, j) => j = i
  BY <1>1, FirstIsUnique
<1>3. (CHOOSE j \in fit : \A k \in fit \ {j} : Ahead(adapters, j, k)) = i
  BY <1>2 DEF First
<1> QED BY <1>1, <1>3 DEF Resolve, Fitting

(* The default adapter fits, whatever else is configured.                  *)
LEMMA SomethingFits ==
    ASSUME NEW added \in Seq(Adapters), NEW protocol, NEW name \in ToolNames
    PROVE  /\ Registered(added) \in Seq(Configs)
           /\ Fitting(Registered(added), protocol, name) # {}
<1>1. PICK all : all = Registered(added)
  OBVIOUS
<1>2. PICK n \in Nat, d \in Nat : n = Len(added) /\ d = Len(Defaults)
  BY AdaptersAssumption
<1>3. added \in Seq(Configs) /\ Defaults \in Seq(Configs)
  BY AdaptersAssumption DEF Configs
<1>4. /\ all \in Seq(Configs) /\ DOMAIN all = 1..(n + d)
      /\ \A i \in 1..d : all[n + i] = Defaults[i]
  <2>1. /\ all \in Seq(Configs) /\ Len(all) = n + d
        /\ \A i \in 1..(n + d) : all[i] = IF i <= n THEN added[i] ELSE Defaults[i - n]
    BY <1>1, <1>2, <1>3, ConcatProperties DEF Registered
  <2> QED BY <1>2, <2>1
<1>5. PICK i \in 1..d : "*" \in Defaults[i].protocols /\ Defaults[i].tools = ToolNames
  BY <1>2, AdaptersAssumption DEF Range
<1>6. n + i \in DOMAIN all /\ all[n + i] = Defaults[i]
  BY <1>4, <1>5
<1>7. Fits(Defaults[i], protocol, name)
  BY <1>5 DEF Fits
<1> QED BY <1>1, <1>4, <1>6, <1>7 DEF Fitting

(* One more custom adapter moves the built-in ones a place down.           *)
LEMMA OneMoreRegistered ==
    ASSUME NEW added \in Seq(Adapters), NEW a \in Adapters, NEW n \in Nat, n = Len(added),
           NEW old, old = Registered(added), NEW new, new = Registered(Append(added, a))
    PROVE  /\ n + 1 \in DOMAIN new /\ new[n + 1] = a
           /\ \A i \in DOMAIN old : i \in 1..n => i \in DOMAIN new /\ new[i] = old[i]
           /\ \A i \in DOMAIN old : i > n => i + 1 \in DOMAIN new /\ new[i + 1] = old[i]
           /\ \A i \in DOMAIN new : i > n + 1 => i - 1 \in DOMAIN old
           /\ \A i \in DOMAIN new : i \in 1..n => i \in DOMAIN old
<1>1. PICK more : more = Append(added, a)
  OBVIOUS
<1>2. PICK d \in Nat : d = Len(Defaults)
  BY AdaptersAssumption
<1>3. added \in Seq(Configs) /\ Defaults \in Seq(Configs) /\ a \in Configs
  BY AdaptersAssumption DEF Configs
<1>4. /\ more \in Seq(Configs) /\ Len(more) = n + 1 /\ more[n + 1] = a
      /\ \A i \in 1..n : more[i] = added[i]
  BY ONLY <1>1, <1>3, n = Len(added), n \in Nat, AppendProperties
<1>5. /\ Len(old) = n + d /\ DOMAIN old = 1..(n + d)
      /\ \A i \in 1..(n + d) : old[i] = IF i <= n THEN added[i] ELSE Defaults[i - n]
  BY <1>2, <1>3, ConcatProperties DEF Registered
<1>6. /\ Len(new) = n + 1 + d /\ DOMAIN new = 1..(n + 1 + d)
      /\ \A i \in 1..(n + 1 + d) : new[i] = IF i <= n + 1 THEN more[i] ELSE Defaults[i - (n + 1)]
  BY <1>1, <1>2, <1>3, <1>4, ConcatProperties DEF Registered
<1> QED BY <1>4, <1>5, <1>6

LEMMA NewAdapterTakesItsOwn ==
    ASSUME NEW added \in Seq(Adapters), NEW a \in Adapters, NEW protocol, NEW name \in ToolNames,
           NEW before, before = Resolve(Registered(added), protocol, name),
           NEW after, after = Resolve(Registered(Append(added, a)), protocol, name),
           after # before
    PROVE  after = a /\ Fits(after, protocol, name) /\ after.priority >= before.priority
<1>1. PICK old, new : old = Registered(added) /\ new = Registered(Append(added, a))
  OBVIOUS
<1>2. PICK n \in Nat : n = Len(added)
  OBVIOUS
<1>3. Append(added, a) \in Seq(Adapters)
  BY AppendProperties
<1>4. /\ old \in Seq(Configs) /\ new \in Seq(Configs)
      /\ Fitting(old, protocol, name) # {} /\ Fitting(new, protocol, name) # {}
  BY <1>1, <1>3, SomethingFits
<1>5. /\ n + 1 \in DOMAIN new /\ new[n + 1] = a
      /\ \A i \in DOMAIN old : i \in 1..n => i \in DOMAIN new /\ new[i] = old[i]
      /\ \A i \in DOMAIN old : i > n => i + 1 \in DOMAIN new /\ new[i + 1] = old[i]
      /\ \A i \in DOMAIN new : i > n + 1 => i - 1 \in DOMAIN old
      /\ \A i \in DOMAIN new : i \in 1..n => i \in DOMAIN old
  BY <1>1, <1>2, OneMoreRegistered
<1> DEFINE fitOld == Fitting(old, protocol, name)
           fitNew == Fitting(new, protocol, name)
           to(i) == IF i > n THEN i + 1 ELSE i
<1>6. DOMAIN old \subseteq Nat \ {0} /\ DOMAIN new \subseteq Nat \ {0}
  BY <1>4
<1>7. \A i \in DOMAIN old : to(i) \in DOMAIN new \ {n + 1} /\ new[to(i)] = old[i]
  BY <1>5, <1>6
<1>8. \A j \in DOMAIN new \ {n + 1} : \E i \in DOMAIN old : to(i) = j
  <2> TAKE j \in DOMAIN new \ {n + 1}
  <2>1. CASE j \in 1..n
    BY <1>5, <2>1
  <2>2. CASE j > n + 1
    BY <1>5, <1>6, <2>2
  <2> QED BY <1>6, <2>1, <2>2
<1>9. \A i, j \in DOMAIN old : i < j <=> to(i) < to(j)
  BY <1>6
<1> HIDE DEF to
<1>10. \A i, j \in DOMAIN old : Ahead(new, to(i), to(j)) <=> Ahead(old, i, j)
  BY <1>7, <1>9 DEF Ahead
<1>11. \A i \in DOMAIN old : to(i) \in fitNew <=> i \in fitOld
  BY <1>7 DEF Fitting
<1>12. PICK i \in fitOld : First(old, fitOld, i)
  BY <1>4, FirstExists DEF Fitting
<1>13. PICK j \in fitNew : First(new, fitNew, j)
  BY <1>4, FirstExists DEF Fitting
<1>14. before = old[i] /\ after = new[j] /\ i \in DOMAIN old /\ j \in DOMAIN new
  BY <1>1, <1>4, <1>12, <1>13, ResolveIsFirst DEF Fitting
<1>15. j = n + 1
  <2> SUFFICES ASSUME j # n + 1 PROVE FALSE
    OBVIOUS
  <2>1. PICK m \in DOMAIN old : to(m) = j
    BY <1>8, <1>14
  <2>2. m \in fitOld
    BY <1>11, <1>13, <2>1
  <2>3. ASSUME NEW k \in fitOld \ {m} PROVE Ahead(old, m, k)
    <3>1. k \in DOMAIN old /\ to(k) \in fitNew
      BY <1>11 DEF Fitting
    <3>2. k < m \/ m < k
      BY <1>6, <2>1, <3>1
    <3>3. to(k) # to(m)
      <4>1. to(k) \in Nat /\ to(m) \in Nat
        BY <1>6, <1>7, <2>1, <3>1
      <4> QED BY <1>9, <2>1, <3>1, <3>2, <4>1
    <3>4. Ahead(new, j, to(k))
      BY <1>13, <2>1, <3>1, <3>3 DEF First
    <3> QED BY <1>10, <2>1, <3>1, <3>4
  <2>4. First(old, fitOld, m)
    BY <2>2, <2>3 DEF First
  <2>5. m = i
    BY <1>4, <1>12, <2>4, FirstIsUnique DEF Fitting
  <2> QED BY <1>7, <1>14, <2>1, <2>5
<1>16. after = a /\ Fits(after, protocol, name)
  BY <1>5, <1>13, <1>14, <1>15 DEF Fitting
<1>17. Ahead(new, j, to(i))
  BY <1>7, <1>11, <1>12, <1>13, <1>14, <1>15 DEF First
<1>18. after.priority >= before.priority
  <2>1. new[to(i)] = before
    BY <1>7, <1>14
  <2>2. after.priority \in Int /\ before.priority \in Int
    BY <1>4, <1>14, AdaptersAssumption DEF Configs
  <2> QED BY <1>14, <1>17, <2>1, <2>2 DEF Ahead
<1> QED BY <1>16, <1>18

-----------------------------------------------------------------------------
(* Configurations and responses.                                           *)

SlotNames == {Slots[i] : i \in DOMAIN Slots}

RegistryInv ==
    /\ custom \in Seq(Adapters)
    /\ items \in [SlotNames -> Seq(Items)]

LEMMA InitRegistryInv == Init => RegistryInv
BY DEF Init, RegistryInv, SlotNames

LEMMA NextRegistryInv == RegistryInv /\ [Next]_vars => RegistryInv'
<1> SUFFICES ASSUME RegistryInv, [Next]_vars PROVE RegistryInv'
  OBVIOUS
<1>1. CASE Configure
  BY <1>1, AppendProperties DEF Configure, RegistryInv
<1>2. CASE Carry
  <2>1. PICK x \in Items : items' = [items EXCEPT ![x.slot] = Append(@, x)] /\ custom' = custom
    BY <1>2 DEF Carry
  <2>2. x.slot \in SlotNames
    BY RegistryAssumption DEF SlotNames
  <2>3. Append(items[x.slot], x) \in Seq(Items)
    BY <2>2, AppendProperties DEF RegistryInv
  <2> QED BY <2>1, <2>2, <2>3 DEF RegistryInv
<1>3. CASE UNCHANGED vars
  BY <1>3 DEF vars, RegistryInv
<1> QED BY <1>1, <1>2, <1>3 DEF Next

LEMMA RegistryInvHolds == Spec => []RegistryInv
BY InitRegistryInv, NextRegistryInv, PTL DEF Spec

(* The arguments are varied beside the registry.                           *)
LEMMA ArgumentsApart == PolicySpec => Spec
<1>1. PolicyInit => Init
  BY DEF PolicyInit
<1>2. [PolicyNext]_<<vars, arguments>> => [Next]_vars
  BY DEF PolicyNext, AddField, Respond, Next, vars
<1> QED BY <1>1, <1>2, PTL DEF PolicySpec, Spec

(* A configured adapter takes over only what it fits and outranks the      *)
(* built-in and the earlier ones for.                                      *)
THEOREM AnAdapterIsLocal == PolicySpec => AnAdapterTakesOnlyItsOwn
<1>1. ASSUME RegistryInv, [Next]_vars, custom' # custom,
             NEW protocol \in Protocols, NEW name \in ToolNames,
             NEW before, before = Resolve(Registered(custom), protocol, name),
             NEW after, after = Resolve(Registered(custom'), protocol, name),
             after # before
      PROVE  /\ after = Last(custom') /\ Fits(after, protocol, name)
             /\ after.priority >= before.priority
  <2>1. PICK a \in Adapters : custom' = Append(custom, a)
    BY <1>1 DEF Next, vars, Configure, Carry
  <2>2. Last(custom') = a
    BY <1>1, <2>1, AppendProperties DEF Last, RegistryInv
  <2> QED BY <1>1, <2>1, <2>2, NewAdapterTakesItsOwn DEF RegistryInv
<1>2. RegistryInv /\ [Next]_vars =>
        [custom' # custom => \A protocol \in Protocols, name \in ToolNames :
            LET before == Resolve(Registered(custom), protocol, name)
                after  == Resolve(Registered(custom'), protocol, name)
            IN  after # before =>
                   /\ after = Last(custom') /\ Fits(after, protocol, name)
                   /\ after.priority >= before.priority]_vars
  BY <1>1
<1> QED BY <1>2, RegistryInvHolds, ArgumentsApart, PTL DEF Spec, AnAdapterTakesOnlyItsOwn

-----------------------------------------------------------------------------
(* What is extracted from a response.                                      *)

LEMMA CandidatesAreFolded ==
    ASSUME NEW seq
    PROVE  Candidates(seq) = Picking!Folded(<<>>, <<>>, seq)
BY DEF Candidates, PickIn, Picking!Folded, FoldLeft, MapThenFoldSet, Max,
       Picking!FoldLeft, Picking!MapThenFoldSet, Picking!Max

LEMMA CandidatesOfMore ==
    ASSUME NEW seq \in Seq(Items), NEW x \in Items
    PROVE  Candidates(Append(seq, x)) =
              IF Recognised(x) THEN Append(Candidates(seq), x) ELSE Candidates(seq)
<1>1. Picking!Folded(<<>>, <<>>, Append(seq, x))
        = PickIn(<<>>, Picking!Folded(<<>>, <<>>, seq), x)
  BY Picking!FoldAppend
<1> QED BY <1>1, CandidatesAreFolded DEF PickIn

LEMMA CandidatesAreItems ==
    ASSUME NEW seq \in Seq(Items)
    PROVE  Candidates(seq) \in Seq(Items)
<1>1. ItemsIn(<<>>, <<>>)
  BY DEF ItemsIn
<1>2. ASSUME NEW k \in 1..Len(seq), NEW found, ItemsIn(<<>>, found)
      PROVE  ItemsIn(<<>>, PickIn(<<>>, found, seq[k]))
  <2>1. seq[k] \in Items /\ found \in Seq(Items)
    BY <1>2 DEF ItemsIn
  <2>2. Append(found, seq[k]) \in Seq(Items)
    BY <2>1, AppendProperties
  <2> QED BY <2>1, <2>2 DEF ItemsIn, PickIn
<1>3. ItemsIn(<<>>, Picking!Folded(<<>>, <<>>, seq))
  BY <1>1, <1>2, Picking!FoldHolds
<1> QED BY <1>3, CandidatesAreFolded DEF ItemsIn

Found(response) ==
    FoldLeft(LAMBDA calls, slot : calls \o Candidates(response[slot]), <<>>, Slots)

LEMMA SlotsFacts ==
    /\ Slots \in Seq(SlotNames) /\ Len(Slots) = 6 /\ DOMAIN Slots = 1..6
    /\ \A i, j \in 1..6 : Slots[i] = Slots[j] => i = j
BY DEF Slots, SlotNames

(* The calls are gathered slot by slot.                                    *)
Steps(f, response) ==
    /\ f \in [0..6 -> Seq(Items)] /\ f[0] = <<>> /\ f[6] = Found(response)
    /\ \A k \in 1..6 : f[k] = f[k - 1] \o Candidates(response[Slots[k]])

LEMMA FoundInSteps ==
    ASSUME NEW response \in [SlotNames -> Seq(Items)]
    PROVE  \E f : Steps(f, response)
<1>1. Found(response) = Gathering!Folded(response, <<>>, Slots)
  BY DEF Found, GatherIn, Gathering!Folded, FoldLeft, MapThenFoldSet, Max,
         Gathering!FoldLeft, Gathering!MapThenFoldSet, Gathering!Max
<1>2. PICK h : /\ h[0] = <<>> /\ h[Len(Slots)] = Gathering!Folded(response, <<>>, Slots)
               /\ \A k \in 1..Len(Slots) : h[k] = GatherIn(response, h[k - 1], Slots[k])
  <2>1. Slots \in Seq(SlotNames)
    BY SlotsFacts
  <2> QED BY ONLY <2>1, Gathering!FoldSteps
<1>3. \A k \in 1..6 : h[k] = h[k - 1] \o Candidates(response[Slots[k]])
  BY <1>2, SlotsFacts DEF GatherIn
<1>4. \A k \in 1..6 : Candidates(response[Slots[k]]) \in Seq(Items)
  <2>1. \A k \in 1..6 : Slots[k] \in SlotNames
    BY SlotsFacts DEF SlotNames
  <2> QED BY <2>1, CandidatesAreItems
<1>5. h[0] \in Seq(Items) /\ \A k \in 1..6 : h[k - 1] \in Seq(Items) => h[k] \in Seq(Items)
  <2>1. <<>> \in Seq(Items)
    OBVIOUS
  <2>2. ASSUME NEW k \in 1..6, h[k - 1] \in Seq(Items) PROVE h[k] \in Seq(Items)
    BY <1>3, <1>4, <2>2, ConcatProperties
  <2> QED BY <1>2, <2>1, <2>2
<1>6. \A k \in 0..6 : h[k] \in Seq(Items)
  <2>1. h[1] \in Seq(Items) /\ h[2] \in Seq(Items) /\ h[3] \in Seq(Items)
    BY <1>5
  <2>2. h[4] \in Seq(Items) /\ h[5] \in Seq(Items) /\ h[6] \in Seq(Items)
    BY <1>5, <2>1
  <2>3. \A k \in 0..6 : k = 0 \/ k = 1 \/ k = 2 \/ k = 3 \/ k = 4 \/ k = 5 \/ k = 6
    OBVIOUS
  <2> QED BY <1>5, <2>1, <2>2, <2>3
<1>7. PICK f : f = [k \in 0..6 |-> h[k]]
  OBVIOUS
<1>8. f \in [0..6 -> Seq(Items)] /\ f[0] = <<>> /\ f[6] = Found(response)
  BY <1>1, <1>2, <1>6, <1>7, SlotsFacts
<1>9. \A k \in 1..6 : f[k] = h[k] /\ f[k - 1] = h[k - 1]
  <2>1. \A k \in 1..6 : k \in 0..6 /\ k - 1 \in 0..6
    OBVIOUS
  <2> QED BY <1>7, <2>1
<1>10. \A k \in 1..6 : f[k] = f[k - 1] \o Candidates(response[Slots[k]])
  BY <1>3, <1>9
<1> QED BY <1>8, <1>10 DEF Steps

(* t is s with x put in at i.                                              *)
PutIn(s, t, x, i) ==
    /\ Len(t) = Len(s) + 1 /\ i \in 1..Len(t) /\ t[i] = x
    /\ \A j \in 1..Len(s) : t[IF j < i THEN j ELSE j + 1] = s[j]

LEMMA PutAtEnd ==
    ASSUME NEW S, NEW s \in Seq(S), NEW x \in S
    PROVE  PutIn(s, Append(s, x), x, Len(s) + 1)
<1>1. PICK n \in Nat : n = Len(s)
  OBVIOUS
<1>2. PICK t : t = Append(s, x)
  OBVIOUS
<1>3. Len(t) = n + 1 /\ t[n + 1] = x /\ \A j \in 1..n : t[j] = s[j]
  BY ONLY s \in Seq(S), x \in S, <1>1, <1>2, AppendProperties
<1>4. \A j \in 1..n : (IF j < n + 1 THEN j ELSE j + 1) = j
  OBVIOUS
<1> QED BY <1>1, <1>2, <1>3, <1>4 DEF PutIn

LEMMA PutBefore ==
    ASSUME NEW S, NEW s \in Seq(S), NEW t \in Seq(S), NEW u \in Seq(S), NEW x,
           NEW i, PutIn(s, t, x, i)
    PROVE  PutIn(s \o u, t \o u, x, i)
<1>1. PICK m \in Nat, n \in Nat : m = Len(s) /\ n = Len(u) /\ Len(t) = m + 1
  BY DEF PutIn
<1>2. i \in 1..(m + 1) /\ t[i] = x /\ \A j \in 1..m : t[IF j < i THEN j ELSE j + 1] = s[j]
  BY <1>1 DEF PutIn
<1>3. PICK a, b : a = s \o u /\ b = t \o u
  OBVIOUS
<1>4. Len(a) = m + n /\ \A j \in 1..(m + n) : a[j] = IF j <= m THEN s[j] ELSE u[j - m]
  BY <1>1, <1>3, ConcatProperties
<1>5. /\ Len(b) = m + 1 + n
      /\ \A j \in 1..(m + 1 + n) : b[j] = IF j <= m + 1 THEN t[j] ELSE u[j - (m + 1)]
  <2>1. PICK l \in Nat : l = m + 1
    OBVIOUS
  <2>2. Len(b) = l + n /\ \A j \in 1..(l + n) : b[j] = IF j <= l THEN t[j] ELSE u[j - l]
    BY <1>1, <1>3, <2>1, ConcatProperties
  <2> QED BY <2>1, <2>2
<1>6. b[i] = x /\ i \in 1..(m + 1 + n)
  BY <1>2, <1>5
<1>7. ASSUME NEW j \in 1..(m + n) PROVE b[IF j < i THEN j ELSE j + 1] = a[j]
  <2>1. CASE j <= m
    <3>1. PICK k \in Nat : k = IF j < i THEN j ELSE j + 1
      OBVIOUS
    <3>2. k \in 1..(m + 1) /\ k \in 1..(m + 1 + n) /\ k <= m + 1
      BY <2>1, <3>1
    <3>3. b[k] = t[k] /\ a[j] = s[j]
      BY <1>4, <1>5, <2>1, <3>2
    <3>4. t[k] = s[j]
      BY <1>2, <2>1, <3>1
    <3> QED BY <3>1, <3>3, <3>4
  <2>2. CASE j > m
    <3>1. ~(j < i) /\ j + 1 \in 1..(m + 1 + n) /\ ~(j + 1 <= m + 1)
      BY <1>2, <2>2
    <3>2. (j + 1) - (m + 1) = j - m
      OBVIOUS
    <3>3. b[j + 1] = u[j - m]
      BY <1>5, <3>1, <3>2
    <3>4. a[j] = u[j - m]
      BY <1>4, <2>2
    <3> QED BY <3>1, <3>3, <3>4
  <2> QED BY <2>1, <2>2
<1>8. Len(b) = Len(a) + 1
  BY <1>4, <1>5
<1> QED BY <1>3, <1>4, <1>5, <1>6, <1>7, <1>8 DEF PutIn

LEMMA PutAfter ==
    ASSUME NEW S, NEW s \in Seq(S), NEW t \in Seq(S), NEW u \in Seq(S), NEW x,
           NEW i, PutIn(s, t, x, i)
    PROVE  PutIn(u \o s, u \o t, x, Len(u) + i)
<1>1. PICK m \in Nat, n \in Nat : m = Len(s) /\ n = Len(u) /\ Len(t) = m + 1
  BY DEF PutIn
<1>2. i \in 1..(m + 1) /\ t[i] = x /\ \A j \in 1..m : t[IF j < i THEN j ELSE j + 1] = s[j]
  BY <1>1 DEF PutIn
<1>3. PICK a, b : a = u \o s /\ b = u \o t
  OBVIOUS
<1>4. Len(a) = n + m /\ \A j \in 1..(n + m) : a[j] = IF j <= n THEN u[j] ELSE s[j - n]
  BY <1>1, <1>3, ConcatProperties
<1>5. /\ Len(b) = n + m + 1
      /\ \A j \in 1..(n + m + 1) : b[j] = IF j <= n THEN u[j] ELSE t[j - n]
  <2>1. PICK l \in Nat : l = m + 1
    OBVIOUS
  <2>2. Len(b) = n + l /\ \A j \in 1..(n + l) : b[j] = IF j <= n THEN u[j] ELSE t[j - n]
    <3>1. l = Len(t) /\ n = Len(u)
      BY <1>1, <2>1
    <3> QED BY ONLY <1>3, <3>1, t \in Seq(S), u \in Seq(S), ConcatProperties
  <2>3. n + l = n + m + 1
    BY <2>1
  <2> QED BY <2>2, <2>3
<1>6. b[n + i] = x /\ n + i \in 1..(n + m + 1)
  <2>1. n + i \in 1..(n + m + 1) /\ ~(n + i <= n) /\ (n + i) - n = i
    BY <1>2
  <2> QED BY <1>2, <1>5, <2>1
<1>7. ASSUME NEW j \in 1..(n + m) PROVE b[IF j < n + i THEN j ELSE j + 1] = a[j]
  <2>1. CASE j <= n
    <3>1. j < n + i /\ j \in 1..(n + m + 1)
      BY <1>2, <2>1
    <3> QED BY <1>4, <1>5, <2>1, <3>1
  <2>2. CASE j > n
    <3>1. PICK k \in 1..m : j = n + k
      <4>1. j - n \in 1..m /\ j = n + (j - n)
        BY <2>2
      <4> QED BY <4>1
    <3>2. a[j] = s[k]
      <4>1. ~(n + k <= n) /\ (n + k) - n = k
        OBVIOUS
      <4> QED BY <1>4, <3>1, <4>1
    <3>3. CASE k < i
      <4>1. j < n + i /\ j \in 1..(n + m + 1) /\ ~(j <= n) /\ j - n = k
        BY <1>2, <3>1, <3>3
      <4>2. b[j] = t[k] /\ t[k] = s[k]
        BY <1>2, <1>5, <3>3, <4>1
      <4> QED BY <3>2, <4>1, <4>2
    <3>4. CASE ~(k < i)
      <4>1. ~(j < n + i) /\ j + 1 \in 1..(n + m + 1) /\ ~(j + 1 <= n) /\ (j + 1) - n = k + 1
        BY <1>2, <3>1, <3>4
      <4>2. b[j + 1] = t[k + 1] /\ t[k + 1] = s[k]
        BY <1>2, <1>5, <3>4, <4>1
      <4> QED BY <3>2, <4>1, <4>2
    <3> QED BY <3>3, <3>4
  <2> QED BY <2>1, <2>2
<1>8. Len(b) = Len(a) + 1
  BY <1>4, <1>5
<1> QED BY <1>1, <1>3, <1>4, <1>5, <1>6, <1>7, <1>8 DEF PutIn

LEMMA PutInIsRemoved ==
    ASSUME NEW S, NEW s \in Seq(S), NEW t \in Seq(S), NEW x, NEW i, PutIn(s, t, x, i)
    PROVE  RemoveAt(t, i) = s
<1>1. PICK n \in Nat : n = Len(s) /\ Len(t) = n + 1
  BY DEF PutIn
<1>2. i \in 1..(n + 1) /\ \A j \in 1..n : t[IF j < i THEN j ELSE j + 1] = s[j]
  BY <1>1 DEF PutIn
<1>3. PICK a, b : a = SubSeq(t, 1, i - 1) /\ b = SubSeq(t, i + 1, n + 1)
  OBVIOUS
<1>4. PICK m \in 0..n : i = m + 1
  <2>1. i - 1 \in 0..n /\ i = (i - 1) + 1
    BY <1>2
  <2> QED BY <2>1
<1>5. a \in Seq(S) /\ Len(a) = m /\ \A j \in 1..m : a[j] = s[j]
  <2>1. 1 \in 1..(n + 2) /\ m \in (1 - 1)..(n + 1) /\ i - 1 = m
    BY <1>4
  <2>2. a \in Seq(S) /\ Len(a) = m /\ \A j \in 1..m : a[j] = t[j]
    BY <1>1, <1>3, <2>1, SubSeqProperties
  <2>3. \A j \in 1..m : j \in 1..n /\ j < i
    BY <1>4
  <2> QED BY <1>2, <2>2, <2>3
<1>6. b \in Seq(S) /\ Len(b) = n - m /\ \A j \in 1..(n - m) : b[j] = s[m + j]
  <2>1. i + 1 = m + 2 /\ m + 2 \in 1..(n + 2) /\ n + 1 \in ((m + 2) - 1)..(n + 1)
    BY <1>4
  <2>2. /\ b \in Seq(S) /\ Len(b) = n - m
        /\ \A j \in 1..(n - m) : b[j] = t[(m + 2) + j - 1]
    BY <1>1, <1>3, <2>1, SubSeqProperties
  <2>3. \A j \in 1..(n - m) : m + j \in 1..n /\ ~(m + j < i) /\ (m + 2) + j - 1 = (m + j) + 1
    BY <1>4
  <2> QED BY <1>2, <2>2, <2>3
<1>7. PICK c : c = a \o b
  OBVIOUS
<1>8. c \in Seq(S) /\ Len(c) = n /\ \A j \in 1..n : c[j] = s[j]
  <2>1. /\ c \in Seq(S) /\ Len(c) = m + (n - m)
        /\ \A j \in 1..(m + (n - m)) : c[j] = IF j <= m THEN a[j] ELSE b[j - m]
    BY <1>5, <1>6, <1>7, ConcatProperties
  <2>2. m + (n - m) = n
    OBVIOUS
  <2>3. \A j \in 1..n : j > m => j - m \in 1..(n - m) /\ m + (j - m) = j
    OBVIOUS
  <2>4. ASSUME NEW j \in 1..n PROVE c[j] = s[j]
    <3>1. CASE j <= m
      BY <1>5, <2>1, <2>2, <3>1
    <3>2. CASE j > m
      <4>1. c[j] = b[j - m]
        BY <2>1, <2>2, <3>2
      <4> QED BY <1>6, <2>3, <3>2, <4>1
    <3> QED BY <3>1, <3>2
  <2> QED BY <2>1, <2>2, <2>4
<1>9. c = s
  BY <1>1, <1>8, SeqEqual
<1> QED BY <1>1, <1>3, <1>7, <1>9 DEF RemoveAt

(* One more item in the response is put in among those that are judged, if *)
(* its extractor recognises it.                                            *)
LEMMA OneMoreFound ==
    ASSUME NEW response \in [SlotNames -> Seq(Items)], NEW x \in Items,
           NEW more, more = [response EXCEPT ![x.slot] = Append(@, x)]
    PROVE  /\ more \in [SlotNames -> Seq(Items)]
           /\ IF Recognised(x) THEN \E i : PutIn(Found(response), Found(more), x, i)
                               ELSE Found(more) = Found(response)
<1>1. x.slot \in SlotNames /\ Append(response[x.slot], x) \in Seq(Items)
  <2>1. x.slot \in SlotNames
    BY RegistryAssumption DEF SlotNames
  <2> QED BY <2>1, AppendProperties
<1>2. more \in [SlotNames -> Seq(Items)]
  BY <1>1
<1>3. PICK p \in 1..6 : Slots[p] = x.slot
  BY <1>1, SlotsFacts DEF SlotNames
<1>4. PICK f : Steps(f, response)
  BY FoundInSteps
<1>5. PICK g : Steps(g, more)
  BY <1>2, FoundInSteps
<1> DEFINE old(k) == Candidates(response[Slots[k]])
           new(k) == Candidates(more[Slots[k]])
           Hidden(k) == k < p \/ ~Recognised(x)
           Related(k) == /\ Hidden(k) => g[k] = f[k]
                         /\ ~Hidden(k) => \E i : PutIn(f[k], g[k], x, i)
<1>6. ASSUME NEW k \in 1..6
      PROVE  /\ old(k) \in Seq(Items) /\ f[k - 1] \in Seq(Items) /\ g[k - 1] \in Seq(Items)
             /\ new(k) \in Seq(Items) /\ f[k] = f[k - 1] \o old(k) /\ g[k] = g[k - 1] \o new(k)
             /\ k = p /\ Recognised(x) => new(k) = Append(old(k), x)
             /\ k # p \/ ~Recognised(x) => new(k) = old(k)
  <2>1. Slots[k] \in SlotNames /\ k - 1 \in 0..6
    BY SlotsFacts DEF SlotNames
  <2>2. old(k) \in Seq(Items) /\ new(k) \in Seq(Items)
    BY <1>2, <2>1, CandidatesAreItems
  <2>3. k # p => more[Slots[k]] = response[Slots[k]]
    BY <1>3, <2>1, SlotsFacts
  <2>4. k = p => more[Slots[k]] = Append(response[Slots[k]], x)
    BY <1>1, <1>3
  <2>5. response[Slots[k]] \in Seq(Items)
    BY <2>1
  <2>6. k = p /\ Recognised(x) => new(k) = Append(old(k), x)
    BY <2>4, <2>5, CandidatesOfMore
  <2>7. k # p \/ ~Recognised(x) => new(k) = old(k)
    BY <2>3, <2>4, <2>5, CandidatesOfMore
  <2>8. f[k - 1] \in Seq(Items) /\ g[k - 1] \in Seq(Items)
    BY <1>4, <1>5, <2>1 DEF Steps
  <2>9. f[k] = f[k - 1] \o old(k) /\ g[k] = g[k - 1] \o new(k)
    BY <1>4, <1>5 DEF Steps
  <2> QED BY <2>2, <2>6, <2>7, <2>8, <2>9
<1> HIDE DEF old, new
<1>7. ASSUME NEW k \in 1..6, Related(k - 1) PROVE Related(k)
  <2>1. CASE Hidden(k)
    <3>1. Hidden(k - 1)
      BY <2>1
    <3>2. g[k - 1] = f[k - 1] /\ new(k) = old(k)
      <4>1. k # p \/ ~Recognised(x)
        BY <2>1
      <4>2. new(k) = old(k)
        BY <1>6, <4>1
      <4>3. g[k - 1] = f[k - 1]
        <5> HIDE DEF Hidden
        <5> QED BY <1>7, <3>1
      <4> QED BY <4>2, <4>3
    <3>3. g[k] = f[k]
      BY <1>6, <3>2
    <3> QED BY <2>1, <3>3
  <2>2. CASE k = p /\ Recognised(x)
    <3>1. Hidden(k - 1)
      BY <2>2
    <3>2. g[k - 1] = f[k - 1] /\ new(k) = Append(old(k), x)
      BY <1>6, <1>7, <2>2, <3>1
    <3>3. PutIn(old(k), new(k), x, Len(old(k)) + 1)
      BY <1>6, <3>2, PutAtEnd
    <3>4. PutIn(f[k - 1] \o old(k), f[k - 1] \o new(k), x, Len(f[k - 1]) + (Len(old(k)) + 1))
      BY <1>6, <3>3, PutAfter
    <3>5. \E i : PutIn(f[k], g[k], x, i)
      BY <1>6, <3>2, <3>4
    <3>6. ~Hidden(k)
      BY <2>2
    <3> HIDE DEF Hidden
    <3> QED BY <3>5, <3>6
  <2>3. CASE k > p /\ Recognised(x)
    <3>1. ~Hidden(k - 1) /\ ~Hidden(k) /\ k # p
      BY <2>3
    <3>2. PICK i : PutIn(f[k - 1], g[k - 1], x, i)
      BY <1>7, <3>1
    <3>3. new(k) = old(k)
      BY <1>6, <3>1
    <3>4. PutIn(f[k - 1] \o old(k), g[k - 1] \o old(k), x, i)
      BY <1>6, <3>2, PutBefore
    <3>5. \E j : PutIn(f[k], g[k], x, j)
      BY <1>6, <3>3, <3>4
    <3> HIDE DEF Hidden
    <3> QED BY <3>1, <3>5
  <2> QED BY <2>1, <2>2, <2>3
<1>8. Related(0)
  <2>1. Hidden(0) /\ g[0] = f[0]
    BY <1>4, <1>5 DEF Steps
  <2> HIDE DEF Hidden
  <2> QED BY <2>1
<1>9. Related(6)
  <2> HIDE DEF Related
  <2>1. \A k \in 1..6 : Related(k - 1) => Related(k)
    BY <1>7
  <2>2. Related(1 - 1) /\ 1 - 1 = 0 /\ 2 - 1 = 1 /\ 3 - 1 = 2 /\ 4 - 1 = 3 /\ 5 - 1 = 4 /\ 6 - 1 = 5
    BY <1>8
  <2>3. Related(1) /\ Related(2) /\ Related(3)
    BY <2>1, <2>2
  <2> QED BY <2>1, <2>2, <2>3
<1>10. f[6] = Found(response) /\ g[6] = Found(more)
  BY <1>4, <1>5 DEF Steps
<1>11. ~Recognised(x) => Hidden(6)
  OBVIOUS
<1>12. Recognised(x) => ~Hidden(6)
  OBVIOUS
<1> HIDE DEF Hidden
<1> QED BY <1>2, <1>9, <1>10, <1>11, <1>12

(* How the gateway judges an item.                                         *)
Heard(adapters, x) == Normalize(adapters, Protocol(x), x.name, Parse(x.args))

HeardAll(adapters, found) == [i \in DOMAIN found |-> Heard(adapters, found[i])]

LEMMA ExtractedIsHeard ==
    ASSUME NEW adapters, NEW response
    PROVE  ExtractToolCalls(adapters, response) = HeardAll(adapters, Found(response))
BY DEF ExtractToolCalls, HeardAll, Heard, Found

LEMMA FoundAreItems ==
    ASSUME NEW response \in [SlotNames -> Seq(Items)]
    PROVE  Found(response) \in Seq(Items)
<1>1. PICK f : Steps(f, response)
  BY FoundInSteps
<1>2. f[6] \in Seq(Items)
  BY <1>1 DEF Steps
<1> QED BY <1>1, <1>2 DEF Steps

LEMMA HeardPutIn ==
    ASSUME NEW adapters, NEW s \in Seq(Items), NEW t \in Seq(Items), NEW x, NEW i,
           PutIn(s, t, x, i)
    PROVE  /\ i \in DOMAIN HeardAll(adapters, t)
           /\ HeardAll(adapters, t)[i] = Heard(adapters, x)
           /\ RemoveAt(HeardAll(adapters, t), i) = HeardAll(adapters, s)
<1>1. PICK n \in Nat : n = Len(s) /\ Len(t) = n + 1
  BY DEF PutIn
<1>2. /\ i \in 1..(n + 1) /\ t[i] = x
      /\ \A j \in 1..n : t[IF j < i THEN j ELSE j + 1] = s[j]
  BY <1>1 DEF PutIn
<1>3. PICK H : H = {Heard(adapters, y) : y \in Items}
  OBVIOUS
<1>4. PICK a, b : a = HeardAll(adapters, s) /\ b = HeardAll(adapters, t)
  OBVIOUS
<1>5. /\ a \in Seq(H) /\ Len(a) = n /\ \A j \in 1..n : a[j] = Heard(adapters, s[j])
  <2>1. DOMAIN s = 1..n /\ \A j \in 1..n : s[j] \in Items
    BY <1>1
  <2>2. a \in [1..n -> H] /\ \A j \in 1..n : a[j] = Heard(adapters, s[j])
    BY <1>3, <1>4, <2>1 DEF HeardAll
  <2> QED BY <2>2
<1>6. b \in Seq(H) /\ Len(b) = n + 1 /\ \A j \in 1..(n + 1) : b[j] = Heard(adapters, t[j])
  <2>1. DOMAIN t = 1..(n + 1) /\ \A j \in 1..(n + 1) : t[j] \in Items
    BY <1>1
  <2>2. b \in [1..(n + 1) -> H] /\ \A j \in 1..(n + 1) : b[j] = Heard(adapters, t[j])
    BY <1>3, <1>4, <2>1 DEF HeardAll
  <2> QED BY <2>2
<1>7. i \in DOMAIN b /\ b[i] = Heard(adapters, x)
  BY <1>2, <1>6
<1>8. PutIn(a, b, Heard(adapters, x), i)
  <2>1. ASSUME NEW j \in 1..n PROVE b[IF j < i THEN j ELSE j + 1] = a[j]
    <3>1. PICK k \in Nat : k = IF j < i THEN j ELSE j + 1
      OBVIOUS
    <3>2. k \in 1..(n + 1) /\ t[k] = s[j]
      BY <1>2, <3>1
    <3> QED BY <1>5, <1>6, <3>1, <3>2
  <2> QED BY <1>2, <1>5, <1>6, <1>7, <2>1 DEF PutIn
<1>9. RemoveAt(b, i) = a
  BY <1>5, <1>6, <1>8, PutInIsRemoved
<1> QED BY <1>4, <1>7, <1>9

LEMMA HeardByItsProtocol ==
    ASSUME NEW adapters, NEW x \in Items
    PROVE  Heard(adapters, x).protocol = Protocol(x)
<1>1. Protocol(x) # ""
  <2>1. PICK i \in 1..6 : x.slot = Slots[i]
    BY RegistryAssumption, SlotsFacts
  <2>2. /\ Slots[1] # "" /\ Slots[2] # "" /\ Slots[3] # ""
        /\ Slots[4] # "" /\ Slots[5] # "" /\ Slots[6] # ""
    BY DEF Slots
  <2>3. i = 1 \/ i = 2 \/ i = 3 \/ i = 4 \/ i = 5 \/ i = 6
    OBVIOUS
  <2>4. x.slot # ""
    BY <2>1, <2>2, <2>3
  <2> QED BY <2>4 DEF Protocol
<1> QED BY <1>1 DEF Heard, Normalize

LEMMA TheItemCarried ==
    ASSUME RegistryInv, NEW x \in Items, items' = [items EXCEPT ![x.slot] = Append(@, x)]
    PROVE  x = CHOOSE y \in Items : \E slot \in DOMAIN items :
                  items'[slot] = Append(items[slot], y)
<1>1. x.slot \in SlotNames /\ DOMAIN items = SlotNames
  BY RegistryAssumption DEF RegistryInv, SlotNames
<1>2. items'[x.slot] = Append(items[x.slot], x)
  BY <1>1 DEF RegistryInv
<1>3. ASSUME NEW y \in Items, NEW slot \in SlotNames, items'[slot] = Append(items[slot], y)
      PROVE  y = x
  <2>1. PICK s \in Seq(Items), n \in Nat : s = items[slot] /\ n = Len(s)
    BY DEF RegistryInv
  <2>2. Len(Append(s, y)) = n + 1 /\ Append(s, y)[n + 1] = y
    BY <2>1, AppendProperties
  <2>3. slot = x.slot
    <3> SUFFICES ASSUME slot # x.slot PROVE FALSE
      OBVIOUS
    <3>1. items'[slot] = s
      BY <1>1, <2>1 DEF RegistryInv
    <3> QED BY <1>3, <2>1, <2>2, <3>1
  <2>4. Len(Append(s, x)) = n + 1 /\ Append(s, x)[n + 1] = x
    BY <2>1, AppendProperties
  <2> QED BY <1>2, <1>3, <2>1, <2>2, <2>3, <2>4
<1> QED BY <1>1, <1>2, <1>3

(* What one more item stands for is judged in addition, and nothing else   *)
(* is judged otherwise, whichever of the shapes the response mixes.        *)
THEOREM AnItemHidesNothing == PolicySpec => AnItemAddsItsCall
<1>1. ASSUME RegistryInv, [Next]_vars, items' # items
      PROVE  LET before == ExtractToolCalls(Registered(custom), items)
                 after  == ExtractToolCalls(Registered(custom), items')
                 x == CHOOSE y \in Items : \E slot \in DOMAIN items :
                         items'[slot] = Append(items[slot], y)
             IN  IF Recognised(x)
                 THEN \E i \in DOMAIN after :
                         /\ RemoveAt(after, i) = before
                         /\ after[i].protocol = Protocol(x)
                 ELSE after = before
  <2>1. PICK x \in Items : items' = [items EXCEPT ![x.slot] = Append(@, x)]
    BY <1>1 DEF Next, vars, Configure, Carry
  <2>2. x = CHOOSE y \in Items : \E slot \in DOMAIN items :
               items'[slot] = Append(items[slot], y)
    BY <1>1, <2>1, TheItemCarried
  <2>3. PICK adapters, more : adapters = Registered(custom) /\ more = items'
    OBVIOUS
  <2>4. items \in [SlotNames -> Seq(Items)] /\ more = [items EXCEPT ![x.slot] = Append(@, x)]
    BY <1>1, <2>1, <2>3 DEF RegistryInv
  <2>5. /\ more \in [SlotNames -> Seq(Items)]
        /\ IF Recognised(x) THEN \E i : PutIn(Found(items), Found(more), x, i)
                            ELSE Found(more) = Found(items)
    BY <2>4, OneMoreFound
  <2>6. /\ ExtractToolCalls(adapters, items) = HeardAll(adapters, Found(items))
        /\ ExtractToolCalls(adapters, more) = HeardAll(adapters, Found(more))
    BY ExtractedIsHeard
  <2>7. ASSUME Recognised(x)
        PROVE  \E i \in DOMAIN HeardAll(adapters, Found(more)) :
                  /\ RemoveAt(HeardAll(adapters, Found(more)), i)
                        = HeardAll(adapters, Found(items))
                  /\ HeardAll(adapters, Found(more))[i].protocol = Protocol(x)
    <3>1. PICK i : PutIn(Found(items), Found(more), x, i)
      BY <2>5, <2>7
    <3>2. Found(items) \in Seq(Items) /\ Found(more) \in Seq(Items)
      BY <2>4, <2>5, FoundAreItems
    <3>3. /\ i \in DOMAIN HeardAll(adapters, Found(more))
          /\ HeardAll(adapters, Found(more))[i] = Heard(adapters, x)
          /\ RemoveAt(HeardAll(adapters, Found(more)), i) = HeardAll(adapters, Found(items))
      BY <3>1, <3>2, HeardPutIn
    <3>4. Heard(adapters, x).protocol = Protocol(x)
      BY HeardByItsProtocol
    <3> QED BY <3>3, <3>4
  <2> QED BY <2>2, <2>3, <2>5, <2>6, <2>7
<1>2. RegistryInv /\ [Next]_vars =>
        [items' # items =>
          LET before == ExtractToolCalls(Registered(custom), items)
              after  == ExtractToolCalls(Registered(custom), items')
              x == CHOOSE y \in Items : \E slot \in DOMAIN items :
                      items'[slot] = Append(items[slot], y)
          IN  IF Recognised(x)
              THEN \E i \in DOMAIN after :
                      /\ RemoveAt(after, i) = before
                      /\ after[i].protocol = Protocol(x)
              ELSE after = before]_vars
  BY <1>1
<1> QED BY <1>2, RegistryInvHolds, ArgumentsApart, PTL DEF Spec, AnItemAddsItsCall

-----------------------------------------------------------------------------
(* The gateway and the wrappers.                                           *)

(* What the response carries in one of its slots is found.                 *)
LEMMA CandidatesAreFound ==
    ASSUME NEW response \in [SlotNames -> Seq(Items)], NEW slot \in SlotNames,
           NEW x \in Range(Candidates(response[slot]))
    PROVE  x \in Range(Found(response)) /\ x \in Items
<1>1. PICK p \in 1..6 : Slots[p] = slot
  BY SlotsFacts DEF SlotNames
<1>2. PICK f : Steps(f, response)
  BY FoundInSteps
<1> DEFINE Has(k) == \E i \in DOMAIN f[k] : f[k][i] = x
<1>3. ASSUME NEW k \in 1..6
      PROVE  /\ f[k - 1] \in Seq(Items) /\ Candidates(response[Slots[k]]) \in Seq(Items)
             /\ f[k] = f[k - 1] \o Candidates(response[Slots[k]])
  <2>1. Slots[k] \in SlotNames /\ k - 1 \in 0..6
    BY SlotsFacts DEF SlotNames
  <2> QED BY <1>2, <2>1, CandidatesAreItems DEF Steps
<1>4. Has(p)
  <2>1. PICK a \in Seq(Items), b \in Seq(Items) :
           a = f[p - 1] /\ b = Candidates(response[Slots[p]]) /\ f[p] = a \o b
    BY <1>3
  <2>2. PICK n \in Nat, m \in Nat : n = Len(a) /\ m = Len(b)
    OBVIOUS
  <2>3. PICK i \in 1..m : b[i] = x
    BY <1>1, <2>1, <2>2 DEF Range
  <2>4. /\ Len(f[p]) = n + m /\ f[p] \in Seq(Items)
        /\ \A j \in 1..(n + m) : f[p][j] = IF j <= n THEN a[j] ELSE b[j - n]
    <3>1. PICK c : c = a \o b
      OBVIOUS
    <3>2. /\ Len(c) = n + m /\ c \in Seq(Items)
          /\ \A j \in 1..(n + m) : c[j] = IF j <= n THEN a[j] ELSE b[j - n]
      BY <2>2, <3>1, ConcatProperties
    <3> QED BY <2>1, <3>1, <3>2
  <2>5. n + i \in 1..(n + m) /\ ~(n + i <= n) /\ (n + i) - n = i
    OBVIOUS
  <2>6. f[p][n + i] = x
    BY <2>3, <2>4, <2>5
  <2>7. n + i \in DOMAIN f[p]
    BY <2>4, <2>5
  <2> QED BY <2>6, <2>7
<1>5. ASSUME NEW k \in 1..6, Has(k - 1) PROVE Has(k)
  <2>1. PICK a \in Seq(Items), b \in Seq(Items) : a = f[k - 1] /\ f[k] = a \o b
    BY <1>3
  <2>2. PICK n \in Nat, m \in Nat : n = Len(a) /\ m = Len(b)
    OBVIOUS
  <2>3. PICK i \in 1..n : a[i] = x
    BY <1>5, <2>1, <2>2
  <2>4. /\ Len(f[k]) = n + m /\ f[k] \in Seq(Items)
        /\ \A j \in 1..(n + m) : f[k][j] = IF j <= n THEN a[j] ELSE b[j - n]
    <3>1. PICK c : c = a \o b
      OBVIOUS
    <3>2. /\ Len(c) = n + m /\ c \in Seq(Items)
          /\ \A j \in 1..(n + m) : c[j] = IF j <= n THEN a[j] ELSE b[j - n]
      BY <2>2, <3>1, ConcatProperties
    <3> QED BY <2>1, <3>1, <3>2
  <2>5. i \in 1..(n + m) /\ i <= n
    OBVIOUS
  <2>6. f[k][i] = x /\ i \in DOMAIN f[k]
    BY <2>3, <2>4, <2>5
  <2> QED BY <2>6
<1>6. Has(6)
  <2> HIDE DEF Has
  <2>1. \A k \in 1..6 : Has(k - 1) => Has(k)
    BY <1>5
  <2>2. 2 - 1 = 1 /\ 3 - 1 = 2 /\ 4 - 1 = 3 /\ 5 - 1 = 4 /\ 6 - 1 = 5
    OBVIOUS
  <2>3. (Has(1) => Has(2)) /\ (Has(2) => Has(3)) /\ (Has(3) => Has(4))
        /\ (Has(4) => Has(5)) /\ (Has(5) => Has(6))
    BY <2>1, <2>2
  <2>4. p = 1 \/ p = 2 \/ p = 3 \/ p = 4 \/ p = 5 \/ p = 6
    OBVIOUS
  <2> QED BY <1>4, <2>3, <2>4
<1>7. f[6] = Found(response) /\ f[6] \in Seq(Items)
  BY <1>2 DEF Steps
<1> QED BY <1>6, <1>7 DEF Range

(* Arguments that have been parsed to the end stay as they are.            *)
LEMMA ParsedOnceIsParsed ==
    ASSUME NEW args \in [encoded : Nat, value : STRING],
           args.encoded = 0 \/ args = [encoded |-> 1, value |-> "object"]
    PROVE  Parse(Parse(args)) = Parse(args)
<1>1. CASE args.encoded = 0 /\ args.value = "text"
  <2>1. PICK parsed : parsed = Parse(args)
    OBVIOUS
  <2>2. parsed = [args EXCEPT !.value = "raw_arguments"]
    BY <1>1, <2>1 DEF Parse
  <2>3. parsed.encoded = 0 /\ parsed.value = "raw_arguments"
    BY <1>1, <2>2
  <2>4. Parse(parsed) = parsed
    BY <2>3 DEF Parse
  <2> QED BY <2>1, <2>4
<1>2. CASE args.encoded = 0 /\ args.value # "text"
  BY <1>2 DEF Parse
<1>3. CASE args = [encoded |-> 1, value |-> "object"]
  <2>1. PICK parsed : parsed = Parse(args)
    OBVIOUS
  <2>2. parsed = [args EXCEPT !.encoded = 1 - 1]
    BY <1>3, <2>1 DEF Parse
  <2>3. parsed.encoded = 0 /\ parsed.value = "object"
    BY <1>3, <2>2
  <2>4. Parse(parsed) = parsed
    BY <2>3 DEF Parse
  <2> QED BY <2>1, <2>4
<1> QED BY <1>1, <1>2, <1>3

LEMMA BothHearTheSame ==
    ASSUME NEW adapters, NEW x \in Items,
           x.args.encoded = 0 \/ x.args = [encoded |-> 1, value |-> "object"]
    PROVE  Direct(adapters, Protocol(x), x) = Heard(adapters, x)
<1>1. Parse(Parse(x.args)) = Parse(x.args)
  BY RegistryAssumption, ParsedOnceIsParsed
<1> QED BY <1>1 DEF Direct, Heard, Normalize

(* A call that the gateway finds in a response and the framework's wrapper *)
(* is about to make is the same invocation to both.                        *)
THEOREM GuardsJudgeTheSame == PolicySpec => []GuardsAgree
<1>1. ASSUME RegistryInv PROVE GuardsAgree
  <2> SUFFICES ASSUME NEW slot \in DOMAIN items, NEW x \in Range(Candidates(items[slot])),
                      x.args.encoded = 0 \/ x.args = [encoded |-> 1, value |-> "object"]
               PROVE  Direct(Registered(custom), Protocol(x), x)
                         \in Range(ExtractToolCalls(Registered(custom), items))
    BY DEF GuardsAgree
  <2>1. items \in [SlotNames -> Seq(Items)] /\ slot \in SlotNames
    BY <1>1 DEF RegistryInv
  <2>2. x \in Range(Found(items)) /\ x \in Items
    BY <2>1, CandidatesAreFound
  <2>3. PICK i \in DOMAIN Found(items) : x = Found(items)[i]
    BY <2>2 DEF Range
  <2>4. /\ i \in DOMAIN HeardAll(Registered(custom), Found(items))
        /\ HeardAll(Registered(custom), Found(items))[i] = Heard(Registered(custom), x)
    BY <2>3 DEF HeardAll
  <2>5. Direct(Registered(custom), Protocol(x), x) = Heard(Registered(custom), x)
    BY <2>2, BothHearTheSame
  <2>6. ExtractToolCalls(Registered(custom), items)
          = HeardAll(Registered(custom), Found(items))
    BY ExtractedIsHeard
  <2> QED BY <2>4, <2>5, <2>6 DEF Range
<1> QED BY <1>1, RegistryInvHolds, ArgumentsApart, PTL

-----------------------------------------------------------------------------
(* What is extracted from arguments, and from the same with one more field *)
(* behind the others.                                                      *)

DescendIn(context, found, depth) == found \cup UNION {Range(Inside(w)) : w \in found}
AnyFound(context, found) == TRUE
Descending == INSTANCE FoldLemmas WITH Step <- DescendIn, Holds <- AnyFound

FollowIn(context, values, token) == UNION {ResolveToken(v, token) : v \in values}
Following == INSTANCE FoldLemmas WITH Step <- FollowIn, Holds <- AnyFound

(* RecursiveValues goes down a level at a time.                            *)
Descent(f, v) ==
    /\ f[0] = {v} /\ f[MaxDepth] = RecursiveValues(v)
    /\ \A k \in 1..MaxDepth : f[k] = DescendIn(v, f[k - 1], k)

LEMMA ValuesInSteps ==
    ASSUME NEW v
    PROVE  \E f : Descent(f, v)
<1>1. PICK s : s = [depth \in 1..MaxDepth |-> depth]
  OBVIOUS
<1>2. s \in Seq(Nat) /\ Len(s) = MaxDepth /\ MaxDepth \in Nat
  BY <1>1, DepthAssumption
<1>3. PICK f : /\ f[0] = {v} /\ f[Len(s)] = Descending!Folded(v, {v}, s)
               /\ \A k \in 1..Len(s) : f[k] = DescendIn(v, f[k - 1], s[k])
  BY <1>2, Descending!FoldSteps
<1>4. Descending!Folded(v, {v}, s) = RecursiveValues(v)
  BY <1>1 DEF RecursiveValues, DescendIn, Descending!Folded, FoldLeft, MapThenFoldSet, Max,
             Descending!FoldLeft, Descending!MapThenFoldSet, Descending!Max
<1>5. f[0] = {v} /\ f[MaxDepth] = RecursiveValues(v)
  BY <1>2, <1>3, <1>4
<1>6. \A k \in 1..MaxDepth : f[k] = DescendIn(v, f[k - 1], k)
  BY <1>2, <1>3 DEF DescendIn
<1> QED BY <1>5, <1>6 DEF Descent

(* new is old with more fields behind those that are there.                *)
Extends(old, new) ==
    /\ old.t = "dict" /\ new.t = "dict"
    /\ \A k \in DOMAIN old.fields :
          /\ k \in Int /\ k \in DOMAIN new.fields /\ new.fields[k] = old.fields[k]
          /\ \A j \in DOMAIN new.fields \ DOMAIN old.fields : j \in Int /\ k < j

(* Whatever old has, new has, itself aside.                                *)
Kept(old, new, S, T) == \A v \in S : v \in T \/ (v = old /\ new \in T)

LEMMA InsideGrows ==
    ASSUME NEW old, NEW new, Extends(old, new)
    PROVE  Range(Inside(old)) \subseteq Range(Inside(new))
<1>1. /\ Inside(old) = [k \in DOMAIN old.fields |-> old.fields[k].value]
      /\ Inside(new) = [k \in DOMAIN new.fields |-> new.fields[k].value]
  BY DEF Inside, Extends
<1> QED BY <1>1 DEF Range, Extends

LEMMA NamedGrows ==
    ASSUME NEW old, NEW new, Extends(old, new), NEW name
    PROVE  /\ Named(old, name) \subseteq Named(new, name)
           /\ \A k \in Named(old, name) : new.fields[k].value = old.fields[k].value
           /\ MatchDictKey(old, name) \subseteq MatchDictKey(new, name)
<1>1. /\ Named(old, name) = {k \in DOMAIN old.fields : old.fields[k].name = name}
      /\ Named(new, name) = {k \in DOMAIN new.fields : new.fields[k].name = name}
  BY DEF Named, Extends
<1>2. /\ Named(old, name) \subseteq Named(new, name)
      /\ \A k \in Named(old, name) : new.fields[k] = old.fields[k]
  BY <1>1 DEF Extends
<1>3. ASSUME NEW k \in Named(old, name), \A j \in Named(old, name) : k <= j
      PROVE  \A j \in Named(new, name) : k <= j
  <2> TAKE j \in Named(new, name)
  <2>1. CASE j \in DOMAIN old.fields
    <3>1. j \in Named(old, name)
      BY <1>1, <2>1 DEF Extends
    <3> QED BY <1>3, <3>1
  <2>2. CASE j \notin DOMAIN old.fields
    BY <1>1, <2>2 DEF Extends
  <2> QED BY <2>1, <2>2
<1>4. MatchDictKey(old, name) \subseteq MatchDictKey(new, name)
  BY <1>2, <1>3 DEF MatchDictKey
<1> QED BY <1>2, <1>4

LEMMA ValuesGrow ==
    ASSUME NEW old, NEW new, Extends(old, new)
    PROVE  Kept(old, new, RecursiveValues(old), RecursiveValues(new))
<1>1. PICK f : Descent(f, old)
  BY ValuesInSteps
<1>2. PICK g : Descent(g, new)
  BY ValuesInSteps
<1>3. PICK T : T = {k \in 0..MaxDepth : new \in g[k] /\ Kept(old, new, f[k], g[k])}
  OBVIOUS
<1>4. 0 \in T
  <2>1. 0 \in 0..MaxDepth /\ f[0] = {old} /\ g[0] = {new}
    BY <1>1, <1>2, DepthAssumption DEF Descent
  <2> QED BY <1>3, <2>1 DEF Kept
<1>5. ASSUME NEW k \in 1..MaxDepth, k - 1 \in T PROVE k \in T
  <2>1. k \in 0..MaxDepth /\ new \in g[k - 1] /\ Kept(old, new, f[k - 1], g[k - 1])
    BY <1>3, <1>5, DepthAssumption
  <2>2. /\ f[k] = f[k - 1] \cup UNION {Range(Inside(w)) : w \in f[k - 1]}
        /\ g[k] = g[k - 1] \cup UNION {Range(Inside(w)) : w \in g[k - 1]}
    BY <1>1, <1>2 DEF Descent, DescendIn
  <2>3. ASSUME NEW w \in f[k - 1], NEW v \in Range(Inside(w)) PROVE v \in g[k]
    <3>1. CASE w \in g[k - 1]
      BY <2>2, <2>3, <3>1
    <3>2. CASE w = old
      BY <2>1, <2>2, <2>3, <3>2, InsideGrows
    <3> QED BY <2>1, <3>1, <3>2 DEF Kept
  <2>4. new \in g[k] /\ Kept(old, new, f[k], g[k])
    BY <2>1, <2>2, <2>3 DEF Kept
  <2> QED BY <1>3, <2>1, <2>4
<1>6. MaxDepth \in T
  BY <1>4, <1>5, DepthAssumption, Descending!Climb
<1> QED BY <1>1, <1>2, <1>3, <1>6 DEF Descent

LEMMA StringsGrow ==
    ASSUME NEW old, NEW new, Extends(old, new)
    PROVE  FlattenStrings(old) \subseteq FlattenStrings(new)
<1>1. ASSUME NEW v \in RecursiveValues(old), v.t = "str" PROVE v \in RecursiveValues(new)
  BY <1>1, ValuesGrow DEF Kept, Extends
<1> QED BY <1>1 DEF FlattenStrings

(* A text that goes on loses none of the names and terms in it.            *)
LEMMA TextGrows ==
    ASSUME NEW old, NEW new, Extends(old, new), NEW name
    PROVE  Text(name, old) \subseteq Text(name, new)
<1>1. UNION {Meaning[s].terms : s \in FlattenStrings(old)}
        \subseteq UNION {Meaning[s].terms : s \in FlattenStrings(new)}
  BY StringsGrow
<1>2. ASSUME NEW w \in RecursiveValues(old), w.t = "dict", NEW k \in DOMAIN w.fields
      PROVE  \E x \in RecursiveValues(new) :
                x.t = "dict" /\ k \in DOMAIN x.fields /\ x.fields[k].name = w.fields[k].name
  <2>1. CASE w \in RecursiveValues(new)
    BY <1>2, <2>1
  <2>2. CASE w = old /\ new \in RecursiveValues(new)
    BY <1>2, <2>2 DEF Extends
  <2> QED BY <2>1, <2>2, ValuesGrow DEF Kept
<1> QED BY <1>1, <1>2 DEF Text

LEMMA FindKeyGrows ==
    ASSUME NEW old, NEW new, Extends(old, new), NEW name
    PROVE  FindKey(old, name) \subseteq FindKey(new, name)
<1> SUFFICES ASSUME NEW w \in RecursiveValues(old), NEW k \in Named(w, name)
             PROVE  w.fields[k].value \in FindKey(new, name)
  BY DEF FindKey
<1>1. CASE w \in RecursiveValues(new)
  BY <1>1 DEF FindKey
<1>2. CASE w = old /\ new \in RecursiveValues(new)
  BY <1>2, NamedGrows DEF FindKey
<1> QED BY <1>1, <1>2, ValuesGrow DEF Kept

LEMMA TokenKeeps ==
    ASSUME NEW old, NEW new, Extends(old, new), NEW token
    PROVE  Kept(old, new, ResolveToken(old, token), ResolveToken(new, token))
<1>0. old.t = "dict" /\ new.t = "dict"
  BY DEF Extends
<1>1. CASE token.kind = "key"
  <2>1. /\ ResolveToken(old, token) = MatchDictKey(old, token.name)
        /\ ResolveToken(new, token) = MatchDictKey(new, token.name)
    BY <1>0, <1>1 DEF ResolveToken
  <2> QED BY <2>1, NamedGrows DEF Kept
<1>2. CASE token.kind = "index"
  BY <1>0, <1>2 DEF ResolveToken, Kept
<1>3. CASE token.kind = "wildcard"
  BY <1>3, InsideGrows DEF ResolveToken, Kept
<1>4. CASE token.kind = "recursive_key"
  BY <1>4, FindKeyGrows DEF ResolveToken, Kept
<1>5. CASE token.kind = "recursive_wildcard"
  BY <1>5, ValuesGrow DEF ResolveToken
<1>6. CASE token.kind \notin {"key", "index", "wildcard", "recursive_key", "recursive_wildcard"}
  BY <1>6 DEF ResolveToken, Kept
<1> QED BY <1>1, <1>2, <1>3, <1>4, <1>5, <1>6

LEMMA PathKeeps ==
    ASSUME NEW old, NEW new, Extends(old, new), NEW S, NEW tokens \in Seq(S)
    PROVE  Kept(old, new, ResolveFieldPath(old, tokens), ResolveFieldPath(new, tokens))
<1>0. PICK n \in Nat : n = Len(tokens)
  OBVIOUS
<1>1. PICK f : /\ f[0] = {old} /\ f[n] = Following!Folded(S, {old}, tokens)
               /\ \A k \in 1..n : f[k] = FollowIn(S, f[k - 1], tokens[k])
  BY <1>0, Following!FoldSteps
<1>2. PICK g : /\ g[0] = {new} /\ g[n] = Following!Folded(S, {new}, tokens)
               /\ \A k \in 1..n : g[k] = FollowIn(S, g[k - 1], tokens[k])
  BY <1>0, Following!FoldSteps
<1>3. /\ Following!Folded(S, {old}, tokens) = ResolveFieldPath(old, tokens)
      /\ Following!Folded(S, {new}, tokens) = ResolveFieldPath(new, tokens)
  BY DEF ResolveFieldPath, FollowIn, Following!Folded, FoldLeft, MapThenFoldSet, Max,
         Following!FoldLeft, Following!MapThenFoldSet, Following!Max
<1>4. PICK T : T = {k \in 0..n : Kept(old, new, f[k], g[k])}
  OBVIOUS
<1>5. 0 \in T
  BY <1>1, <1>2, <1>4 DEF Kept
<1>6. ASSUME NEW k \in 1..n, k - 1 \in T PROVE k \in T
  <2>1. k \in 0..n /\ Kept(old, new, f[k - 1], g[k - 1])
    BY <1>4, <1>6
  <2>2. /\ f[k] = UNION {ResolveToken(v, tokens[k]) : v \in f[k - 1]}
        /\ g[k] = UNION {ResolveToken(v, tokens[k]) : v \in g[k - 1]}
    BY <1>1, <1>2 DEF FollowIn
  <2>3. ASSUME NEW v \in f[k - 1], NEW w \in ResolveToken(v, tokens[k])
        PROVE  w \in g[k] \/ (w = old /\ new \in g[k])
    <3>1. CASE v \in g[k - 1]
      BY <2>2, <2>3, <3>1
    <3>2. CASE v = old /\ new \in g[k - 1]
      <4>1. w \in ResolveToken(new, tokens[k]) \/ (w = old /\ new \in ResolveToken(new, tokens[k]))
        BY <2>3, <3>2, TokenKeeps DEF Kept
      <4>2. ResolveToken(new, tokens[k]) \subseteq g[k]
        BY <2>2, <3>2
      <4> QED BY <4>1, <4>2
    <3> QED BY <2>1, <2>3, <3>1, <3>2 DEF Kept
  <2>4. Kept(old, new, f[k], g[k])
    BY <2>2, <2>3 DEF Kept
  <2> QED BY <1>4, <2>1, <2>4
<1>7. n \in T
  BY <1>5, <1>6, Following!Climb
<1> QED BY <1>1, <1>2, <1>3, <1>4, <1>7

LEMMA CandidatesGrow ==
    ASSUME NEW old, NEW new, Extends(old, new), NEW fields,
           \A f \in Range(fields) : f.tokens \in Seq(Range(f.tokens))
    PROVE  CandidateValues(old, fields) \subseteq CandidateValues(new, fields)
<1> DEFINE ByPath(payload) == UNION {ResolveFieldPath(payload, f.tokens) :
                                        f \in {f \in Range(fields) : f.tokens # <<>>}}
           ByName(payload) == {payload.fields[k].value :
                                  k \in UNION {Named(payload, f.name) : f \in Range(fields)}}
           Leads(payload) == ByPath(payload) \cup ByName(payload)
<1>1. \A payload : CandidateValues(payload, fields)
                     = UNION {FlattenStrings(v) : v \in Leads(payload)}
  BY DEF CandidateValues
<1>2. ASSUME NEW f \in Range(fields), f.tokens # <<>>,
             NEW v \in ResolveFieldPath(old, f.tokens)
      PROVE  v \in ByPath(new) \/ (v = old /\ new \in ByPath(new))
  BY <1>2, PathKeeps DEF Kept
<1>3. ASSUME NEW f \in Range(fields), NEW k \in Named(old, f.name)
      PROVE  old.fields[k].value \in ByName(new)
  BY <1>3, NamedGrows
<1>4. ASSUME NEW v \in Leads(old)
      PROVE  v \in Leads(new) \/ (v = old /\ new \in Leads(new))
  <2>1. CASE v \in ByPath(old)
    <3>1. PICK f \in Range(fields) : f.tokens # <<>> /\ v \in ResolveFieldPath(old, f.tokens)
      BY <2>1
    <3> HIDE DEF ByPath
    <3> QED BY <1>2, <3>1
  <2>2. CASE v \in ByName(old)
    <3>1. PICK f \in Range(fields) : \E k \in Named(old, f.name) : v = old.fields[k].value
      BY <2>2
    <3> HIDE DEF ByName
    <3> QED BY <1>3, <3>1
  <2> HIDE DEF ByPath, ByName
  <2> QED BY <2>1, <2>2
<1> HIDE DEF Leads
<1>5. ASSUME NEW v \in Leads(old), NEW s \in FlattenStrings(v)
      PROVE  \E w \in Leads(new) : s \in FlattenStrings(w)
  BY <1>4, <1>5, StringsGrow
<1> QED BY <1>1, <1>5

-----------------------------------------------------------------------------
(* What is matched, and decided.                                           *)

Typed(e) == \A kind \in Kinds : \A f \in Range(e[kind]) : f.tokens \in Seq(Range(f.tokens))

Stated(payload, e) == CandidateValues(payload, e.path_sensitivity) \ {""}

LEMMA FactsGrow ==
    ASSUME NEW old, NEW new, Extends(old, new), NEW e, Typed(e),
           Stated(old, e) # {} \/ Stated(new, e) = {}
    PROVE  /\ ToolFacts(old, e).commands \subseteq ToolFacts(new, e).commands
           /\ ToolFacts(old, e).paths \subseteq ToolFacts(new, e).paths
           /\ ToolFacts(old, e).path_sensitivities \subseteq ToolFacts(new, e).path_sensitivities
           /\ ToolFacts(old, e).domains \subseteq ToolFacts(new, e).domains
           /\ ToolFacts(old, e).db_operations \subseteq ToolFacts(new, e).db_operations
<1> DEFINE Of(payload, kind) == CandidateValues(payload, e[kind])
           Paths(payload) == Of(payload, "path") \ {""}
           Classes(payload) == {PathClass(p) : p \in Paths(payload)}
<1>1. \A kind \in Kinds : Of(old, kind) \subseteq Of(new, kind)
  BY CandidatesGrow DEF Typed
<1>2. /\ "command" \in Kinds /\ "path" \in Kinds /\ "path_sensitivity" \in Kinds
      /\ "url" \in Kinds /\ "db_operation" \in Kinds /\ "sql" \in Kinds
  BY DEF Kinds
<1>3. \A payload :
        /\ ToolFacts(payload, e).commands = Of(payload, "command")
        /\ ToolFacts(payload, e).paths = Paths(payload)
        /\ ToolFacts(payload, e).path_sensitivities
             = IF Stated(payload, e) # {} THEN Stated(payload, e) ELSE Classes(payload)
        /\ ToolFacts(payload, e).domains = {Meaning[u].host : u \in Of(payload, "url")} \ {""}
        /\ ToolFacts(payload, e).db_operations
             = Of(payload, "db_operation") \cup
               (UNION {Meaning[s].words : s \in Of(payload, "sql")} \cap SqlKeywords)
  BY DEF ToolFacts, Stated
<1>4. /\ \A payload : Stated(payload, e) = Of(payload, "path_sensitivity") \ {""}
      /\ Stated(old, e) \subseteq Stated(new, e)
  BY <1>1, <1>2 DEF Stated
<1> HIDE DEF Of
<1>5. Paths(old) \subseteq Paths(new) /\ Classes(old) \subseteq Classes(new)
  BY <1>1, <1>2
<1> HIDE DEF Paths, Classes
<1>6. ToolFacts(old, e).path_sensitivities \subseteq ToolFacts(new, e).path_sensitivities
  BY <1>3, <1>4, <1>5
<1>7. ToolFacts(old, e).domains \subseteq ToolFacts(new, e).domains
  <2>1. PICK U, V : U = Of(old, "url") /\ V = Of(new, "url")
    OBVIOUS
  <2>2. U \subseteq V
    BY <1>1, <1>2, <2>1
  <2>3. {Meaning[u].host : u \in U} \ {""} \subseteq {Meaning[u].host : u \in V} \ {""}
    BY <2>2
  <2>4. /\ ToolFacts(old, e).domains = {Meaning[u].host : u \in U} \ {""}
        /\ ToolFacts(new, e).domains = {Meaning[u].host : u \in V} \ {""}
    BY <1>3, <2>1
  <2> QED BY <2>3, <2>4
<1>8. ToolFacts(old, e).db_operations \subseteq ToolFacts(new, e).db_operations
  <2>1. PICK U, V : U = Of(old, "sql") /\ V = Of(new, "sql")
    OBVIOUS
  <2>2. U \subseteq V /\ Of(old, "db_operation") \subseteq Of(new, "db_operation")
    BY <1>1, <1>2, <2>1
  <2>3. UNION {Meaning[s].words : s \in U} \subseteq UNION {Meaning[s].words : s \in V}
    BY <2>2
  <2>4. /\ ToolFacts(old, e).db_operations
             = Of(old, "db_operation") \cup (UNION {Meaning[s].words : s \in U} \cap SqlKeywords)
        /\ ToolFacts(new, e).db_operations
             = Of(new, "db_operation") \cup (UNION {Meaning[s].words : s \in V} \cap SqlKeywords)
    BY <1>3, <2>1
  <2> QED BY <2>2, <2>3, <2>4
<1>9. /\ ToolFacts(old, e).commands \subseteq ToolFacts(new, e).commands
      /\ ToolFacts(old, e).paths \subseteq ToolFacts(new, e).paths
  <2>1. Of(old, "command") \subseteq Of(new, "command")
    BY <1>1, <1>2
  <2> QED BY <1>3, <1>5, <2>1
<1> QED BY <1>6, <1>7, <1>8, <1>9

LEMMA MeetsMore ==
    ASSUME NEW wanted, NEW fewer, NEW more, fewer \subseteq more, Meets(wanted, fewer)
    PROVE  Meets(wanted, more)
BY DEF Meets

LEMMA MatchesGrow ==
    ASSUME NEW old, NEW new, Extends(old, new), NEW e, Typed(e),
           Stated(old, e) # {} \/ Stated(new, e) = {},
           NEW match, NEW name, Matches(match, name, old, ToolFacts(old, e)),
           match.regex # {} =>
              \E p \in match.regex : Steady(p) /\ Finds(p, Text(name, old), {})
    PROVE  Matches(match, name, new, ToolFacts(new, e))
<1>1. PICK F, G : F = ToolFacts(old, e) /\ G = ToolFacts(new, e)
  OBVIOUS
<1>2. /\ F.commands \subseteq G.commands /\ F.paths \subseteq G.paths
      /\ F.path_sensitivities \subseteq G.path_sensitivities
      /\ F.domains \subseteq G.domains /\ F.db_operations \subseteq G.db_operations
  BY <1>1, FactsGrow
<1>3. Text(name, old) \subseteq Text(name, new)
  BY TextGrows
<1>4. /\ UNION {Meaning[s].terms : s \in F.commands} \subseteq UNION {Meaning[s].terms : s \in G.commands}
      /\ UNION {Meaning[s].starts : s \in F.paths} \subseteq UNION {Meaning[s].starts : s \in G.paths}
  BY <1>2
<1>5. /\ Meets(match.any_keywords, Text(name, old)) => Meets(match.any_keywords, Text(name, new))
      /\ match.all_keywords \subseteq Text(name, old) => match.all_keywords \subseteq Text(name, new)
  BY <1>3, MeetsMore
<1>8. OneFinds(match.regex, Text(name, new), Ending(name, new))
  <2>1. CASE match.regex # {}
    <3>1. PICK p \in match.regex : Steady(p) /\ Finds(p, Text(name, old), {})
      BY <2>1
    <3>2. Meets(p.has, Text(name, new))
      BY <1>3, <3>1, MeetsMore DEF Finds
    <3>3. p.lacks = {} /\ p.ends = {}
      BY <3>1 DEF Steady
    <3> QED BY <3>2, <3>3 DEF OneFinds, Finds, Meets
  <2> QED BY <2>1 DEF OneFinds
<1>6. /\ Meets(match.command_contains, UNION {Meaning[s].terms : s \in F.commands}) =>
             Meets(match.command_contains, UNION {Meaning[s].terms : s \in G.commands})
      /\ Meets(match.path_starts_with, UNION {Meaning[s].starts : s \in F.paths}) =>
             Meets(match.path_starts_with, UNION {Meaning[s].starts : s \in G.paths})
  BY <1>4, MeetsMore
<1>7. /\ Meets(match.path_sensitivity_in, F.path_sensitivities) =>
             Meets(match.path_sensitivity_in, G.path_sensitivities)
      /\ Meets(match.path_regex, F.paths) => Meets(match.path_regex, G.paths)
      /\ Meets(match.domain_in, F.domains) => Meets(match.domain_in, G.domains)
      /\ Meets(match.domain_suffix_in, F.domains) => Meets(match.domain_suffix_in, G.domains)
      /\ Meets(match.domain_regex, F.domains) => Meets(match.domain_regex, G.domains)
      /\ Meets(match.db_operation_in, F.db_operations) => Meets(match.db_operation_in, G.db_operations)
  BY <1>2, MeetsMore
<1> QED BY <1>1, <1>5, <1>6, <1>7, <1>8 DEF Matches

LEMMA DecisionGrows ==
    ASSUME NEW fewer \in SUBSET Policy, NEW more \in SUBSET Policy, fewer \subseteq more
    PROVE  ActionOrder[Decision(fewer)] <= ActionOrder[Decision(more)]
<1>1. /\ Matched(fewer, "tool", RuleIds(fewer)) \subseteq Matched(more, "tool", RuleIds(more))
      /\ \A r \in Matched(more, "tool", RuleIds(more)) : r.action \in Actions
  BY ToolPolicyAssumption DEF Matched, RuleIds
<1> QED BY <1>1, StrictestGrows DEF Decision

LEMMA ResolvedIsRegistered ==
    ASSUME NEW added \in Seq(Adapters), NEW protocol, NEW name \in ToolNames
    PROVE  Resolve(Registered(added), protocol, name) \in Configs
<1>1. PICK all : all = Registered(added)
  OBVIOUS
<1>2. all \in Seq(Configs) /\ Fitting(all, protocol, name) # {}
  BY <1>1, SomethingFits
<1>3. PICK i \in Fitting(all, protocol, name) : First(all, Fitting(all, protocol, name), i)
  BY <1>2, FirstExists DEF Fitting
<1>4. Resolve(all, protocol, name) = all[i]
  BY <1>2, <1>3, ResolveIsFirst
<1>5. all[i] \in Configs
  BY <1>2, <1>3 DEF Fitting
<1> QED BY <1>1, <1>4, <1>5

(* The extraction settings of a call are those of an adapter.              *)
LEMMA JudgedIsTyped ==
    ASSUME RegistryInv, NEW call \in Judged
    PROVE  Typed(call.extraction)
<1> DEFINE normal(protocol, name) ==
               Normalize(Registered(custom), protocol, name, [encoded |-> 0, value |-> "object"])
<1>0. PICK protocol \in Protocols, name \in ToolNames :
        call = [tool_name |-> normal(protocol, name).tool_name,
                extraction |-> normal(protocol, name).extraction]
  BY DEF Judged
<1>1. call.extraction = Resolve(Registered(custom), protocol, name).extraction
  BY <1>0 DEF Normalize
<1>2. PICK adapter : adapter = Resolve(Registered(custom), protocol, name)
  OBVIOUS
<1>3. adapter \in Configs
  BY <1>2, ResolvedIsRegistered DEF RegistryInv
<1> QED BY <1>1, <1>2, <1>3, ExtractionAssumption DEF Typed, Configs

(* One more field at the end of the arguments extends their dict.          *)
LEMMA AppendExtends ==
    ASSUME NEW S, NEW args \in Seq(S), NEW f \in S
    PROVE  Extends(Dict(args), Dict(Append(args, f)))
<1>1. PICK n \in Nat : n = Len(args)
  OBVIOUS
<1> PICK more : more = Append(args, f)
  OBVIOUS
<1>2. /\ more \in Seq(S) /\ Len(more) = n + 1
      /\ \A k \in 1..n : more[k] = args[k]
  BY <1>1, AppendProperties
<1>3. DOMAIN args = 1..n /\ DOMAIN more = 1..(n + 1)
  BY <1>1, <1>2
<1>4. /\ Dict(args).t = "dict" /\ Dict(args).fields = args
      /\ Dict(more).t = "dict" /\ Dict(more).fields = more
  BY DEF Dict
<1> QED BY <1>1, <1>2, <1>3, <1>4 DEF Extends

ArgumentsInv == arguments \in Seq(Fields)

LEMMA ArgumentsInvHolds == PolicySpec => []ArgumentsInv
<1>1. PolicyInit => ArgumentsInv
  BY DEF PolicyInit, ArgumentsInv
<1>2. ArgumentsInv /\ [PolicyNext]_<<vars, arguments>> => ArgumentsInv'
  <2> SUFFICES ASSUME ArgumentsInv, [PolicyNext]_<<vars, arguments>> PROVE ArgumentsInv'
    OBVIOUS
  <2>1. CASE AddField
    BY <2>1, AppendProperties DEF AddField, ArgumentsInv
  <2>2. CASE UNCHANGED arguments
    BY <2>2 DEF ArgumentsInv
  <2> QED BY <2>1, <2>2 DEF PolicyNext, Respond
<1> QED BY <1>1, <1>2, PTL DEF PolicySpec

(* One more field in the arguments of a tool call takes it out of no rule  *)
(* that it meets by what its text contains, and weakens no decision made   *)
(* by such rules, whatever the adapters, expressions, patterns and rules   *)
(* (matchers.py:23-94, extractors.py:226-290).                             *)
THEOREM AFieldIsHarmless == PolicySpec => AFieldNeverWeakens
<1>1. ASSUME RegistryInv, ArgumentsInv, [PolicyNext]_<<vars, arguments>>,
             arguments' # arguments, NEW call \in Judged,
             Stated(Dict(arguments), call.extraction) # {}
               \/ Stated(Dict(arguments'), call.extraction) = {}
      PROVE  /\ SteadilyMatched(call, Dict(arguments)) \subseteq MatchedRules(call, Dict(arguments'))
             /\ ActionOrder[Decision(SteadilyMatched(call, Dict(arguments)))]
                  <= ActionOrder[Decision(MatchedRules(call, Dict(arguments')))]
  <2>1. PICK f \in Fields : arguments' = Append(arguments, f)
    BY <1>1 DEF PolicyNext, Respond, AddField
  <2>2. PICK old, new : old = Dict(arguments) /\ new = Dict(arguments')
    OBVIOUS
  <2>3. Extends(old, new)
    BY <1>1, <2>1, <2>2, AppendExtends DEF ArgumentsInv
  <2>4. PICK e : e = call.extraction
    OBVIOUS
  <2>5. Typed(e) /\ (Stated(old, e) # {} \/ Stated(new, e) = {})
    BY <1>1, <2>2, <2>4, JudgedIsTyped
  <2>6. SteadilyMatched(call, old) \subseteq MatchedRules(call, new)
    <3> SUFFICES ASSUME NEW r \in SteadilyMatched(call, old) PROVE r \in MatchedRules(call, new)
      OBVIOUS
    <3>1. /\ r \in Policy /\ Matches(r.match, call.tool_name, old, ToolFacts(old, e))
          /\ r.match.regex # {} =>
                \E p \in r.match.regex : Steady(p) /\ Finds(p, Text(call.tool_name, old), {})
      BY <2>4 DEF SteadilyMatched, MatchedRules
    <3>2. Matches(r.match, call.tool_name, new, ToolFacts(new, e))
      BY <2>3, <2>5, <3>1, MatchesGrow
    <3> QED BY <2>4, <3>1, <3>2 DEF MatchedRules
  <2>7. SteadilyMatched(call, old) \in SUBSET Policy /\ MatchedRules(call, new) \in SUBSET Policy
    BY DEF SteadilyMatched, MatchedRules
  <2> QED BY <2>2, <2>6, <2>7, DecisionGrows
<1>2. RegistryInv /\ ArgumentsInv /\ [PolicyNext]_<<vars, arguments>> =>
        [arguments' # arguments => \A call \in Judged :
            LET before == SteadilyMatched(call, Dict(arguments))
                after  == MatchedRules(call, Dict(arguments'))
                stated(payload) ==
                    CandidateValues(payload, call.extraction.path_sensitivity) \ {""}
            IN  stated(Dict(arguments)) # {} \/ stated(Dict(arguments')) = {} =>
                   /\ before \subseteq after
                   /\ ActionOrder[Decision(before)] <= ActionOrder[Decision(after)]]_arguments
  BY <1>1 DEF Stated
<1> QED BY <1>2, RegistryInvHolds, ArgumentsInvHolds, ArgumentsApart, PTL
         DEF PolicySpec, AFieldNeverWeakens

-----------------------------------------------------------------------------
(* Prefixes of sequences.                                                  *)

LEMMA Prefix ==
    ASSUME NEW S, NEW s \in Seq(S), NEW n \in Nat, n = Len(s), NEW m \in 0..n
    PROVE  /\ SubSeq(s, 1, m) \in Seq(S) /\ Len(SubSeq(s, 1, m)) = m
           /\ \A i \in 1..m : SubSeq(s, 1, m)[i] = s[i]
<1>1. m \in Int /\ 1 \in Int /\ \A i \in 1..m : s[i] \in S
  BY ElementOfSeq
<1>2. /\ SubSeq(s, 1, m) \in Seq(S) /\ Len(SubSeq(s, 1, m)) = IF 1 <= m THEN m - 1 + 1 ELSE 0
      /\ \A i \in 1..(m - 1 + 1) : SubSeq(s, 1, m)[i] = s[1 + i - 1]
  BY ONLY <1>1, SubSeqProperties
<1> QED BY <1>2

LEMMA PrefixOfPrefix ==
    ASSUME NEW S, NEW s \in Seq(S), NEW n \in Nat, n = Len(s), NEW m \in 0..n, NEW j \in 0..m
    PROVE  SubSeq(SubSeq(s, 1, m), 1, j) = SubSeq(s, 1, j)
<1>1. PICK r : r = SubSeq(s, 1, m)
  OBVIOUS
<1>2. r \in Seq(S) /\ Len(r) = m /\ \A i \in 1..m : r[i] = s[i]
  BY <1>1, Prefix
<1>3. PICK a, b : a = SubSeq(r, 1, j) /\ b = SubSeq(s, 1, j)
  OBVIOUS
<1>4. j \in 0..n /\ m \in Nat
  OBVIOUS
<1>5. a \in Seq(S) /\ Len(a) = j /\ \A i \in 1..j : a[i] = r[i]
  BY <1>2, <1>3, <1>4, Prefix
<1>6. b \in Seq(S) /\ Len(b) = j /\ \A i \in 1..j : b[i] = s[i]
  BY <1>3, <1>4, Prefix
<1>7. \A i \in 1..j : a[i] = b[i]
  BY <1>2, <1>5, <1>6
<1>8. a = b
  BY <1>5, <1>6, <1>7, SeqEqual
<1> QED BY <1>1, <1>3, <1>8

LEMMA PrefixOfAppend ==
    ASSUME NEW S, NEW s \in Seq(S), NEW n \in Nat, n = Len(s), NEW x \in S, NEW m \in 0..n
    PROVE  SubSeq(Append(s, x), 1, m) = SubSeq(s, 1, m)
<1>1. PICK t : t = Append(s, x)
  OBVIOUS
<1>2. t \in Seq(S) /\ Len(t) = n + 1 /\ \A i \in 1..n : t[i] = s[i]
  BY <1>1, AppendProperties
<1>3. PICK a, b : a = SubSeq(t, 1, m) /\ b = SubSeq(s, 1, m)
  OBVIOUS
<1>4. m \in 0..(n + 1) /\ n + 1 \in Nat
  OBVIOUS
<1>5. a \in Seq(S) /\ Len(a) = m /\ \A i \in 1..m : a[i] = t[i]
  BY <1>2, <1>3, <1>4, Prefix
<1>6. b \in Seq(S) /\ Len(b) = m /\ \A i \in 1..m : b[i] = s[i]
  BY <1>3, Prefix
<1>7. \A i \in 1..m : a[i] = b[i]
  BY <1>2, <1>5, <1>6
<1>8. a = b
  BY <1>5, <1>6, <1>7, SeqEqual
<1> QED BY <1>1, <1>3, <1>8

LEMMA PrefixGrows ==
    ASSUME NEW S, NEW s \in Seq(S), NEW n \in Nat, n = Len(s), NEW m \in 1..n
    PROVE  SubSeq(s, 1, m) = Append(SubSeq(s, 1, m - 1), s[m])
<1>0. m - 1 \in 0..n /\ m \in 0..n /\ s[m] \in S
  BY ElementOfSeq
<1>1. PICK a, b : a = SubSeq(s, 1, m) /\ b = SubSeq(s, 1, m - 1)
  OBVIOUS
<1>2. PICK c : c = Append(b, s[m])
  OBVIOUS
<1>3. a \in Seq(S) /\ Len(a) = m /\ \A i \in 1..m : a[i] = s[i]
  BY <1>0, <1>1, Prefix
<1>4. b \in Seq(S) /\ Len(b) = m - 1 /\ \A i \in 1..(m - 1) : b[i] = s[i]
  BY <1>0, <1>1, Prefix
<1>5. /\ c \in Seq(S) /\ Len(c) = m /\ c[m] = s[m]
      /\ \A i \in 1..(m - 1) : c[i] = b[i]
  BY <1>0, <1>2, <1>4, AppendProperties
<1>6. ASSUME NEW i \in 1..m PROVE a[i] = c[i]
  <2>1. CASE i = m
    BY <1>3, <1>5, <2>1
  <2>2. CASE i \in 1..(m - 1)
    BY <1>3, <1>4, <1>5, <2>2
  <2> QED BY <2>1, <2>2
<1>7. a = c
  BY <1>3, <1>5, <1>6, SeqEqual
<1> QED BY <1>1, <1>2, <1>7

-----------------------------------------------------------------------------
(* Where a place leads.                                                    *)

GoIn(root, w, k) == Inside(w)[k]
Going == INSTANCE FoldLemmas WITH Step <- GoIn, Holds <- AnyFound

LEMMA ValueAtIsFolded == \A v, p : ValueAt(v, p) = Going!Folded(v, v, p)
BY DEF ValueAt, GoIn, Going!Folded, FoldLeft, MapThenFoldSet, Max,
       Going!FoldLeft, Going!MapThenFoldSet, Going!Max

At(v, p, k) == ValueAt(v, SubSeq(p, 1, k))

LEMMA AtStart ==
    ASSUME NEW v
    PROVE  /\ ValueAt(v, <<>>) = v
           /\ \A p : At(v, p, 0) = v
<1>1. ValueAt(v, <<>>) = v
  BY ValueAtIsFolded, Going!FoldEmpty
<1>2. ASSUME NEW p PROVE SubSeq(p, 1, 0) = <<>>
  BY SubSeqEmpty
<1> QED BY <1>1, <1>2 DEF At

LEMMA AtAppend ==
    ASSUME NEW v, NEW S, NEW p \in Seq(S), NEW k \in S
    PROVE  ValueAt(v, Append(p, k)) = Inside(ValueAt(v, p))[k]
BY ValueAtIsFolded, Going!FoldAppend DEF GoIn

LEMMA AtNext ==
    ASSUME NEW v, NEW S, NEW p \in Seq(S), NEW n \in Nat, n = Len(p), NEW k \in 1..n
    PROVE  At(v, p, k) = Inside(At(v, p, k - 1))[p[k]]
<1>1. PICK a : a = SubSeq(p, 1, k - 1)
  OBVIOUS
<1>2. a \in Seq(S) /\ p[k] \in S
  <2>1. k - 1 \in 0..n
    OBVIOUS
  <2> QED BY <1>1, <2>1, Prefix, ElementOfSeq
<1>3. SubSeq(p, 1, k) = Append(a, p[k])
  BY <1>1, PrefixGrows
<1>4. ValueAt(v, Append(a, p[k])) = Inside(ValueAt(v, a))[p[k]]
  BY ONLY <1>2, AtAppend
<1> QED BY <1>1, <1>3, <1>4 DEF At

LEMMA AtEnd ==
    ASSUME NEW v, NEW S, NEW p \in Seq(S)
    PROVE  At(v, p, Len(p)) = ValueAt(v, p)
BY SubSeqFull DEF At

IsPlace(v, p) ==
    /\ p \in Seq(Range(p))
    /\ \A k \in 1..Len(p) : p[k] \in DOMAIN Inside(At(v, p, k - 1))

LEMMA EmptyPlace == ASSUME NEW v PROVE IsPlace(v, <<>>)
BY DEF IsPlace

LEMMA LongerPlace ==
    ASSUME NEW v, NEW p, IsPlace(v, p), NEW k \in DOMAIN Inside(ValueAt(v, p))
    PROVE  \E n \in Nat : \E q :
              /\ q = Append(p, k) /\ n = Len(p)
              /\ IsPlace(v, q) /\ Len(q) = n + 1 /\ q[n + 1] = k
              /\ ValueAt(v, q) = Inside(ValueAt(v, p))[k]
              /\ \A m \in 0..n : SubSeq(q, 1, m) = SubSeq(p, 1, m)
              /\ Front(q) = p /\ Last(q) = k
<1> PICK S : S = Range(p) \cup {k}
  OBVIOUS
<1> PICK n \in Nat : n = Len(p)
  BY DEF IsPlace
<1> PICK q : q = Append(p, k)
  OBVIOUS
<1>1. p \in Seq(S) /\ k \in S
  BY SeqMonotonic DEF IsPlace
<1>2. q \in Seq(S) /\ Len(q) = n + 1 /\ q[n + 1] = k /\ \A i \in 1..n : q[i] = p[i]
  BY <1>1, AppendProperties
<1>3. \A m \in 0..n : SubSeq(q, 1, m) = SubSeq(p, 1, m)
  BY <1>1, PrefixOfAppend
<1>4. \A m \in 0..n : At(v, q, m) = At(v, p, m)
  BY <1>3 DEF At
<1>5. At(v, p, n) = ValueAt(v, p)
  BY <1>1, AtEnd
<1>6. ASSUME NEW i \in 1..(n + 1) PROVE q[i] \in DOMAIN Inside(At(v, q, i - 1))
  <2>1. CASE i = n + 1
    <3>1. i - 1 = n /\ n \in 0..n
      BY <2>1
    <3>2. At(v, q, i - 1) = ValueAt(v, p)
      BY <1>4, <1>5, <3>1
    <3> QED BY <1>2, <2>1, <3>2
  <2>2. CASE i \in 1..n
    <3>1. i - 1 \in 0..n /\ q[i] = p[i]
      BY <1>2, <2>2
    <3>2. p[i] \in DOMAIN Inside(At(v, p, i - 1))
      BY <2>2 DEF IsPlace
    <3> QED BY <1>4, <3>1, <3>2
  <2> QED BY <2>1, <2>2
<1>7. q \in Seq(Range(q))
  BY <1>2, SeqOfRange
<1>8. IsPlace(v, q)
  BY <1>2, <1>6, <1>7 DEF IsPlace
<1>9. ValueAt(v, q) = Inside(ValueAt(v, p))[k]
  BY <1>1, AtAppend
<1>10. SubSeq(p, 1, n) = p
  BY <1>1, SubSeqFull
<1>11. Front(q) = p /\ Last(q) = k
  <2>1. (n + 1) - 1 = n /\ n \in 0..n
    OBVIOUS
  <2> QED BY <1>2, <1>3, <1>10, <2>1 DEF Front, Last
<1> QED BY <1>2, <1>3, <1>8, <1>9, <1>11

LEMMA ShorterPlace ==
    ASSUME NEW v, NEW p, IsPlace(v, p), NEW n \in Nat, n = Len(p), NEW m \in 0..n
    PROVE  /\ IsPlace(v, SubSeq(p, 1, m)) /\ Len(SubSeq(p, 1, m)) = m
           /\ \A i \in 1..m : SubSeq(p, 1, m)[i] = p[i]
           /\ \A j \in 0..m : At(v, SubSeq(p, 1, m), j) = At(v, p, j)
<1> PICK q : q = SubSeq(p, 1, m)
  OBVIOUS
<1>1. p \in Seq(Range(p))
  BY DEF IsPlace
<1>2. q \in Seq(Range(p)) /\ Len(q) = m /\ \A i \in 1..m : q[i] = p[i]
  BY <1>1, Prefix
<1>3. \A j \in 0..m : At(v, q, j) = At(v, p, j)
  BY <1>1, PrefixOfPrefix DEF At
<1>4. ASSUME NEW i \in 1..m PROVE q[i] \in DOMAIN Inside(At(v, q, i - 1))
  <2>1. i \in 1..n /\ i - 1 \in 0..m
    OBVIOUS
  <2>2. p[i] \in DOMAIN Inside(At(v, p, i - 1))
    BY <2>1 DEF IsPlace
  <2> QED BY <1>2, <1>3, <2>1, <2>2
<1>5. q \in Seq(Range(q))
  BY <1>2, SeqOfRange
<1> QED BY <1>2, <1>3, <1>4, <1>5 DEF IsPlace

-----------------------------------------------------------------------------
(* Places is every place there is, as long as it is no deeper than         *)
(* MaxDepth.                                                               *)

GatherPlaces(v, found, depth) ==
    found \cup UNION {{Append(p, k) : k \in DOMAIN Inside(ValueAt(v, p))} : p \in found}
Placing == INSTANCE FoldLemmas WITH Step <- GatherPlaces, Holds <- AnyFound

(* Places are found a level at a time.                                     *)
Charts(f, v) ==
    /\ f[0] = {<<>>} /\ f[MaxDepth] = Places(v)
    /\ \A k \in 1..MaxDepth : f[k] = GatherPlaces(v, f[k - 1], k)

LEMMA PlacesInSteps ==
    ASSUME NEW v
    PROVE  \E f : Charts(f, v)
<1>1. PICK s : s = [depth \in 1..MaxDepth |-> depth]
  OBVIOUS
<1>2. s \in Seq(Nat) /\ Len(s) = MaxDepth /\ MaxDepth \in Nat
  BY <1>1, DepthAssumption
<1>0. PICK base : base = {<<>>}
  OBVIOUS
<1>3. PICK f : /\ f[0] = base /\ f[Len(s)] = Placing!Folded(v, base, s)
               /\ \A k \in 1..Len(s) : f[k] = GatherPlaces(v, f[k - 1], s[k])
  BY <1>2, Placing!FoldSteps
<1>4. Placing!Folded(v, base, s) = Places(v)
  BY <1>0, <1>1 DEF Places, GatherPlaces, Placing!Folded, FoldLeft, MapThenFoldSet, Max,
             Placing!FoldLeft, Placing!MapThenFoldSet, Placing!Max
<1>5. f[0] = {<<>>} /\ f[MaxDepth] = Places(v)
  BY <1>0, <1>2, <1>3, <1>4
<1>6. \A k \in 1..MaxDepth : f[k] = GatherPlaces(v, f[k - 1], k)
  BY <1>2, <1>3 DEF GatherPlaces
<1> QED BY <1>5, <1>6 DEF Charts

LEMMA PlacesArePlaces ==
    ASSUME NEW v, NEW p \in Places(v)
    PROVE  IsPlace(v, p) /\ Len(p) <= MaxDepth
<1>1. PICK f : Charts(f, v)
  BY PlacesInSteps
<1>2. PICK T : T = {k \in 0..MaxDepth : \A q \in f[k] : IsPlace(v, q) /\ Len(q) <= k}
  OBVIOUS
<1>3. 0 \in T
  BY <1>1, <1>2, EmptyPlace, DepthAssumption DEF Charts
<1>4. ASSUME NEW k \in 1..MaxDepth, k - 1 \in T PROVE k \in T
  <2>1. k \in 0..MaxDepth /\ \A q \in f[k - 1] : IsPlace(v, q) /\ Len(q) <= k - 1
    BY <1>2, <1>4, DepthAssumption
  <2>2. f[k] = GatherPlaces(v, f[k - 1], k)
    BY <1>1 DEF Charts
  <2>3. ASSUME NEW q \in f[k - 1], NEW i \in DOMAIN Inside(ValueAt(v, q)), NEW r, r = Append(q, i)
        PROVE  IsPlace(v, r) /\ Len(r) <= k
    <3>1. IsPlace(v, q) /\ Len(q) <= k - 1
      BY <2>1
    <3>2. \E n \in Nat : \E t : t = Append(q, i) /\ n = Len(q) /\ IsPlace(v, t) /\ Len(t) = n + 1
      BY <2>3, <3>1, LongerPlace
    <3> QED BY <2>3, <3>1, <3>2
  <2>4. \A q \in f[k - 1] : IsPlace(v, q) /\ Len(q) <= k
    <3> TAKE q \in f[k - 1]
    <3>1. Len(q) \in Nat /\ Len(q) <= k - 1
      BY <2>1 DEF IsPlace
    <3> QED BY <2>1, <3>1
  <2>5. ASSUME NEW r \in f[k] PROVE IsPlace(v, r) /\ Len(r) <= k
    <3>1. r \in f[k - 1] \/ \E q \in f[k - 1] : \E i \in DOMAIN Inside(ValueAt(v, q)) : r = Append(q, i)
      BY <2>2 DEF GatherPlaces
    <3> QED BY <2>3, <2>4, <3>1
  <2> QED BY <1>2, <2>1, <2>5
<1>5. MaxDepth \in T
  BY <1>3, <1>4, DepthAssumption, Placing!Climb
<1> QED BY <1>1, <1>2, <1>5 DEF Charts

LEMMA PlacesAreAll ==
    ASSUME NEW v, NEW p, IsPlace(v, p), Len(p) <= MaxDepth
    PROVE  p \in Places(v)
<1>1. PICK f : Charts(f, v)
  BY PlacesInSteps
<1>2. PICK n \in Nat : n = Len(p) /\ n <= MaxDepth
  BY DEF IsPlace
<1>3. PICK T : T = {k \in 0..MaxDepth : \A m \in 0..n : m <= k => SubSeq(p, 1, m) \in f[k]}
  OBVIOUS
<1>4. 0 \in T
  <2>1. SubSeq(p, 1, 0) = <<>>
    BY SubSeqEmpty
  <2>2. \A m \in 0..n : m <= 0 => m = 0
    OBVIOUS
  <2>3. 0 \in 0..MaxDepth /\ f[0] = {<<>>}
    BY <1>1, DepthAssumption DEF Charts
  <2> QED BY <1>3, <2>1, <2>2, <2>3
<1>5. ASSUME NEW k \in 1..MaxDepth, k - 1 \in T PROVE k \in T
  <2>1. k \in 0..MaxDepth /\ \A m \in 0..n : m <= k - 1 => SubSeq(p, 1, m) \in f[k - 1]
    BY <1>3, <1>5, DepthAssumption
  <2>2. f[k] = f[k - 1] \cup UNION {{Append(q, i) : i \in DOMAIN Inside(ValueAt(v, q))} : q \in f[k - 1]}
    BY <1>1 DEF Charts, GatherPlaces
  <2>3. ASSUME NEW m \in 0..n, m <= k PROVE SubSeq(p, 1, m) \in f[k]
    <3>1. CASE m <= k - 1
      BY <2>1, <2>2, <3>1
    <3>2. CASE m = k
      <4>1. m \in 1..n /\ m - 1 \in 0..n /\ m - 1 <= k - 1
        BY <3>2
      <4>2. PICK q : q = SubSeq(p, 1, m - 1)
        OBVIOUS
      <4>3. q \in f[k - 1]
        BY <2>1, <4>1, <4>2
      <4>4. p[m] \in DOMAIN Inside(ValueAt(v, q))
        BY <1>2, <4>1, <4>2 DEF IsPlace, At
      <4>5. SubSeq(p, 1, m) = Append(q, p[m])
        BY <1>2, <4>1, <4>2, PrefixGrows DEF IsPlace
      <4> QED BY <2>2, <4>3, <4>4, <4>5
    <3> QED BY <2>3, <3>1, <3>2
  <2> QED BY <1>3, <2>1, <2>3
<1>6. MaxDepth \in T
  BY <1>4, <1>5, DepthAssumption, Placing!Climb
<1>7. n \in 0..n /\ SubSeq(p, 1, n) = p
  BY <1>2, SubSeqFull DEF IsPlace
<1> QED BY <1>1, <1>2, <1>3, <1>6, <1>7 DEF Charts

-----------------------------------------------------------------------------
(* What RecursiveValues finds is what is at the places below.              *)

LEMMA FoundIsBelow ==
    ASSUME NEW root, NEW p, IsPlace(root, p), NEW w \in RecursiveValues(ValueAt(root, p))
    PROVE  \E q : /\ IsPlace(root, q) /\ w = ValueAt(root, q)
                  /\ Len(p) <= Len(q) /\ SubSeq(q, 1, Len(p)) = p
<1> DEFINE Reached(u) == \E q : /\ IsPlace(root, q) /\ u = ValueAt(root, q)
                                /\ Len(p) <= Len(q) /\ SubSeq(q, 1, Len(p)) = p
<1>1. PICK f : Descent(f, ValueAt(root, p))
  BY ValuesInSteps
<1>2. PICK T : T = {k \in 0..MaxDepth : \A u \in f[k] : Reached(u)}
  OBVIOUS
<1>3. 0 \in T
  <2>1. Len(p) <= Len(p) /\ SubSeq(p, 1, Len(p)) = p
    BY SubSeqFull DEF IsPlace
  <2>2. Reached(ValueAt(root, p))
    BY <2>1
  <2> HIDE DEF Reached
  <2>3. 0 \in 0..MaxDepth /\ f[0] = {ValueAt(root, p)}
    BY <1>1, DepthAssumption DEF Descent
  <2> QED BY <1>2, <2>2, <2>3
<1>4. ASSUME NEW k \in 1..MaxDepth, k - 1 \in T PROVE k \in T
  <2>1. k \in 0..MaxDepth /\ \A u \in f[k - 1] : Reached(u)
    BY <1>2, <1>4, DepthAssumption
  <2>2. f[k] = f[k - 1] \cup UNION {Range(Inside(u)) : u \in f[k - 1]}
    BY <1>1 DEF Descent, DescendIn
  <2>3. ASSUME NEW u \in f[k - 1], NEW x \in Range(Inside(u)) PROVE Reached(x)
    <3>1. PICK q : /\ IsPlace(root, q) /\ u = ValueAt(root, q)
                   /\ Len(p) <= Len(q) /\ SubSeq(q, 1, Len(p)) = p
      BY <2>1
    <3>2. PICK i \in DOMAIN Inside(u) : x = Inside(u)[i]
      BY <2>3 DEF Range
    <3>3. PICK n \in Nat : \E r :
             /\ r = Append(q, i) /\ n = Len(q) /\ IsPlace(root, r) /\ Len(r) = n + 1
             /\ ValueAt(root, r) = Inside(u)[i]
             /\ \A m \in 0..n : SubSeq(r, 1, m) = SubSeq(q, 1, m)
      BY <3>1, <3>2, LongerPlace
    <3>4. PICK r : /\ r = Append(q, i) /\ n = Len(q) /\ IsPlace(root, r) /\ Len(r) = n + 1
                   /\ ValueAt(root, r) = Inside(u)[i]
                   /\ \A m \in 0..n : SubSeq(r, 1, m) = SubSeq(q, 1, m)
      BY <3>3
    <3>5. Len(p) \in 0..n /\ Len(p) <= Len(r)
      BY <3>1, <3>4 DEF IsPlace
    <3>6. SubSeq(r, 1, Len(p)) = p
      BY <3>1, <3>4, <3>5
    <3> QED BY <3>2, <3>4, <3>5, <3>6
  <2> HIDE DEF Reached
  <2>4. \A u \in f[k] : Reached(u)
    BY <2>1, <2>2, <2>3
  <2> QED BY <1>2, <2>1, <2>4
<1> HIDE DEF Reached
<1>5. MaxDepth \in T
  BY <1>3, <1>4, DepthAssumption, Descending!Climb
<1>6. Reached(w)
  BY <1>1, <1>2, <1>5 DEF Descent
<1> QED BY <1>6 DEF Reached

LEMMA BelowIsFound ==
    ASSUME NEW root, NEW q, IsPlace(root, q), NEW n \in Nat, n = Len(q), n <= MaxDepth,
           NEW d \in 0..n
    PROVE  ValueAt(root, q) \in RecursiveValues(At(root, q, d))
<1>1. PICK f : Descent(f, At(root, q, d))
  BY ValuesInSteps
<1>2. PICK T : T = {k \in 0..MaxDepth : \A m \in d..n : m <= d + k => At(root, q, m) \in f[k]}
  OBVIOUS
<1>3. 0 \in T
  <2>1. \A m \in d..n : m <= d + 0 => m = d
    OBVIOUS
  <2>2. 0 \in 0..MaxDepth /\ At(root, q, d) \in f[0]
    BY <1>1, DepthAssumption DEF Descent
  <2> QED BY <1>2, <2>1, <2>2
<1>4. ASSUME NEW k \in 1..MaxDepth, k - 1 \in T PROVE k \in T
  <2>1. k \in 0..MaxDepth /\ \A m \in d..n : m <= d + (k - 1) => At(root, q, m) \in f[k - 1]
    BY <1>2, <1>4, DepthAssumption
  <2>2. f[k] = f[k - 1] \cup UNION {Range(Inside(u)) : u \in f[k - 1]}
    BY <1>1 DEF Descent, DescendIn
  <2>3. ASSUME NEW m \in d..n, m <= d + k PROVE At(root, q, m) \in f[k]
    <3>1. CASE m <= d + (k - 1)
      BY <2>1, <2>2, <3>1
    <3>2. CASE m = d + k
      <4>1. m \in 1..n /\ m - 1 \in d..n /\ m - 1 <= d + (k - 1)
        BY <3>2
      <4>2. At(root, q, m) = Inside(At(root, q, m - 1))[q[m]]
        BY <4>1, AtNext DEF IsPlace
      <4>3. q[m] \in DOMAIN Inside(At(root, q, m - 1))
        BY <4>1 DEF IsPlace
      <4>4. PICK u : u = At(root, q, m - 1)
        OBVIOUS
      <4>5. u \in f[k - 1] /\ At(root, q, m) \in Range(Inside(u))
        BY <2>1, <4>1, <4>2, <4>3, <4>4 DEF Range
      <4> QED BY <2>2, <4>5
    <3> QED BY <2>3, <3>1, <3>2
  <2> QED BY <1>2, <2>1, <2>3
<1>5. MaxDepth \in T
  BY <1>3, <1>4, DepthAssumption, Descending!Climb
<1>6. n \in d..n /\ n <= d + MaxDepth
  BY DepthAssumption
<1>7. At(root, q, n) = ValueAt(root, q)
  BY AtEnd DEF IsPlace
<1> QED BY <1>1, <1>2, <1>5, <1>6, <1>7 DEF Descent

-----------------------------------------------------------------------------
(* How deep arguments nest.                                                *)

LEMMA PlaceBelow ==
    ASSUME NEW root, NEW q, IsPlace(root, q), NEW n \in Nat, n + 1 = Len(q)
    PROVE  /\ q[1] \in DOMAIN Inside(root)
           /\ IsPlace(Inside(root)[q[1]], Tail(q)) /\ Len(Tail(q)) = n
<1> PICK S : S = Range(q)
  OBVIOUS
<1> PICK r, x : r = Tail(q) /\ x = Inside(root)[q[1]]
  OBVIOUS
<1>0. n + 1 \in Nat /\ q \in Seq(S) /\ q # <<>>
  BY DEF IsPlace
<1> PICK N \in Nat : N = n + 1
  BY <1>0
<1>1. r \in Seq(S) /\ Len(r) = n /\ \A i \in 1..n : r[i] = q[i + 1]
  BY <1>0, HeadTailProperties
<1>2. At(root, q, 0) = root /\ At(x, r, 0) = x
  BY AtStart
<1>3. 1 \in 1..(n + 1) /\ 1 - 1 = 0
  OBVIOUS
<1>4. q[1] \in DOMAIN Inside(root) /\ At(root, q, 1) = x
  <2>1. At(root, q, 1) = Inside(At(root, q, 1 - 1))[q[1]]
    <3>1. q \in Seq(S) /\ N = Len(q) /\ 1 \in 1..N /\ N \in Nat
      BY <1>0
    <3> QED BY ONLY <3>1, AtNext
  <2> QED BY <1>2, <1>3, <2>1 DEF IsPlace
<1>5. PICK T : T = {k \in 0..n : At(x, r, k) = At(root, q, k + 1)}
  OBVIOUS
<1>6. 0 \in T
  BY <1>2, <1>4, <1>5
<1>7. ASSUME NEW k \in 1..n, k - 1 \in T PROVE k \in T
  <2>1. At(x, r, k - 1) = At(root, q, k)
    BY <1>5, <1>7
  <2>2. At(x, r, k) = Inside(At(x, r, k - 1))[r[k]]
    <3>1. r \in Seq(S) /\ n = Len(r) /\ k \in 1..n /\ n \in Nat
      BY <1>1
    <3> QED BY ONLY <3>1, AtNext
  <2>3. k + 1 \in 1..(n + 1) /\ (k + 1) - 1 = k
    OBVIOUS
  <2>4. At(root, q, k + 1) = Inside(At(root, q, k))[q[k + 1]]
    <3>1. q \in Seq(S) /\ N = Len(q) /\ k + 1 \in 1..N /\ N \in Nat
      BY <1>0, <2>3
    <3>2. At(root, q, k + 1) = Inside(At(root, q, (k + 1) - 1))[q[k + 1]]
      BY ONLY <3>1, AtNext
    <3> QED BY <2>3, <3>2
  <2> QED BY <1>1, <1>5, <2>1, <2>2, <2>4
<1>8. ASSUME NEW m \in 0..n PROVE m \in T
  <2>1. \A k \in 1..m : k \in 1..n
    OBVIOUS
  <2> QED BY <1>6, <1>7, <2>1, Going!Climb
<1>9. ASSUME NEW i \in 1..n PROVE r[i] \in DOMAIN Inside(At(x, r, i - 1))
  <2>1. i - 1 \in 0..n /\ (i - 1) + 1 = i /\ i + 1 \in 1..(n + 1) /\ (i + 1) - 1 = i
    OBVIOUS
  <2>2. At(x, r, i - 1) = At(root, q, i)
    BY <1>5, <1>8, <2>1
  <2>3. q[i + 1] \in DOMAIN Inside(At(root, q, i))
    BY <2>1 DEF IsPlace
  <2> QED BY <1>1, <2>2, <2>3
<1>10. r \in Seq(Range(r))
  BY <1>1, SeqOfRange
<1> QED BY <1>1, <1>4, <1>9, <1>10 DEF IsPlace

LEMMA ArgumentsAreShallow ==
    ASSUME ArgumentsInv, NEW q, IsPlace(Dict(arguments), q)
    PROVE  Len(q) <= MaxDepth
<1> PICK root : root = Dict(arguments)
  OBVIOUS
<1>1. ASSUME Len(q) > MaxDepth PROVE FALSE
  <2>1. MaxDepth \in Nat /\ Len(q) \in Nat /\ MaxDepth + 1 \in 0..Len(q)
    BY <1>1, DepthAssumption DEF IsPlace
  <2>2. PICK r : r = SubSeq(q, 1, MaxDepth + 1)
    OBVIOUS
  <2>3. IsPlace(root, r) /\ Len(r) = MaxDepth + 1
    BY <2>1, <2>2, ShorterPlace
  <2>4. /\ r[1] \in DOMAIN Inside(root)
        /\ IsPlace(Inside(root)[r[1]], Tail(r)) /\ Len(Tail(r)) = MaxDepth
    BY <2>1, <2>3, PlaceBelow
  <2>5. Inside(root) = [k \in DOMAIN arguments |-> arguments[k].value]
    BY DEF Inside, Dict
  <2>6. PICK k \in DOMAIN arguments : k = r[1] /\ Inside(root)[k] = arguments[k].value
    BY <2>4, <2>5
  <2>7. arguments[k] \in Fields
    BY DEF ArgumentsInv
  <2>8. Tail(r) \in Places(arguments[k].value)
    <3>1. PICK y, z : y = arguments[k].value /\ z = Tail(r)
      OBVIOUS
    <3>2. IsPlace(y, z) /\ Len(z) <= MaxDepth
      BY <2>1, <2>4, <2>6, <3>1
    <3> QED BY <3>1, <3>2, PlacesAreAll
  <2>9. Len(Tail(r)) < MaxDepth
    BY <2>7, <2>8, FieldsAssumption
  <2> QED BY <2>1, <2>4, <2>9
<1>2. MaxDepth \in Nat /\ Len(q) \in Nat
  BY DepthAssumption DEF IsPlace
<1> QED BY <1>1, <1>2

-----------------------------------------------------------------------------
(* The places whose last key has one of the names, and what is there.      *)

Picked(root, depths, names) ==
    {ValueAt(root, p) : p \in {p \in Places(root) :
        Len(p) \in depths /\ p # <<>> /\ NamedAt(root, p, names)}}

Strings(values) == UNION {FlattenStrings(v) : v \in values}

LEMMA StringsBelowAreFound ==
    ASSUME ArgumentsInv, NEW depths, NEW names
    PROVE  StringsBelow(Dict(arguments), depths, names)
             = Strings(Picked(Dict(arguments), depths, names))
<1> PICK root : root = Dict(arguments)
  OBVIOUS
<1>1. ASSUME NEW s \in StringsBelow(root, depths, names)
      PROVE  s \in Strings(Picked(root, depths, names))
  <2>1. PICK q \in Places(root) :
           /\ s = ValueAt(root, q).s /\ ValueAt(root, q).t = "str"
           /\ \E d \in depths \cap DOMAIN q : NamedAt(root, SubSeq(q, 1, d), names)
    BY <1>1 DEF StringsBelow
  <2>2. PICK d \in depths \cap DOMAIN q : NamedAt(root, SubSeq(q, 1, d), names)
    BY <2>1
  <2>3. IsPlace(root, q) /\ Len(q) <= MaxDepth
    BY PlacesArePlaces
  <2>4. PICK n \in Nat : n = Len(q) /\ n <= MaxDepth
    BY <2>3 DEF IsPlace
  <2>5. d \in 0..n /\ d # 0 /\ d \in depths
    BY <2>3, <2>4 DEF IsPlace
  <2>6. PICK p : p = SubSeq(q, 1, d)
    OBVIOUS
  <2>7. IsPlace(root, p) /\ Len(p) = d
    BY <2>3, <2>4, <2>5, <2>6, ShorterPlace
  <2>8. p \in Places(root) /\ p # <<>>
    <3>1. Len(p) <= MaxDepth
      BY <2>4, <2>5, <2>7, DepthAssumption
    <3>2. p # <<>>
      BY <2>5, <2>7
    <3> QED BY <2>7, <3>1, <3>2, PlacesAreAll
  <2>9. ValueAt(root, p) \in Picked(root, depths, names)
    BY <2>2, <2>5, <2>6, <2>7, <2>8 DEF Picked
  <2>10. ValueAt(root, q) \in RecursiveValues(ValueAt(root, p))
    BY <2>3, <2>4, <2>5, <2>6, BelowIsFound DEF At
  <2>11. s \in FlattenStrings(ValueAt(root, p))
    BY <2>1, <2>10 DEF FlattenStrings
  <2> QED BY <2>9, <2>11 DEF Strings
<1>2. ASSUME NEW s \in Strings(Picked(root, depths, names))
      PROVE  s \in StringsBelow(root, depths, names)
  <2>1. PICK p \in Places(root) :
           /\ Len(p) \in depths /\ p # <<>> /\ NamedAt(root, p, names)
           /\ s \in FlattenStrings(ValueAt(root, p))
    BY <1>2 DEF Strings, Picked
  <2>2. PICK w \in RecursiveValues(ValueAt(root, p)) : w.t = "str" /\ s = w.s
    BY <2>1 DEF FlattenStrings
  <2>3. IsPlace(root, p)
    BY PlacesArePlaces
  <2>4. PICK q : /\ IsPlace(root, q) /\ w = ValueAt(root, q)
                 /\ Len(p) <= Len(q) /\ SubSeq(q, 1, Len(p)) = p
    BY <2>3, FoundIsBelow
  <2>5. q \in Places(root)
    BY <2>4, ArgumentsAreShallow, PlacesAreAll
  <2>6. Len(p) \in depths \cap DOMAIN q
    <3>1. p \in Seq(Range(p)) /\ q \in Seq(Range(q))
      BY <2>3, <2>4 DEF IsPlace
    <3>2. Len(p) \in Nat /\ Len(p) # 0
      BY <2>1, <3>1, EmptySeq
    <3>3. Len(p) \in 1..Len(q)
      BY <2>4, <3>1, <3>2
    <3> QED BY <2>1, <3>1, <3>3
  <2>7. NamedAt(root, SubSeq(q, 1, Len(p)), names)
    BY <2>1, <2>4
  <2> QED BY <2>2, <2>4, <2>5, <2>6, <2>7 DEF StringsBelow
<1> QED BY <1>1, <1>2

LEMMA NamedInside ==
    ASSUME NEW w, NEW n, NEW k \in Named(w, n)
    PROVE  k \in DOMAIN Inside(w) /\ Inside(w)[k] = w.fields[k].value
<1>1. w.t = "dict" /\ k \in DOMAIN w.fields
  BY DEF Named
<1>2. Inside(w) = [i \in DOMAIN w.fields |-> w.fields[i].value]
  BY <1>1 DEF Inside
<1> QED BY <1>1, <1>2

(* A place is that of what is inside the value at the place before it.     *)
LEMMA PickedIsInside ==
    ASSUME NEW root, NEW p, IsPlace(root, p), p # <<>>, NEW names, NamedAt(root, p, names)
    PROVE  \E n \in names : \E m \in Nat : \E q :
              /\ Len(p) = m + 1 /\ q = Front(p) /\ IsPlace(root, q) /\ Len(q) = m
              /\ Last(p) \in Named(ValueAt(root, q), n)
              /\ ValueAt(root, p) = ValueAt(root, q).fields[Last(p)].value
<1>1. p \in Seq(Range(p)) /\ Len(p) \in Nat /\ Len(p) # 0
  <2>1. p \in Seq(Range(p))
    BY DEF IsPlace
  <2> QED BY <2>1, EmptySeq
<1>2. PICK m \in Nat : Len(p) = m + 1
  <2>1. Len(p) - 1 \in Nat /\ Len(p) = (Len(p) - 1) + 1
    BY <1>1
  <2> QED BY <2>1
<1>3. PICK q : q = Front(p)
  OBVIOUS
<1>4. m + 1 \in Nat /\ m \in 0..(m + 1) /\ (m + 1) - 1 = m /\ m + 1 \in 1..(m + 1)
  OBVIOUS
<1>5. q = SubSeq(p, 1, m) /\ Last(p) = p[m + 1]
  BY <1>2, <1>3, <1>4 DEF Front, Last
<1>6. IsPlace(root, q) /\ Len(q) = m
  BY <1>2, <1>4, <1>5, ShorterPlace
<1>7. PICK n \in names : Last(p) \in Named(ValueAt(root, q), n)
  BY <1>3 DEF NamedAt
<1>8. ValueAt(root, p) = Inside(ValueAt(root, q))[p[m + 1]]
  <2>1. PICK S, M : S = Range(p) /\ M = m + 1
    OBVIOUS
  <2>2. p \in Seq(S) /\ M = Len(p) /\ M \in 1..M /\ M \in Nat
    BY <1>1, <1>2, <2>1
  <2>3. At(root, p, M) = Inside(At(root, p, M - 1))[p[M]]
    BY ONLY <2>2, AtNext
  <2>4. At(root, p, M) = ValueAt(root, p)
    BY <2>2, AtEnd
  <2>5. M - 1 = m
    BY <2>1
  <2> QED BY <1>5, <2>1, <2>3, <2>4, <2>5 DEF At
<1>9. ValueAt(root, p) = ValueAt(root, q).fields[Last(p)].value
  BY <1>5, <1>7, <1>8, NamedInside
<1> QED BY <1>2, <1>3, <1>6, <1>7, <1>9

(* What is named inside the value at a place is picked.                    *)
LEMMA InsideIsPicked ==
    ASSUME ArgumentsInv, NEW q, IsPlace(Dict(arguments), q), NEW names, NEW n \in names,
           NEW k \in Named(ValueAt(Dict(arguments), q), n), NEW depths, Len(q) + 1 \in depths
    PROVE  ValueAt(Dict(arguments), q).fields[k].value \in Picked(Dict(arguments), depths, names)
<1> PICK root : root = Dict(arguments)
  OBVIOUS
<1>1. k \in DOMAIN Inside(ValueAt(root, q)) /\ Inside(ValueAt(root, q))[k] = ValueAt(root, q).fields[k].value
  BY NamedInside
<1>2. PICK m \in Nat : \E p :
         /\ p = Append(q, k) /\ m = Len(q) /\ IsPlace(root, p) /\ Len(p) = m + 1
         /\ ValueAt(root, p) = Inside(ValueAt(root, q))[k]
         /\ Front(p) = q /\ Last(p) = k
  BY <1>1, LongerPlace
<1>3. PICK p : /\ m = Len(q) /\ IsPlace(root, p) /\ Len(p) = m + 1
               /\ ValueAt(root, p) = Inside(ValueAt(root, q))[k]
               /\ Front(p) = q /\ Last(p) = k
  BY <1>2
<1>4. p \in Places(root) /\ p # <<>>
  BY <1>3, ArgumentsAreShallow, PlacesAreAll
<1>5. NamedAt(root, p, names)
  BY <1>3 DEF NamedAt
<1>6. Len(p) \in depths
  BY <1>3
<1> QED BY <1>1, <1>3, <1>4, <1>5, <1>6 DEF Picked

(* The top-level fields of some names.                                     *)
LEMMA TopFields ==
    ASSUME ArgumentsInv, NEW names
    PROVE  {Dict(arguments).fields[k].value : k \in UNION {Named(Dict(arguments), n) : n \in names}}
             = Picked(Dict(arguments), {1}, names)
<1> PICK root : root = Dict(arguments)
  OBVIOUS
<1>1. ValueAt(root, <<>>) = root /\ IsPlace(root, <<>>) /\ Len(<<>>) + 1 \in {1}
  BY AtStart, EmptyPlace
<1>2. ASSUME NEW n \in names, NEW k \in Named(root, n)
      PROVE  root.fields[k].value \in Picked(root, {1}, names)
  <2>1. PICK q : q = <<>>
    OBVIOUS
  <2>2. ValueAt(root, q) = root /\ IsPlace(root, q) /\ Len(q) + 1 \in {1}
    BY <1>1, <2>1
  <2>3. ValueAt(root, q).fields[k].value \in Picked(root, {1}, names)
    BY <1>2, <2>2, InsideIsPicked
  <2> QED BY <2>2, <2>3
<1>3. ASSUME NEW v \in Picked(root, {1}, names)
      PROVE  \E n \in names : \E k \in Named(root, n) : v = root.fields[k].value
  <2>1. PICK p \in Places(root) :
           v = ValueAt(root, p) /\ Len(p) = 1 /\ p # <<>> /\ NamedAt(root, p, names)
    BY <1>3 DEF Picked
  <2>2. IsPlace(root, p)
    BY PlacesArePlaces
  <2>3. PICK n \in names : \E m \in Nat : \E q :
              /\ Len(p) = m + 1 /\ IsPlace(root, q) /\ Len(q) = m
              /\ Last(p) \in Named(ValueAt(root, q), n)
              /\ ValueAt(root, p) = ValueAt(root, q).fields[Last(p)].value
    <3>1. IsPlace(root, p) /\ p # <<>> /\ NamedAt(root, p, names)
      BY <2>1, <2>2
    <3> QED BY ONLY <3>1, PickedIsInside
  <2>4. PICK m \in Nat : \E q :
              /\ Len(p) = m + 1 /\ IsPlace(root, q) /\ Len(q) = m
              /\ Last(p) \in Named(ValueAt(root, q), n)
              /\ ValueAt(root, p) = ValueAt(root, q).fields[Last(p)].value
    BY <2>3
  <2>5. PICK q : /\ Len(p) = m + 1 /\ IsPlace(root, q) /\ Len(q) = m
                 /\ Last(p) \in Named(ValueAt(root, q), n)
                 /\ ValueAt(root, p) = ValueAt(root, q).fields[Last(p)].value
    BY <2>4
  <2>6. q = <<>>
    <3>1. q \in Seq(Range(q)) /\ Len(q) = 0
      BY <2>1, <2>5 DEF IsPlace
    <3> QED BY <3>1, EmptySeq
  <2> QED BY <1>1, <2>1, <2>5, <2>6
<1> QED BY <1>2, <1>3

(* The fields of a name at any depth.                                      *)
LEMMA AllFields ==
    ASSUME ArgumentsInv, NEW n
    PROVE  FindKey(Dict(arguments), n) = Picked(Dict(arguments), 1..MaxDepth, {n})
<1> PICK root : root = Dict(arguments)
  OBVIOUS
<1>1. ValueAt(root, <<>>) = root /\ IsPlace(root, <<>>)
  BY AtStart, EmptyPlace
<1>2. ASSUME NEW x \in RecursiveValues(root), NEW k \in Named(x, n)
      PROVE  x.fields[k].value \in Picked(root, 1..MaxDepth, {n})
  <2>1. PICK q : IsPlace(root, q) /\ x = ValueAt(root, q)
    BY <1>1, <1>2, FoundIsBelow
  <2>2. k \in DOMAIN Inside(ValueAt(root, q))
    BY <1>2, <2>1, NamedInside
  <2>3. \E m \in Nat : \E p : m = Len(q) /\ IsPlace(root, p) /\ Len(p) = m + 1
    BY <2>1, <2>2, LongerPlace
  <2>4. Len(q) + 1 <= MaxDepth /\ Len(q) \in Nat
    BY <2>3, ArgumentsAreShallow
  <2>5. Len(q) + 1 \in 1..MaxDepth
    BY <2>4, DepthAssumption
  <2>6. n \in {n}
    OBVIOUS
  <2> QED BY <1>2, <2>1, <2>5, <2>6, InsideIsPicked
<1>3. ASSUME NEW v \in Picked(root, 1..MaxDepth, {n}) PROVE v \in FindKey(root, n)
  <2>1. PICK p \in Places(root) :
           v = ValueAt(root, p) /\ p # <<>> /\ NamedAt(root, p, {n})
    BY <1>3 DEF Picked
  <2>2. IsPlace(root, p) /\ Len(p) <= MaxDepth
    BY PlacesArePlaces
  <2>3. PICK m \in Nat : \E q :
              /\ Len(p) = m + 1 /\ IsPlace(root, q) /\ Len(q) = m
              /\ Last(p) \in Named(ValueAt(root, q), n)
              /\ ValueAt(root, p) = ValueAt(root, q).fields[Last(p)].value
    BY <2>1, <2>2, PickedIsInside
  <2>4. PICK q : /\ Len(p) = m + 1 /\ IsPlace(root, q) /\ Len(q) = m
                 /\ Last(p) \in Named(ValueAt(root, q), n)
                 /\ ValueAt(root, p) = ValueAt(root, q).fields[Last(p)].value
    BY <2>3
  <2>5. m <= MaxDepth /\ 0 \in 0..m
    BY <2>2, <2>4, DepthAssumption
  <2>6. ValueAt(root, q) \in RecursiveValues(At(root, q, 0))
    BY <2>4, <2>5, BelowIsFound
  <2>7. At(root, q, 0) = root
    BY AtStart
  <2> QED BY <2>1, <2>4, <2>6, <2>7 DEF FindKey
<1>4. FindKey(root, n) \subseteq Picked(root, 1..MaxDepth, {n})
  <2> SUFFICES ASSUME NEW v \in FindKey(root, n) PROVE v \in Picked(root, 1..MaxDepth, {n})
    OBVIOUS
  <2>1. PICK x \in RecursiveValues(root) : v \in {x.fields[k].value : k \in Named(x, n)}
    BY DEF FindKey
  <2> QED BY <1>2, <2>1
<1> QED BY <1>3, <1>4

-----------------------------------------------------------------------------
(* What field expressions find.                                            *)

LEMMA DeepLeads ==
    ASSUME NEW root, NEW n
    PROVE  ResolveFieldPath(root, Deep(n).tokens) = FindKey(root, n)
<1> PICK token : token = [kind |-> "recursive_key", name |-> n]
  OBVIOUS
<1> PICK start, S, empty : start = {root} /\ S = {token} /\ empty = <<>>
  OBVIOUS
<1>1. Deep(n).tokens = <<token>> /\ <<token>> = Append(<<>>, token)
  BY DEF Deep
<1>2. empty \in Seq(S) /\ token \in S
  OBVIOUS
<1>3. Following!Folded(S, start, Append(empty, token))
        = FollowIn(S, Following!Folded(S, start, empty), token)
  BY ONLY <1>2, Following!FoldAppend
<1>4. Following!Folded(S, start, empty) = start
  BY Following!FoldEmpty
<1>5. FollowIn(S, start, token) = ResolveToken(root, token)
  BY DEF FollowIn
<1>6. ResolveToken(root, token) = FindKey(root, n)
  BY DEF ResolveToken
<1>7. \A tokens : ResolveFieldPath(root, tokens) = Following!Folded(S, start, tokens)
  BY DEF ResolveFieldPath, FollowIn, Following!Folded, FoldLeft, MapThenFoldSet, Max,
         Following!FoldLeft, Following!MapThenFoldSet, Following!Max
<1> QED BY <1>1, <1>3, <1>4, <1>5, <1>6, <1>7

(* An expression names no field of the arguments.                          *)
LEMMA DeepNamesNothing ==
    ASSUME ArgumentsInv, NEW n \in Names
    PROVE  Named(Dict(arguments), Deep(n).name) = {}
<1>1. Named(Dict(arguments), Deep(n).name)
        = {k \in DOMAIN arguments : arguments[k].name = "$.." \o n}
  BY DEF Named, Dict, Deep
<1>2. \A k \in DOMAIN arguments : arguments[k] \in Fields
  BY DEF ArgumentsInv
<1>3. PICK g \in Fields : n = g.name
  BY DEF Names
<1> QED BY <1>1, <1>2, <1>3, FieldsAssumption

(* The values that field expressions lead to.                              *)
ByPath(payload, fields) ==
    UNION {ResolveFieldPath(payload, f.tokens) : f \in {f \in Range(fields) : f.tokens # <<>>}}
ByName(payload, fields) ==
    {payload.fields[k].value : k \in UNION {Named(payload, f.name) : f \in Range(fields)}}
Leads(payload, fields) == ByPath(payload, fields) \cup ByName(payload, fields)

LEMMA CandidatesAreStrings ==
    ASSUME NEW payload, NEW fields
    PROVE  CandidateValues(payload, fields) = Strings(Leads(payload, fields))
BY DEF CandidateValues, Strings, Leads, ByPath, ByName

LEMMA TwoFields ==
    ASSUME NEW payload, NEW fields, NEW f, NEW g, Range(fields) = {f, g}, f.tokens = <<>>
    PROVE  /\ g.tokens = <<>> => ByPath(payload, fields) = {}
           /\ g.tokens # <<>> => ByPath(payload, fields) = ResolveFieldPath(payload, g.tokens)
           /\ ByName(payload, fields)
                = {payload.fields[k].value : k \in Named(payload, f.name) \cup Named(payload, g.name)}
<1>1. ByName(payload, fields)
        = {payload.fields[k].value : k \in Named(payload, f.name) \cup Named(payload, g.name)}
  <2>1. UNION {Named(payload, h.name) : h \in Range(fields)} = Named(payload, f.name) \cup Named(payload, g.name)
    OBVIOUS
  <2> QED BY <2>1 DEF ByName
<1>2. PICK paths : paths = {h \in Range(fields) : h.tokens # <<>>}
  OBVIOUS
<1>3. paths = IF g.tokens = <<>> THEN {} ELSE {g}
  BY <1>2
<1>4. ByPath(payload, fields) = UNION {ResolveFieldPath(payload, h.tokens) : h \in paths}
  BY <1>2 DEF ByPath
<1>5. CASE g.tokens = <<>>
  <2>1. paths = {}
    BY <1>3, <1>5
  <2>2. UNION {ResolveFieldPath(payload, h.tokens) : h \in paths} = {}
    BY <2>1
  <2> QED BY <1>1, <1>4, <1>5, <2>2
<1>6. CASE g.tokens # <<>>
  <2>1. paths = {g}
    BY <1>3, <1>6
  <2>2. UNION {ResolveFieldPath(payload, h.tokens) : h \in paths} = ResolveFieldPath(payload, g.tokens)
    BY <2>1
  <2> QED BY <1>1, <1>4, <1>6, <2>2
<1> QED BY <1>5, <1>6

LEMMA OnePath ==
    ASSUME NEW payload, NEW fields, NEW f, Range(fields) = {f}, f.tokens # <<>>
    PROVE  /\ ByPath(payload, fields) = ResolveFieldPath(payload, f.tokens)
           /\ ByName(payload, fields) = {payload.fields[k].value : k \in Named(payload, f.name)}
<1>1. UNION {Named(payload, h.name) : h \in Range(fields)} = Named(payload, f.name)
  OBVIOUS
<1>2. PICK paths : paths = {h \in Range(fields) : h.tokens # <<>>}
  OBVIOUS
<1>3. paths = {f}
  BY <1>2
<1>4. ByPath(payload, fields) = UNION {ResolveFieldPath(payload, h.tokens) : h \in paths}
  BY <1>2 DEF ByPath
<1>5. UNION {ResolveFieldPath(payload, h.tokens) : h \in paths} = ResolveFieldPath(payload, f.tokens)
  BY <1>3
<1> QED BY <1>1, <1>4, <1>5 DEF ByName

LEMMA WhatFieldsFind ==
    ASSUME ArgumentsInv, NEW n \in Names, NEW m \in Names, NEW root, root = Dict(arguments)
    PROVE  /\ Leads(root, <<Plain(n), Plain(m)>>) = Picked(root, {1}, {n, m})
           /\ Leads(root, <<Deep(n)>>) = Picked(root, 1..MaxDepth, {n})
           /\ Leads(root, <<Plain(n), Deep(m)>>)
                = Picked(root, {1}, {n}) \cup Picked(root, 1..MaxDepth, {m})
<1>1. \A x : Plain(x).tokens = <<>> /\ Plain(x).name = x /\ Deep(x).tokens # <<>>
  BY DEF Plain, Deep
<1>2. /\ ResolveFieldPath(root, Deep(n).tokens) = Picked(root, 1..MaxDepth, {n})
      /\ ResolveFieldPath(root, Deep(m).tokens) = Picked(root, 1..MaxDepth, {m})
  BY DeepLeads, AllFields
<1>3. Named(root, Deep(n).name) = {} /\ Named(root, Deep(m).name) = {}
  <2> n \in Names /\ m \in Names
    OBVIOUS
  <2> QED BY DeepNamesNothing
<1> DEFINE Top(names) == {root.fields[k].value : k \in UNION {Named(root, x) : x \in names}}
<1>4. Top({n, m}) = Picked(root, {1}, {n, m}) /\ Top({n}) = Picked(root, {1}, {n})
  BY TopFields
<1>5. Leads(root, <<Plain(n), Plain(m)>>) = Top({n, m})
  <2>1. PICK a, b, fields : a = Plain(n) /\ b = Plain(m) /\ fields = <<a, b>>
    OBVIOUS
  <2>2. Range(fields) = {a, b} /\ a.tokens = <<>> /\ b.tokens = <<>> /\ a.name = n /\ b.name = m
    BY <1>1, <2>1 DEF Range
  <2>3. /\ b.tokens = <<>> => ByPath(root, fields) = {}
        /\ ByName(root, fields)
             = {root.fields[k].value : k \in Named(root, a.name) \cup Named(root, b.name)}
    <3>1. Range(fields) = {a, b} /\ a.tokens = <<>>
      BY <2>2
    <3> QED BY ONLY <3>1, TwoFields
  <2>4. UNION {Named(root, x) : x \in {n, m}} = Named(root, a.name) \cup Named(root, b.name)
    BY <2>2
  <2> QED BY <2>1, <2>2, <2>3, <2>4 DEF Leads
<1>6. Leads(root, <<Deep(n)>>) = ResolveFieldPath(root, Deep(n).tokens)
  <2>1. PICK a, fields : a = Deep(n) /\ fields = <<a>>
    OBVIOUS
  <2>2. Range(fields) = {a} /\ a.tokens # <<>> /\ Named(root, a.name) = {}
    BY <1>1, <1>3, <2>1 DEF Range
  <2>3. /\ ByPath(root, fields) = ResolveFieldPath(root, a.tokens)
        /\ ByName(root, fields) = {root.fields[k].value : k \in Named(root, a.name)}
    BY <2>2, OnePath
  <2>4. ByName(root, fields) = {}
    BY <2>2, <2>3
  <2> QED BY <2>1, <2>3, <2>4 DEF Leads
<1>7. Leads(root, <<Plain(n), Deep(m)>>) = ResolveFieldPath(root, Deep(m).tokens) \cup Top({n})
  <2>1. PICK a, b, fields : a = Plain(n) /\ b = Deep(m) /\ fields = <<a, b>>
    OBVIOUS
  <2>2. /\ Range(fields) = {a, b} /\ a.tokens = <<>> /\ b.tokens # <<>>
        /\ a.name = n /\ Named(root, b.name) = {}
    BY <1>1, <1>3, <2>1 DEF Range
  <2>3. /\ ByPath(root, fields) = ResolveFieldPath(root, b.tokens)
        /\ ByName(root, fields) = {root.fields[k].value : k \in Named(root, a.name) \cup Named(root, b.name)}
    BY ONLY <2>2, TwoFields
  <2>4. Named(root, a.name) \cup Named(root, b.name) = UNION {Named(root, x) : x \in {n}}
    BY <2>2
  <2> QED BY <2>1, <2>3, <2>4 DEF Leads
<1> HIDE DEF Top
<1> QED BY <1>2, <1>4, <1>5, <1>6, <1>7

LEMMA StringsOfUnion ==
    ASSUME NEW V, NEW W
    PROVE  Strings(V \cup W) = Strings(V) \cup Strings(W)
BY DEF Strings

LEMMA NamesFind ==
    ASSUME ArgumentsInv, NEW n \in Names, NEW m \in Names, NEW root, root = Dict(arguments)
    PROVE  /\ CandidateValues(root, <<Plain(n), Plain(m)>>) = StringsBelow(root, {1}, {n, m})
           /\ CandidateValues(root, <<Deep(n)>>) = StringsBelow(root, 1..MaxDepth, {n})
           /\ CandidateValues(root, <<Plain(n), Deep(m)>>) =
                 StringsBelow(root, {1}, {n}) \cup StringsBelow(root, 1..MaxDepth, {m})
<1>2. \A depths, names : StringsBelow(root, depths, names) = Strings(Picked(root, depths, names))
  BY StringsBelowAreFound
<1>3. \A fields : CandidateValues(root, fields) = Strings(Leads(root, fields))
  BY CandidatesAreStrings
<1>4. /\ Leads(root, <<Plain(n), Plain(m)>>) = Picked(root, {1}, {n, m})
      /\ Leads(root, <<Deep(n)>>) = Picked(root, 1..MaxDepth, {n})
      /\ Leads(root, <<Plain(n), Deep(m)>>)
           = Picked(root, {1}, {n}) \cup Picked(root, 1..MaxDepth, {m})
  BY WhatFieldsFind
<1>5. Strings(Picked(root, {1}, {n}) \cup Picked(root, 1..MaxDepth, {m}))
        = Strings(Picked(root, {1}, {n})) \cup Strings(Picked(root, 1..MaxDepth, {m}))
  BY StringsOfUnion
<1>6. CandidateValues(root, <<Plain(n), Plain(m)>>) = StringsBelow(root, {1}, {n, m})
  BY <1>2, <1>3, <1>4
<1>7. CandidateValues(root, <<Deep(n)>>) = StringsBelow(root, 1..MaxDepth, {n})
  BY <1>2, <1>3, <1>4
<1>8. CandidateValues(root, <<Plain(n), Deep(m)>>)
        = StringsBelow(root, {1}, {n}) \cup StringsBelow(root, 1..MaxDepth, {m})
  BY <1>2, <1>3, <1>4, <1>5
<1> QED BY <1>6, <1>7, <1>8

(* A plain name finds the strings below the top-level fields of that name, *)
(* "$..name" those below any field of that name, and neither any other,    *)
(* however the arguments nest and in whatever spelling their keys are.     *)
THEOREM FieldsAreFound == PolicySpec => []NamedFieldsAreFound
<1>1. ASSUME ArgumentsInv PROVE NamedFieldsAreFound
  <2>1. PICK root : root = Dict(arguments)
    OBVIOUS
  <2>2. ASSUME NEW n \in Names, NEW m \in Names
        PROVE  /\ CandidateValues(root, <<Plain(n), Plain(m)>>) = StringsBelow(root, {1}, {n, m})
               /\ CandidateValues(root, <<Deep(n)>>) = StringsBelow(root, 1..MaxDepth, {n})
               /\ CandidateValues(root, <<Plain(n), Deep(m)>>) =
                     StringsBelow(root, {1}, {n}) \cup StringsBelow(root, 1..MaxDepth, {m})
    BY <1>1, <2>1, NamesFind
  <2> QED BY <2>1, <2>2 DEF NamedFieldsAreFound
<1> QED BY <1>1, ArgumentsInvHolds, PTL
=============================================================================
